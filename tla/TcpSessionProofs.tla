-------------------------- MODULE TcpSessionProofs --------------------------
(***************************************************************************)
(* What is given to a TCP bridge reaches the other side as whole messages  *)
(* and each at most once, over any number of lost connections.             *)
(***************************************************************************)
EXTENDS TcpBridgeProofs

-----------------------------------------------------------------------------
(* The server.                                                             *)

\* What a bridge starts with.
LEMMA EmptyGood ==
    /\ EmptyOut \in Buffer /\ Good(EmptyOut)
    /\ EmptyOut.data = <<>> /\ EmptyOut.cursor = 0
  <1>1. /\ EmptyOut.data = <<>> /\ EmptyOut.sp = <<>> /\ EmptyOut.cursor = 0
        /\ EmptyOut \in Buffer
    BY EmptySeq DEF EmptyOut, Buffer
  <1>2. Framed(<<>>) /\ Increasing(<<>>) /\ Starts(<<>>, <<>>)
    BY DEF Framed, Increasing, Starts
  <1>3. Good(EmptyOut)
    BY <1>1, <1>2, GoodIf
  <1> QED
    BY <1>1, <1>3

LEMMA NoneTyped ==
    /\ NoPeer \in PeerType /\ NoPeer.out = EmptyOut /\ NoPeer.part = <<>>
    /\ NoPeer.st = "none" /\ NoPeer.opening = FALSE
  <1>1. None \in List /\ 1 \in Version
    BY BoundsNat DEF List, None, Wrong, Version
  <1>2. EmptyOut \in Buffer /\ <<>> \in Seq(Cell)
    BY EmptyGood, EmptySeq
  <1> QED
    BY <1>1, <1>2 DEF NoPeer, PeerType

LEMMA PeerTyped ==
    ASSUME SessionInv, NEW c \in Conn
    PROVE  /\ sv \in [Conn -> PeerType] /\ sv[c] \in PeerType /\ Good(sv[c].out)
           /\ sv[c].out \in Buffer /\ sv[c].told \in Version \cup {None} /\ sv[c].known \in List
           /\ sv[c].part \in Seq(Cell)
           /\ net \in [Conn -> Connection] /\ net[c] \in Connection /\ net[c].up \in BOOLEAN
           /\ net[c].toS \in Seq(Cell) /\ net[c].toC \in Seq(Cell)
           /\ srv.list \in Version /\ lost \in BOOLEAN /\ received \in Seq(1 .. sent)
           /\ srv \in [list : Version, timer : BOOLEAN, stuck : BOOLEAN]
           /\ sv[c].st # "none" => c <= conn
  <1>1. VarsTyped /\ BuffersGood /\ OneByOne
    BY DEF SessionInv
  <1>2. sv[c] \in PeerType /\ net[c] \in Connection
    BY <1>1 DEF VarsTyped
  <1>3. sv[c].st # "none" => c <= conn
    <2>1. sv[c].st # "none" => ~ (c > conn)
      BY <1>1 DEF OneByOne
    <2>2. c \in Nat /\ conn \in Nat
      BY <1>1, ConnNumbers, Typed
    <2> QED
      BY <2>1, <2>2
  <1>4. Good(sv[c].out)
    BY <1>1 DEF BuffersGood
  <1>5. /\ sv[c].out \in Buffer /\ sv[c].told \in Version \cup {None} /\ sv[c].known \in List
        /\ sv[c].part \in Seq(Cell) /\ net[c].toS \in Seq(Cell) /\ net[c].toC \in Seq(Cell)
        /\ net[c].up \in BOOLEAN
    BY <1>2 DEF PeerType, Connection
  <1>6. /\ sv \in [Conn -> PeerType] /\ net \in [Conn -> Connection]
        /\ srv \in [list : Version, timer : BOOLEAN, stuck : BOOLEAN]
        /\ lost \in BOOLEAN /\ received \in Seq(1 .. sent)
    BY <1>1 DEF VarsTyped
  <1> QED
    BY <1>2, <1>3, <1>4, <1>5, <1>6

\* A step of the peer of connection c: it becomes p, and the connection x.
PeerSteps(c, p, x) ==
    /\ UNCHANGED <<conn, cl, sent>> /\ lost' \in BOOLEAN /\ received' \in Seq(1 .. sent)
    /\ srv' \in [list : Version, timer : BOOLEAN, stuck : BOOLEAN] /\ srv'.list = srv.list
    /\ sv' = [sv EXCEPT ![c] = p] /\ p \in PeerType /\ Good(p.out)
    /\ net' = [net EXCEPT ![c] = x] /\ x \in Connection /\ x.up = net[c].up
    /\ c <= conn /\ p.st # "none" /\ (net[c].toS = <<>> => x.toS = <<>>)
    /\ p.st \in {"none", "handshake"} => ~ p.opening
    /\ p.st = "handshake" /\ p.rd =>
         /\ Fresh(c) /\ p.part = sv[c].part /\ p.out.data = <<>>
         /\ x.toC = <<>> /\ x.toS = net[c].toS
    /\ p.st \in {"lost", "gone"} \/ (p.st = "open" /\ ~ p.rd) => x.toS = <<>> /\ ~ x.up

LEMMA PeerStepsKeep ==
    ASSUME SessionInv, NEW c \in Conn, NEW p, NEW x, PeerSteps(c, p, x)
    PROVE  /\ VarsTyped' /\ BuffersGood' /\ OneByOne' /\ Handshakes'
           /\ sv'[c] = p /\ \A d \in Conn : d # c => sv'[d] = sv[d]
           /\ net'[c] = x /\ \A d \in Conn : d # c => net'[d] = net[d]
           /\ net' \in [Conn -> Connection]
  <1>1. VarsTyped /\ BuffersGood /\ OneByOne /\ Handshakes
    BY DEF SessionInv
  <1>2. sv \in [Conn -> PeerType] /\ net \in [Conn -> Connection]
    BY PeerTyped
  <1>3. /\ sv' \in [Conn -> PeerType] /\ sv'[c] = p
        /\ \A d \in Conn : d # c => sv'[d] = sv[d]
    BY <1>2 DEF PeerSteps
  <1>4. /\ net' \in [Conn -> Connection] /\ net'[c] = x
        /\ \A d \in Conn : d # c => net'[d] = net[d]
    BY <1>2 DEF PeerSteps
  <1>5. UNCHANGED <<conn, cl, sent>>
    BY DEF PeerSteps
  <1>6. VarsTyped'
    <2>1. /\ srv' \in [list : Version, timer : BOOLEAN, stuck : BOOLEAN] /\ srv'.list = srv.list
          /\ lost' \in BOOLEAN /\ received' \in Seq(1 .. sent)
      BY DEF PeerSteps
    <2> QED
      BY <1>1, <1>3, <1>4, <1>5, <2>1 DEF VarsTyped
  <1>7. BuffersGood'
    <2>1. Good(p.out)
      BY DEF PeerSteps
    <2>2. \A d \in Conn : Good(sv'[d].out)
      BY <1>1, <1>3, <2>1 DEF BuffersGood
    <2> QED
      BY <1>1, <1>5, <2>2 DEF BuffersGood
  <1>8. OneByOne'
    <2>1. \A d \in Conn : d > conn => d # c
      <3>1. c <= conn /\ c \in Nat /\ conn \in Nat /\ \A d \in Conn : d \in Nat
        BY <1>1, ConnNumbers, Typed DEF PeerSteps
      <3> QED
        BY <3>1
    <2>2. \A d \in Conn : net'[d].up => net[d].up
      BY <1>4 DEF PeerSteps
    <2>3. \A d \in Conn : sv'[d].st \in {"none", "handshake"} => ~ sv'[d].opening
      BY <1>1, <1>3 DEF OneByOne, PeerSteps
    <2> QED
      BY <1>1, <1>3, <1>4, <1>5, <2>1, <2>2, <2>3 DEF OneByOne
  <1>9. Handshakes'
    <2>1. ASSUME NEW d \in Conn,
                 sv'[d].st = "none" \/ (sv'[d].st = "handshake" /\ sv'[d].rd)
          PROVE  /\ sv'[d].part = <<>> /\ sv'[d].out.data = <<>> /\ net'[d].toC = <<>>
                 /\ net'[d].toS \in {<<>>, <<GetCell>>} /\ (d = conn => cl.hs)
      <3>1. CASE d = c
        <4>1. /\ Fresh(c) /\ p.part = sv[c].part /\ p.out.data = <<>>
              /\ x.toC = <<>> /\ x.toS = net[c].toS
          BY <1>3, <2>1, <3>1 DEF PeerSteps
        <4> QED
          BY <1>1, <1>3, <1>4, <3>1, <4>1 DEF Handshakes
      <3>2. CASE d # c
        <4>1. Fresh(d) /\ sv'[d] = sv[d] /\ net'[d] = net[d]
          BY <1>3, <1>4, <2>1, <3>2 DEF Fresh
        <4> QED
          BY <1>1, <4>1 DEF Handshakes
      <3> QED
        BY <3>1, <3>2
    <2>2. conn \in Conn /\ net'[conn].up /\ cl.hs /\ cl.out.want => net'[conn].toS = <<>>
      <3> SUFFICES ASSUME NEW k \in Conn, k = conn, net'[k].up, cl.hs, cl.out.want
                   PROVE  net'[k].toS = <<>>
        OBVIOUS
      <3>1. net[k].up
        BY <1>4 DEF PeerSteps
      <3>2. net[k].toS = <<>>
        BY <1>1, <3>1 DEF Handshakes
      <3> QED
        BY <1>4, <3>2 DEF PeerSteps
    <2>3. ASSUME NEW d \in Conn,
                 sv'[d].st \in {"lost", "gone"} \/ (sv'[d].st = "open" /\ ~sv'[d].rd)
          PROVE  net'[d].toS = <<>> /\ ~ net'[d].up
      BY <1>1, <1>3, <1>4, <2>3 DEF Handshakes, PeerSteps
    <2>4. cl.hs => cl.out.cursor = 0
      BY <1>1 DEF Handshakes
    <2> QED
      BY <1>5, <2>1, <2>2, <2>3, <2>4 DEF Handshakes, Fresh
  <1> QED
    BY <1>3, <1>4, <1>6, <1>7, <1>8, <1>9

\* A peer that reads nothing.
LEMMA PeerStill ==
    ASSUME SessionInv, NEW c \in Conn, NEW p, NEW x, PeerSteps(c, p, x),
           p.part = sv[c].part, x.toS = net[c].toS, received' = received
    PROVE  SessionInv'
  <1>1. /\ VarsTyped' /\ BuffersGood' /\ OneByOne' /\ Handshakes'
        /\ sv'[c] = p /\ \A d \in Conn : d # c => sv'[d] = sv[d]
        /\ net'[c] = x /\ \A d \in Conn : d # c => net'[d] = net[d]
        /\ net' \in [Conn -> Connection]
    BY PeerStepsKeep
  <1>2. UNCHANGED <<conn, cl, sent>> /\ x.up = net[c].up
    BY DEF PeerSteps
  <1>3. \A d \in Conn : /\ net'[d].toS = net[d].toS /\ sv'[d].part = sv[d].part
                        /\ net'[d].up = net[d].up
    BY <1>1, <1>2
  <1>4. Still
    BY <1>1, <1>2, <1>3 DEF Still
  <1> QED
    BY <1>1, <1>4, StillOnce DEF SessionInv

LEMMA AcceptKeeps ==
    ASSUME SessionInv, NEW c \in Conn, Accept(c)
    PROVE  SessionInv'
  <1>1. /\ sv[c].st = "none" /\ c <= conn /\ UNCHANGED <<conn, cl, srv, net, sent, received, lost>>
        /\ sv' = [sv EXCEPT ![c].st = "handshake", ![c].rd = TRUE]
    BY DEF Accept
  <1>2. /\ sv \in [Conn -> PeerType] /\ sv[c] \in PeerType /\ Good(sv[c].out)
        /\ net \in [Conn -> Connection] /\ net[c] \in Connection
        /\ srv \in [list : Version, timer : BOOLEAN, stuck : BOOLEAN]
        /\ lost \in BOOLEAN /\ received \in Seq(1 .. sent)
    BY PeerTyped
  <1>3. PICK p : p = [sv[c] EXCEPT !.st = "handshake", !.rd = TRUE]
    OBVIOUS
  <1>4. /\ p \in PeerType /\ p.st = "handshake" /\ p.rd = TRUE /\ p.out = sv[c].out
        /\ p.part = sv[c].part /\ p.opening = sv[c].opening
    BY <1>2, <1>3 DEF PeerType
  <1>5. sv' = [sv EXCEPT ![c] = p]
    BY <1>1, <1>2, <1>3 DEF PeerType
  <1>6. /\ Fresh(c) /\ sv[c].out.data = <<>> /\ net[c].toC = <<>> /\ ~ sv[c].opening
    BY <1>1 DEF SessionInv, Handshakes, OneByOne, Fresh
  <1>7. net' = [net EXCEPT ![c] = net[c]]
    BY <1>1, <1>2
  <1>8. PeerSteps(c, p, net[c])
    BY <1>1, <1>2, <1>4, <1>5, <1>6, <1>7 DEF PeerSteps
  <1> QED
    BY <1>1, <1>4, <1>8, PeerStill

LEMMA PeerClosedKeeps ==
    ASSUME SessionInv, NEW c \in Conn, PeerClosed(c) \/ SessionEnds(c)
    PROVE  SessionInv'
  <1>1. /\ sv \in [Conn -> PeerType] /\ sv[c] \in PeerType /\ Good(sv[c].out)
        /\ net \in [Conn -> Connection] /\ net[c] \in Connection
        /\ srv \in [list : Version, timer : BOOLEAN, stuck : BOOLEAN]
        /\ lost \in BOOLEAN /\ received \in Seq(1 .. sent) /\ (sv[c].st # "none" => c <= conn)
    BY PeerTyped
  <1>2. /\ UNCHANGED <<conn, cl, net, sent, received, lost>>
        /\ srv' = srv \/ srv' = [srv EXCEPT !.timer = TRUE]
    BY DEF PeerClosed, SessionEnds
  <1>3. sv[c].st \in {"handshake", "open"} /\ ~ net[c].up /\ net[c].toS = <<>>
    <2>1. CASE PeerClosed(c)
      BY <2>1 DEF PeerClosed
    <2>2. CASE SessionEnds(c)
      BY <2>2 DEF SessionEnds, SessionInv, Handshakes
    <2> QED
      BY <2>1, <2>2
  <1>4. PICK p : /\ sv' = [sv EXCEPT ![c] = p] /\ p \in PeerType /\ p.out = sv[c].out
                 /\ p.part = sv[c].part /\ p.st \in {"open", "lost"}
    <2>1. CASE sv' = [sv EXCEPT ![c].rd = FALSE] /\ sv[c].st = "open"
      <3>1. PICK p : p = [sv[c] EXCEPT !.rd = FALSE]
        OBVIOUS
      <3>2. sv' = [sv EXCEPT ![c] = p]
        BY <2>1, <3>1
      <3>3. p \in PeerType /\ p.out = sv[c].out /\ p.part = sv[c].part /\ p.st = "open"
        BY <1>1, <2>1, <3>1 DEF PeerType
      <3> QED
        BY <3>2, <3>3
    <2>2. CASE sv' = [sv EXCEPT ![c].st = "lost", ![c].rd = FALSE]
      <3>1. PICK p : p = [sv[c] EXCEPT !.st = "lost", !.rd = FALSE]
        OBVIOUS
      <3>2. sv' = [sv EXCEPT ![c] = p]
        BY <1>1, <2>2, <3>1 DEF PeerType
      <3>3. p \in PeerType /\ p.out = sv[c].out /\ p.part = sv[c].part /\ p.st = "lost"
        BY <1>1, <3>1 DEF PeerType
      <3> QED
        BY <3>2, <3>3
    <2>3. CASE sv' = [sv EXCEPT ![c].st = "lost"]
      <3>1. PICK p : p = [sv[c] EXCEPT !.st = "lost"]
        OBVIOUS
      <3>2. sv' = [sv EXCEPT ![c] = p]
        BY <2>3, <3>1
      <3>3. p \in PeerType /\ p.out = sv[c].out /\ p.part = sv[c].part /\ p.st = "lost"
        BY <1>1, <3>1 DEF PeerType
      <3> QED
        BY <3>2, <3>3
    <2> QED
      BY <2>1, <2>2, <2>3 DEF PeerClosed, SessionEnds
  <1>5. net' = [net EXCEPT ![c] = net[c]]
    BY <1>1, <1>2
  <1>6. srv' \in [list : Version, timer : BOOLEAN, stuck : BOOLEAN] /\ srv'.list = srv.list
    BY <1>1, <1>2
  <1>7. PeerSteps(c, p, net[c])
    BY <1>1, <1>2, <1>3, <1>4, <1>5, <1>6 DEF PeerSteps
  <1> QED
    BY <1>2, <1>4, <1>7, PeerStill

-----------------------------------------------------------------------------
(* The server sends.                                                       *)

\* A connection on which s is left to read, after w is sent to the client.
Toward(n, s, w) == [n EXCEPT !.toS = s, !.toC = Carry(n.up, n.toC, w)]

LEMMA ToClient ==
    ASSUME NEW n \in Connection, NEW s \in Seq(Cell), NEW w \in Seq(Cell),
           NEW x, x = Toward(n, s, w)
    PROVE  /\ x \in Connection /\ x.up = n.up /\ x.toS = s
           /\ w = <<>> => x.toC = n.toC
  <1>1. PICK t : t = Carry(n.up, n.toC, w)
    OBVIOUS
  <1>2. n.up \in BOOLEAN /\ n.toC \in Seq(Cell)
    BY DEF Connection
  <1>3. t \in Seq(Cell) /\ (w = <<>> => t = n.toC)
    BY <1>1, <1>2, ConcatProperties, ConcatEmptySeq DEF Carry
  <1>4. x = [n EXCEPT !.toS = s, !.toC = t]
    BY <1>1 DEF Toward
  <1> QED
    BY <1>3, <1>4 DEF Connection

LEMMA PeerClearToSendKeeps ==
    ASSUME SessionInv, NEW c \in Conn, PeerClearToSend(c)
    PROVE  SessionInv'
  <1>1. PICK n \in (IF sv[c].out.data = <<>> THEN {0} ELSE 1 .. Len(View(sv[c].out))) :
          /\ net' = [net EXCEPT ![c].toC = Carry(net[c].up, @, SubSeq(View(sv[c].out), 1, n))]
          /\ sv' = [sv EXCEPT ![c].out = ClearedToSend(@, n)]
    BY DEF PeerClearToSend
  <1>2. /\ sv[c].st \in {"handshake", "open"}
        /\ UNCHANGED <<conn, cl, srv, sent, received, lost>>
    BY DEF PeerClearToSend
  <1>3. /\ sv \in [Conn -> PeerType] /\ sv[c] \in PeerType /\ Good(sv[c].out)
        /\ sv[c].out \in Buffer
        /\ net \in [Conn -> Connection] /\ net[c] \in Connection
        /\ net[c].toS \in Seq(Cell) /\ net[c].toC \in Seq(Cell)
        /\ srv \in [list : Version, timer : BOOLEAN, stuck : BOOLEAN]
        /\ lost \in BOOLEAN /\ received \in Seq(1 .. sent) /\ (sv[c].st # "none" => c <= conn)
    BY PeerTyped
  <1>4. n \in Nat /\ n <= Len(View(sv[c].out))
    <2>1. View(sv[c].out) \in Seq(Cell)
      BY <1>3, ViewOf
    <2>2. Len(View(sv[c].out)) \in Nat
      BY <2>1, LenProperties
    <2> QED
      BY <2>2
  <1>5. PICK o, w : o = ClearedToSend(sv[c].out, n) /\ w = SubSeq(View(sv[c].out), 1, n)
    OBVIOUS
  <1>6. Good(o) /\ o \in Buffer /\ w \in Seq(Cell)
    BY <1>3, <1>4, <1>5, ClearedWrote DEF Good
  <1>7. sv[c].out.data = <<>> => o.data = <<>> /\ w = <<>>
    <2> HAVE sv[c].out.data = <<>>
    <2>1. n = 0
      OBVIOUS
    <2>2. w = <<>>
      BY <1>5, <2>1, SubSeqEmpty
    <2>3. sv[c].out.sp = <<>>
      BY <1>3 DEF Good, Sound
    <2>4. PICK q : q = [sv[c].out EXCEPT !.want = FALSE]
      OBVIOUS
    <2>5. q \in Buffer /\ q.sp = <<>> /\ q.data = <<>>
      BY <1>3, <2>3, <2>4 DEF Buffer
    <2>6. AfterSend(q, n) = q
      BY <2>5 DEF AfterSend
    <2>7. o = [q EXCEPT !.allowed = TRUE]
      BY <1>5, <2>4, <2>5, <2>6 DEF ClearedToSend
    <2> QED
      BY <2>2, <2>5, <2>7 DEF Buffer
  <1>8. PICK p, x : /\ p = [sv[c] EXCEPT !.out = o]
                    /\ x = Toward(net[c], net[c].toS, w)
    OBVIOUS
  <1>9. /\ p \in PeerType /\ p.out = o /\ p.st = sv[c].st /\ p.rd = sv[c].rd
        /\ p.part = sv[c].part /\ p.opening = sv[c].opening
    BY <1>3, <1>6, <1>8 DEF PeerType
  <1>10. /\ x \in Connection /\ x.up = net[c].up /\ x.toS = net[c].toS
         /\ w = <<>> => x.toC = net[c].toC
    <2>1. net[c] \in Connection /\ net[c].toS \in Seq(Cell) /\ w \in Seq(Cell)
      BY <1>3, <1>6
    <2>2. x = Toward(net[c], net[c].toS, w)
      BY <1>8
    <2> QED
      BY <2>1, <2>2, ToClient
  <1>11. sv' = [sv EXCEPT ![c] = p]
    BY <1>1, <1>5, <1>8
  <1>12. net' = [net EXCEPT ![c] = x]
    <2>1. x = [net[c] EXCEPT !.toC = Carry(net[c].up, net[c].toC, w)]
      BY <1>3, <1>8 DEF Connection, Toward
    <2> QED
      BY <1>1, <1>5, <2>1
  <1>13. /\ p.st \in {"none", "handshake"} => ~ p.opening
         /\ p.st = "handshake" /\ p.rd =>
              /\ Fresh(c) /\ p.part = sv[c].part /\ p.out.data = <<>>
              /\ x.toC = <<>> /\ x.toS = net[c].toS
    <2>1. Fresh(c) => sv[c].out.data = <<>> /\ net[c].toC = <<>>
      BY DEF SessionInv, Handshakes
    <2>2. sv[c].st \in {"none", "handshake"} => ~ sv[c].opening
      BY DEF SessionInv, OneByOne
    <2> QED
      BY <1>7, <1>9, <1>10, <2>1, <2>2 DEF Fresh
  <1>14. p.st \in {"lost", "gone"} \/ (p.st = "open" /\ ~ p.rd) => x.toS = <<>> /\ ~ x.up
    BY <1>9, <1>10 DEF SessionInv, Handshakes
  <1>15. PeerSteps(c, p, x)
    BY <1>2, <1>3, <1>6, <1>9, <1>10, <1>11, <1>12, <1>13, <1>14 DEF PeerSteps
  <1> QED
    BY <1>2, <1>9, <1>10, <1>15, PeerStill

LEMMA StartPeerKeeps ==
    ASSUME SessionInv, NEW c \in Conn, StartPeer(c)
    PROVE  SessionInv'
  <1> DEFINE ms == Opening(sv[c].told)
  <1>1. PICK n \in FlushSizes(sv[c].out, ms) :
          /\ sv' = [sv EXCEPT ![c] = [@ EXCEPT !.opening = FALSE, !.told = srv.list,
                                               !.out = Output(sv[c].out, FALSE, ms, n)]]
          /\ net' = [net EXCEPT ![c].toC = Carry(net[c].up, @, OutputCells(sv[c].out, FALSE, ms, n))]
          /\ lost' = (lost \/ sv[c].told # None)
    BY DEF StartPeer
  <1>2. sv[c].opening /\ UNCHANGED <<conn, cl, srv, sent, received>>
    BY DEF StartPeer
  <1>3. /\ sv \in [Conn -> PeerType] /\ sv[c] \in PeerType /\ Good(sv[c].out)
        /\ net \in [Conn -> Connection] /\ net[c] \in Connection /\ net[c].toS \in Seq(Cell)
        /\ srv.list \in Version /\ sv[c].told \in Version \cup {None}
        /\ srv \in [list : Version, timer : BOOLEAN, stuck : BOOLEAN]
        /\ lost \in BOOLEAN /\ received \in Seq(1 .. sent) /\ (sv[c].st # "none" => c <= conn)
    BY PeerTyped
  <1>4. ms \in Seq(Message) /\ Len(ms) <= 2
    <2>1. PICK u : u = Update(srv.list, sv[c].told, FALSE)
      OBVIOUS
    <2>2. u \in Seq(Message) /\ Len(u) <= 1
      BY <1>3, <2>1, UpdateQuiet DEF Quiet
    <2>3. <<NewSession>> \in Seq(Message) /\ Len(<<NewSession>>) = 1
      BY MessagesTyped
    <2>4. ms = <<NewSession>> \o u
      BY <2>1 DEF Opening
    <2>5. Len(u) \in Nat
      BY <2>2, LenProperties
    <2>6. ms \in Seq(Message) /\ Len(ms) = Len(<<NewSession>>) + Len(u)
      BY <2>2, <2>3, <2>4, ConcatProperties
    <2> HIDE DEF ms
    <2> QED
      BY <2>2, <2>3, <2>5, <2>6
  <1> HIDE DEF ms
  <1>5. PICK o, w : o = Output(sv[c].out, FALSE, ms, n) /\ w = OutputCells(sv[c].out, FALSE, ms, n)
    OBVIOUS
  <1>6. Good(o) /\ o \in Buffer /\ w \in Seq(Cell)
    <2>1. n \in FlushSizes(sv[c].out, ms) \cup {0} /\ FALSE \in BOOLEAN
      OBVIOUS
    <2> QED
      BY <1>3, <1>4, <1>5, <2>1, OutputGood DEF Good
  <1>7. PICK p, x : /\ p = [sv[c] EXCEPT !.opening = FALSE, !.told = srv.list, !.out = o]
                    /\ x = Toward(net[c], net[c].toS, w)
    OBVIOUS
  <1>8. /\ p \in PeerType /\ p.out = o /\ p.st = sv[c].st /\ p.rd = sv[c].rd
        /\ p.part = sv[c].part
    BY <1>3, <1>6, <1>7 DEF PeerType
  <1>9. x \in Connection /\ x.up = net[c].up /\ x.toS = net[c].toS
    BY <1>3, <1>6, <1>7, ToClient
  <1>10. sv' = [sv EXCEPT ![c] = p]
    BY <1>1, <1>5, <1>7
  <1>11. net' = [net EXCEPT ![c] = x]
    <2>1. x = [net[c] EXCEPT !.toC = Carry(net[c].up, net[c].toC, w)]
      BY <1>3, <1>7 DEF Connection, Toward
    <2> QED
      BY <1>1, <1>5, <2>1
  <1>12. p.st \notin {"none", "handshake"}
    BY <1>2, <1>8 DEF SessionInv, OneByOne
  <1>13. p.st \in {"lost", "gone"} \/ (p.st = "open" /\ ~ p.rd) => x.toS = <<>> /\ ~ x.up
    BY <1>8, <1>9 DEF SessionInv, Handshakes
  <1>14. lost' \in BOOLEAN
    BY <1>1, <1>3
  <1>15. PeerSteps(c, p, x)
    BY <1>2, <1>3, <1>6, <1>8, <1>9, <1>10, <1>11, <1>12, <1>13, <1>14 DEF PeerSteps
  <1> QED
    BY <1>2, <1>8, <1>9, <1>15, PeerStill

-----------------------------------------------------------------------------
(* The server receives.                                                    *)

\* The first cell of a sequence is put at the end of another.
LEMMA HeadMoves ==
    ASSUME NEW p \in Seq(Cell), NEW q \in Seq(Cell), q # <<>>
    PROVE  /\ Append(p, Head(q)) \in Seq(Cell) /\ Tail(q) \in Seq(Cell) /\ Head(q) \in Cell
           /\ Head(q) = q[1] /\ Len(Tail(q)) = Len(q) - 1 /\ Len(p) \in Nat
           /\ Len(q) \in Nat /\ Len(q) > 0
           /\ \A i \in 1 .. Len(q) - 1 : Tail(q)[i] = q[i + 1]
           /\ Append(p, Head(q)) \o Tail(q) = p \o q
  <1> DEFINE h == Head(q)
             t == Tail(q)
             a == Append(p, h)
             P == Len(p)
             Q == Len(q)
  <1>1. P \in Nat /\ Q \in Nat /\ Q > 0
    BY LenProperties, EmptySeq
  <1>2. /\ h \in Cell /\ t \in Seq(Cell) /\ h = q[1] /\ Len(t) = Q - 1
        /\ \A i \in 1 .. Q - 1 : t[i] = q[i + 1]
    BY HeadTailProperties
  <1>3. /\ a \in Seq(Cell) /\ Len(a) = P + 1 /\ \A i \in 1 .. P : a[i] = p[i]
        /\ a[P + 1] = h
    BY <1>2, AppendProperties
  <1> HIDE DEF h, t, a, P, Q
  <1>4. PICK u, v : u = a \o t /\ v = p \o q
    OBVIOUS
  <1>5. /\ u \in Seq(Cell) /\ Len(u) = (P + 1) + (Q - 1)
        /\ \A i \in 1 .. P + 1 : u[i] = a[i]
        /\ \A i \in 1 .. Q - 1 : u[(P + 1) + i] = t[i]
    <2>1. PICK n : n = Q - 1
      OBVIOUS
    <2>2. a \in Seq(Cell) /\ t \in Seq(Cell) /\ Len(t) = n
      BY <1>2, <1>3, <2>1
    <2>3. /\ u \in Seq(Cell) /\ Len(u) = Len(a) + n
          /\ \A i \in 1 .. Len(a) : u[i] = a[i]
          /\ \A i \in 1 .. n : u[Len(a) + i] = t[i]
      BY <1>4, <2>2, Joined
    <2>4. Len(a) = P + 1
      BY <1>3
    <2> QED
      BY <2>1, <2>3, <2>4
  <1>6. /\ v \in Seq(Cell) /\ Len(v) = P + Q
        /\ \A i \in 1 .. P : v[i] = p[i]
        /\ \A i \in 1 .. Q : v[P + i] = q[i]
    BY <1>4, Joined DEF P, Q
  <1>7. ASSUME NEW i \in 1 .. Len(u)
        PROVE  u[i] = v[i]
    <2>1. i \in 1 .. P \/ i = P + 1 \/ i - (P + 1) \in 1 .. Q - 1
      BY <1>1, <1>5
    <2>2. CASE i \in 1 .. P
      <3>1. i \in 1 .. P + 1
        BY <1>1, <2>2
      <3> QED
        BY <1>3, <1>5, <1>6, <2>2, <3>1
    <2>3. CASE i = P + 1
      <3>1. i \in 1 .. P + 1 /\ 1 \in 1 .. Q
        BY <1>1, <2>3
      <3>2. v[P + 1] = q[1]
        BY <1>6, <3>1
      <3> QED
        BY <1>2, <1>3, <1>5, <2>3, <3>1, <3>2
    <2>4. CASE i - (P + 1) \in 1 .. Q - 1
      <3>1. PICK j \in 1 .. Q - 1 : j = i - (P + 1)
        BY <2>4
      <3>2. i = (P + 1) + j /\ i = P + (j + 1) /\ j + 1 \in 1 .. Q
        BY <1>1, <3>1
      <3>3. u[i] = t[j] /\ v[i] = q[j + 1]
        BY <1>5, <1>6, <3>2
      <3> QED
        BY <1>2, <3>3
    <2> QED
      BY <2>1, <2>2, <2>3, <2>4
  <1>8. u = v
    <2>1. Len(u) = Len(v)
      BY <1>1, <1>5, <1>6
    <2> QED
      BY <1>5, <1>6, <1>7, <2>1, SeqEqual
  <1> QED
    BY <1>1, <1>2, <1>3, <1>4, <1>8 DEF h, t, a, P, Q

\* A whole message is read from a stream: what is left starts with another.
LEMMA MessageRead ==
    ASSUME NEW p \in Seq(Cell), NEW q \in Seq(Cell), q # <<>>, WholeStream(p \o q),
           Head(q).part = Size(Head(q).m)
    PROVE  /\ WholeStream(Tail(q))
           /\ \A x \in Cell : /\ x.part = 1 /\ x.part < Size(x.m)
                             /\ p \o q # <<>> /\ (p \o q)[Len(p \o q)] = x
                             => Tail(q) # <<>> /\ Tail(q)[Len(Tail(q))] = x
  <1> DEFINE h == Head(q)
             t == Tail(q)
             P == Len(p)
             Q == Len(q)
             s == p \o q
  <1>1. /\ t \in Seq(Cell) /\ h \in Cell /\ h = q[1] /\ Len(t) = Q - 1
        /\ P \in Nat /\ Q \in Nat /\ Q > 0 /\ \A i \in 1 .. Q - 1 : t[i] = q[i + 1]
    BY HeadMoves
  <1>2. s \in Seq(Cell) /\ Len(s) = P + Q /\ \A i \in 1 .. Q : s[P + i] = q[i]
    BY Joined
  <1>3. h.part = Size(h.m) /\ WholeStream(s)
    OBVIOUS
  <1>4. \A i \in 1 .. Q - 1 : t[i] \in Cell
    BY <1>1, ElementOfSeq
  <1> HIDE DEF h, t, P, Q, s
  <1>5. ASSUME NEW i \in 1 .. Q - 1
        PROVE  t[i] = s[P + i + 1] /\ s[P + i] = q[i] /\ P + i + 1 \in 1 .. P + Q
    <2>1. i \in 1 .. Q /\ i + 1 \in 1 .. Q /\ P + (i + 1) = P + i + 1
      BY <1>1
    <2>2. s[P + (i + 1)] = q[i + 1]
      BY <1>2, <2>1
    <2>3. P + i + 1 \in 1 .. P + Q
      BY <1>1
    <2> QED
      BY <1>1, <1>2, <2>1, <2>2, <2>3
  <1>6. WholeStream(t)
    <2> SUFFICES ASSUME NEW i \in 1 .. Q - 1, t[i].part = 2
                 PROVE  i > 1 /\ t[i - 1] = [t[i] EXCEPT !.part = 1]
      BY <1>1 DEF WholeStream
    <2>1. s[P + i + 1].part = 2
      BY <1>5
    <2>2. s[(P + i + 1) - 1] = [s[P + i + 1] EXCEPT !.part = 1]
      BY <1>2, <1>3, <1>5, <2>1 DEF WholeStream
    <2>3. (P + i + 1) - 1 = P + i
      BY <1>1
    <2>4. q[i] = [t[i] EXCEPT !.part = 1]
      BY <1>5, <2>2, <2>3
    <2>5. CASE i = 1
      <3>1. h = [t[i] EXCEPT !.part = 1]
        BY <1>1, <2>4, <2>5
      <3>2. PICK y \in Cell : y = t[i] /\ y.part = 2
        BY <1>4
      <3>3. y.part <= Size(y.m) /\ Size(y.m) \in {1, 2}
        BY CellTyped
      <3>4. Size(y.m) = 2
        BY <3>2, <3>3
      <3>5. h = [m |-> y.m, part |-> 1]
        BY <3>1, <3>2, CellParts
      <3>6. h.part = 1 /\ h.m = y.m
        BY <3>5
      <3>7. h.part = Size(y.m)
        BY <1>3, <3>6
      <3>8. FALSE
        BY <3>4, <3>6, <3>7
      <3> QED
        BY <3>8
    <2>6. CASE i > 1
      <3>1. i - 1 \in 1 .. Q - 1 /\ (i - 1) + 1 = i
        BY <1>1, <2>6
      <3>2. t[i - 1] = q[i]
        BY <1>1, <3>1
      <3> QED
        BY <2>4, <2>6, <3>2
    <2>7. i = 1 \/ i > 1
      BY <1>1
    <2> QED
      BY <2>5, <2>6, <2>7
  <1>7. ASSUME NEW x \in Cell, x.part = 1, x.part < Size(x.m), s[Len(s)] = x
        PROVE  t # <<>> /\ t[Len(t)] = x
    <2>1. q[Q] = x
      <3>1. Q \in 1 .. Q
        BY <1>1
      <3> QED
        BY <1>2, <1>7, <3>1
    <2>2. Q # 1
      BY <1>1, <1>3, <1>7, <2>1
    <2>3. Q - 1 \in 1 .. Q - 1 /\ (Q - 1) + 1 = Q /\ Len(t) # 0
      BY <1>1, <2>2
    <2>4. t[Q - 1] = q[Q]
      BY <1>1, <2>3
    <2> QED
      BY <1>1, <2>1, <2>3, <2>4, EmptySeq
  <1> QED
    BY <1>6, <1>7 DEF s, t

\* The peer of connection c takes what is first on it.
Takes(c, cell, whole) ==
    /\ UNCHANGED <<conn, cl, sent>> /\ net[c].toS # <<>> /\ cell = Head(net[c].toS)
    /\ whole = (cell.part = Size(cell.m))
    /\ net' \in [Conn -> Connection] /\ net'[c].toS = Tail(net[c].toS)
    /\ sv'[c].part = IF whole THEN <<>> ELSE Append(sv[c].part, cell)
    /\ \A d \in Conn : net'[d].up = net[d].up
    /\ \A d \in Conn : d # c => net'[d].toS = net[d].toS /\ sv'[d].part = sv[d].part

LEMMA TakesWhole ==
    ASSUME SessionInv, NEW c \in Conn, NEW cell, NEW whole \in BOOLEAN, Takes(c, cell, whole)
    PROVE  Continued' /\ MessagesWhole'
  <1> DEFINE p == sv[c].part
             q == net[c].toS
  <1>1. p \in Seq(Cell) /\ q \in Seq(Cell) /\ q # <<>> /\ cell = Head(q)
    BY PeerTyped DEF Takes
  <1>2. \A d \in Conn : WholeStream(Stream(d)) /\ Stream(d) \in Seq(Cell)
    BY WholeStreams, Typed DEF SessionInv
  <1>3. /\ UNCHANGED <<conn, cl>> /\ net'[c].toS = Tail(q)
        /\ sv'[c].part = IF whole THEN <<>> ELSE Append(p, cell)
        /\ whole = (cell.part = Size(cell.m))
        /\ \A d \in Conn : net'[d].up = net[d].up
        /\ \A d \in Conn : d # c => net'[d].toS = net[d].toS /\ sv'[d].part = sv[d].part
    BY DEF Takes
  <1>4. Stream(c) = p \o q
    BY DEF Stream
  <1> HIDE DEF p, q
  <1>5. \A d \in Conn : d # c => Stream(d)' = Stream(d)
    BY <1>3 DEF Stream
  <1>6. Stream(c)' = IF whole THEN Tail(q) ELSE Stream(c)
    <2>1. Tail(q) \in Seq(Cell) /\ Append(p, cell) \o Tail(q) = p \o q
      BY <1>1, HeadMoves
    <2>2. <<>> \o Tail(q) = Tail(q)
      BY <2>1, ConcatEmptySeq
    <2> QED
      BY <1>3, <1>4, <2>1, <2>2 DEF Stream
  <1>7. whole => /\ WholeStream(Tail(q))
                 /\ \A x \in Cell : /\ x.part = 1 /\ x.part < Size(x.m)
                                   /\ Stream(c) # <<>> /\ Stream(c)[Len(Stream(c))] = x
                                   => Tail(q) # <<>> /\ Tail(q)[Len(Tail(q))] = x
    <2> HAVE whole
    <2>1. WholeStream(p \o q) /\ Head(q).part = Size(Head(q).m)
      BY <1>1, <1>2, <1>3, <1>4
    <2> QED
      BY <1>1, <1>4, <2>1, MessageRead
  <1>8. Continued'
    <2> SUFFICES ASSUME NEW k \in Conn, k = conn, net[k].up, cl.out.cursor = 1
                 PROVE  Stream(k)' # <<>> /\ (Stream(k)')[Len(Stream(k)')] = cl.out.data[1]
      BY <1>3 DEF Continued
    <2>1. Stream(k) # <<>> /\ Stream(k)[Len(Stream(k))] = cl.out.data[1]
      BY DEF SessionInv, Continued
    <2>2. PICK x : x = cl.out.data[1]
      OBVIOUS
    <2>3. x \in Cell /\ x.part = 1 /\ x.part < Size(x.m)
      <3>1. Good(cl.out)
        BY ClientTyped
      <3>2. /\ Len(cl.out.data) >= 2 /\ cl.out.data[1].part = 1
            /\ cl.out.data[1].part < Size(cl.out.data[1].m)
        BY <3>1, Boundaries
      <3>3. /\ Len(cl.out.data) \in Nat /\ \A i \in 1 .. Len(cl.out.data) : cl.out.data[i] \in Cell
        BY <3>1, Boundaries
      <3>4. 1 \in 1 .. Len(cl.out.data)
        BY <3>2, <3>3
      <3> QED
        BY <2>2, <3>2, <3>3, <3>4
    <2>4. CASE k # c \/ ~ whole
      <3>1. Stream(k)' = Stream(k)
        BY <1>5, <1>6, <2>4
      <3> QED
        BY <2>1, <3>1
    <2>5. CASE k = c /\ whole
      <3>1. Stream(c) # <<>> /\ Stream(c)[Len(Stream(c))] = x
        BY <2>1, <2>2, <2>5
      <3>2. Tail(q) # <<>> /\ Tail(q)[Len(Tail(q))] = x
        BY <1>7, <2>3, <2>5, <3>1
      <3>3. Stream(k)' = Tail(q)
        BY <1>6, <2>5
      <3> QED
        BY <2>2, <3>2, <3>3
    <2> QED
      BY <2>4, <2>5
  <1>9. MessagesWhole'
    <2>1. ASSUME NEW d \in Conn
          PROVE  WholeStream(Stream(d)')
      <3>1. CASE d = c /\ whole
        BY <1>6, <1>7, <3>1
      <3>2. CASE d # c \/ ~ whole
        <4>1. Stream(d)' = Stream(d)
          BY <1>5, <1>6, <3>2
        <4> QED
          BY <1>2, <4>1
      <3> QED
        BY <3>1, <3>2
    <2> QED
      BY <2>1 DEF MessagesWhole, WholeStream, Stream
  <1> QED
    BY <1>8, <1>9

LEMMA TakesOnce ==
    ASSUME SessionInv, NEW c \in Conn, NEW cell, NEW whole \in BOOLEAN, Takes(c, cell, whole),
           received' = IF whole /\ cell.m.t = "msg" THEN Append(received, cell.m.a) ELSE received
    PROVE  Places' /\ received' \in Seq(1 .. sent)
  <1>1. /\ net \in [Conn -> Connection] /\ received \in Seq(1 .. MaxMsgs) /\ sent \in Nat
        /\ received \in Seq(1 .. sent) /\ net[c].toS \in Seq(Cell)
    BY Typed DEF SessionInv, VarsTyped
  <1>2. /\ net' \in [Conn -> Connection] /\ net[c].toS # <<>> /\ cell = Head(net[c].toS)
        /\ net'[c].toS = Tail(net[c].toS) /\ UNCHANGED <<cl, sent>>
        /\ \A d \in Conn : d # c => net'[d].toS = net[d].toS
    BY DEF Takes
  <1>3. cl.out.data \in Seq(Cell)
    BY ClientTyped, Boundaries
  <1>4. PICK F, s, q : F = Lanes(cl.out.data, net, received) /\ s = sent /\ q = net[c].toS
    OBVIOUS
  <1>5. /\ q \in Seq(Cell) /\ cell \in Cell /\ cell = q[1] /\ Len(Tail(q)) = Len(q) - 1
        /\ Len(q) \in Nat /\ Len(q) > 0 /\ \A i \in 1 .. Len(q) - 1 : Tail(q)[i] = q[i + 1]
    <2>1. q \in Seq(Cell) /\ q # <<>> /\ cell = Head(q)
      BY <1>1, <1>2, <1>4
    <2>2. <<>> \in Seq(Cell)
      BY EmptySeq
    <2> QED
      BY <2>1, <2>2, HeadMoves
  <1>6. /\ F[0] = cl.out.data /\ F[-1] = Received(received) /\ \A d \in Conn : F[d] = net[d].toS
        /\ Len(Received(received)) = Len(received)
        /\ \A i \in 1 .. Len(received) : Received(received)[i] = [m |-> Msg(received[i]), part |-> 2]
    BY <1>1, <1>3, <1>4, LanesOf
  <1>7. Once(F, s)
    BY <1>4 DEF SessionInv, Places
  <1>8. F[c] = q
    BY <1>4, <1>6
  <1>9. CASE whole /\ cell.m.t = "msg"
    <2>1. PICK a : a = cell.m.a
      OBVIOUS
    <2>2. cell.m \in Message
      BY <1>5, CellTyped
    <2>3. a \in 1 .. MaxMsgs /\ cell.m = Msg(a) /\ Size(cell.m) = 2
      BY <1>9, <2>1, <2>2, MessagesTyped DEF Size
    <2>4. cell.part = 2 /\ cell = [m |-> Msg(a), part |-> 2] /\ Final(cell)
      <3>1. cell.part = 2
        BY <1>9, <2>3 DEF Takes
      <3>2. cell = [m |-> cell.m, part |-> cell.part]
        BY <1>5, CellParts
      <3>3. cell = [m |-> Msg(a), part |-> 2]
        BY <2>3, <3>1, <3>2
      <3> QED
        BY <1>9, <3>1, <3>3 DEF Final
    <2>5. a <= s
      <3>1. 1 \in 1 .. Len(F[c]) /\ F[c][1] = cell /\ c \in Lane
        BY <1>5, <1>8, ConnNumbers
      <3> QED
        BY <1>7, <2>1, <2>4, <3>1 DEF Once
    <2>6. a \in 1 .. sent
      BY <1>1, <1>4, <2>3, <2>5
    <2>7. PICK r : r = Append(received, a)
      OBVIOUS
    <2>8. r \in Seq(1 .. sent) /\ r \in Seq(1 .. MaxMsgs) /\ received' = r
      BY <1>1, <1>9, <2>1, <2>3, <2>6, <2>7, AppendProperties
    <2>9. /\ Len(received) \in Nat /\ Len(r) = Len(received) + 1
          /\ \A i \in 1 .. Len(received) : r[i] = received[i]
          /\ r[Len(received) + 1] = a
      BY <1>1, <2>3, <2>7, LenProperties, AppendProperties
    <2>10. PICK G : G = Lanes(cl.out.data, net', r)
      OBVIOUS
    <2>11. /\ G[0] = cl.out.data /\ G[-1] = Received(r) /\ \A d \in Conn : G[d] = net'[d].toS
           /\ Len(Received(r)) = Len(r)
           /\ \A i \in 1 .. Len(r) : Received(r)[i] = [m |-> Msg(r[i]), part |-> 2]
      BY <1>2, <1>3, <2>8, <2>10, LanesOf, SMTT(30)
    <2>12. Receives(F, G, c)
      <3>1. PICK L, Q : L = Len(received) /\ Q = Len(q)
        OBVIOUS
      <3>2. L \in Nat /\ Q \in Nat /\ Len(r) = L + 1 /\ Len(F[-1]) = L /\ Len(G[-1]) = L + 1
        BY <1>5, <1>6, <2>9, <2>11, <3>1
      <3>3. \A i \in 1 .. L : G[-1][i] = F[-1][i]
        <4> TAKE i \in 1 .. L
        <4>1. i \in 1 .. Len(received) /\ i \in 1 .. Len(r)
          BY <3>1, <3>2
        <4> QED
          BY <1>6, <2>9, <2>11, <4>1
      <3>4. G[-1][L + 1] = F[c][1]
        <4>1. L + 1 \in 1 .. Len(r) /\ r[L + 1] = a
          BY <2>9, <3>1, <3>2
        <4> QED
          BY <1>5, <1>8, <2>4, <2>11, <4>1
      <3>5. Len(G[c]) = Q - 1 /\ Len(F[c]) = Q /\ \A i \in 1 .. Q - 1 : G[c][i] = F[c][i + 1]
        <4>1. G[c] = Tail(q)
          BY <1>2, <1>4, <2>11
        <4> QED
          BY <1>5, <1>8, <3>1, <4>1
      <3>6. \A k \in Lane : k # -1 /\ k # c => G[k] = F[k]
        BY <1>2, <1>6, <2>11, ConnNumbers
      <3> QED
        BY <3>2, <3>3, <3>4, <3>5, <3>6 DEF Receives
    <2>13. Once(G, s)
      <3>1. Len(F[-1]) \in Nat /\ Len(F[c]) \in Nat /\ Len(F[c]) > 0
        BY <1>5, <1>6, <1>8, <2>9
      <3>2. -1 \in Lane /\ c \in Lane /\ c # -1
        BY ConnNumbers
      <3> QED
        BY <1>7, <2>12, <3>1, <3>2, OnceReceived
    <2> QED
      BY <1>2, <1>4, <2>8, <2>10, <2>13 DEF Places
  <1>10. CASE ~ (whole /\ cell.m.t = "msg")
    <2>1. received' = received
      BY <1>10
    <2>2. PICK G : G = Lanes(cl.out.data, net', received)
      OBVIOUS
    <2>3. G[0] = cl.out.data /\ G[-1] = Received(received) /\ \A d \in Conn : G[d] = net'[d].toS
      BY <1>1, <1>2, <1>3, <2>2, LanesOf
    <2>4. PICK off : off = [k \in Lane |-> IF k = c THEN 1 ELSE 0]
      OBVIOUS
    <2>5. off \in [Lane -> Nat] /\ \A k \in Lane : off[k] = IF k = c THEN 1 ELSE 0
      BY <2>4
    <2>6. ASSUME NEW k \in Lane, NEW i \in 1 .. Len(G[k])
          PROVE  i + off[k] \in 1 .. Len(F[k]) /\ G[k][i] = F[k][i + off[k]]
      <3>1. CASE k = c
        <4>1. G[k] = Tail(q) /\ F[k] = q /\ off[k] = 1
          BY <1>2, <1>4, <1>8, <2>3, <2>5, <3>1
        <4>2. i \in 1 .. Len(q) - 1 /\ i + 1 \in 1 .. Len(q)
          BY <1>5, <4>1
        <4> QED
          BY <1>5, <4>1, <4>2
      <3>2. CASE k # c
        <4>1. G[k] = F[k] /\ off[k] = 0
          BY <1>2, <1>6, <2>3, <2>5, <3>2, ConnNumbers
        <4>2. i + off[k] = i
          BY <4>1
        <4> QED
          BY <4>1, <4>2
      <3> QED
        BY <3>1, <3>2
    <2>7. Once(G, s)
      <3>1. ASSUME NEW k \in Lane, NEW i \in 1 .. Len(G[k])
            PROVE  ~ Final(G[k][i]) \/ (i + off[k] \in 1 .. Len(F[k]) /\ G[k][i] = F[k][i + off[k]])
        BY <2>6
      <3> QED
        BY <1>7, <2>5, <3>1, OnceShrunk, SMTT(30)
    <2> QED
      BY <1>1, <1>2, <1>4, <2>1, <2>2, <2>7 DEF Places
  <1> QED
    BY <1>9, <1>10

LEMMA PeerHandshakeKeeps ==
    ASSUME SessionInv, NEW c \in Conn, PeerHandshake(c)
    PROVE  SessionInv'
  <1>1. /\ sv[c].st = "handshake" /\ sv[c].rd /\ net[c].toS # <<>>
        /\ net' = [net EXCEPT ![c].toS = Tail(@)]
        /\ UNCHANGED <<conn, cl, sent, received, lost>>
    BY DEF PeerHandshake
  <1>2. /\ sv \in [Conn -> PeerType] /\ sv[c] \in PeerType /\ Good(sv[c].out)
        /\ net \in [Conn -> Connection] /\ net[c] \in Connection
        /\ srv \in [list : Version, timer : BOOLEAN, stuck : BOOLEAN]
        /\ lost \in BOOLEAN /\ received \in Seq(1 .. sent) /\ (sv[c].st # "none" => c <= conn)
    BY PeerTyped
  <1>3. Fresh(c)
    BY <1>1 DEF Fresh
  <1>4. net[c].toS = <<GetCell>> /\ sv[c].part = <<>> /\ (c = conn => cl.hs)
    BY <1>1, <1>3 DEF SessionInv, Handshakes
  <1>5. cl.hs => cl.out.cursor = 0
    BY DEF SessionInv, Handshakes
  <1>6. Tail(net[c].toS) = <<>>
    <2>1. PICK q : q = <<GetCell>>
      OBVIOUS
    <2>2. Tail(q) = <<>>
      BY <2>1
    <2> QED
      BY <1>4, <2>1, <2>2
  <1>7. PICK x : x = [net[c] EXCEPT !.toS = <<>>]
    OBVIOUS
  <1>8. x \in Connection /\ x.toS = <<>> /\ x.up = net[c].up
    BY <1>2, <1>7, EmptySeq DEF Connection
  <1>9. net' = [net EXCEPT ![c] = x]
    BY <1>1, <1>6, <1>7
  <1>10. PICK o : o = Push(sv[c].out, Switching)
    OBVIOUS
  <1>11. Good(o) /\ o \in Buffer
    <2>1. Switching \in Message
      BY MessagesTyped
    <2> QED
      BY <1>2, <1>10, <2>1, PushGood DEF Good
  <1>12. PICK p : /\ sv' = [sv EXCEPT ![c] = p] /\ p \in PeerType /\ p.out = o
                  /\ p.part = sv[c].part
                  /\ \/ p.st = "open" /\ p.rd
                     \/ p.st = "handshake" /\ ~ p.rd /\ ~ p.opening
    <2>1. CASE HandsOver(c)
      <3>1. PICK p : p = [sv[c] EXCEPT !.out = o, !.rd = FALSE]
        OBVIOUS
      <3>2. sv' = [sv EXCEPT ![c] = p]
        BY <1>10, <2>1, <3>1 DEF PeerHandshake
      <3>3. ~ sv[c].opening
        BY <1>1 DEF SessionInv, OneByOne
      <3>4. /\ p \in PeerType /\ p.out = o /\ p.part = sv[c].part
            /\ p.st = "handshake" /\ ~ p.rd /\ ~ p.opening
        BY <1>1, <1>2, <1>11, <3>1, <3>3 DEF PeerType
      <3> QED
        BY <3>2, <3>4
    <2>2. CASE ~ HandsOver(c)
      <3>1. PICK p : p = [sv[c] EXCEPT !.out = o, !.st = "open", !.opening = TRUE]
        OBVIOUS
      <3>2. sv' = [sv EXCEPT ![c] = p]
        BY <1>10, <2>2, <3>1 DEF PeerHandshake
      <3>3. p \in PeerType /\ p.out = o /\ p.part = sv[c].part /\ p.st = "open" /\ p.rd
        BY <1>1, <1>2, <1>11, <3>1 DEF PeerType
      <3> QED
        BY <3>2, <3>3
    <2> QED
      BY <2>1, <2>2
  <1>13. srv' \in [list : Version, timer : BOOLEAN, stuck : BOOLEAN] /\ srv'.list = srv.list
    <2>1. srv' = srv \/ srv' = [srv EXCEPT !.stuck = TRUE]
      BY DEF PeerHandshake
    <2> QED
      BY <1>2, <2>1
  <1>14. PeerSteps(c, p, x)
    BY <1>1, <1>2, <1>8, <1>9, <1>11, <1>12, <1>13 DEF PeerSteps
  <1>15. /\ VarsTyped' /\ BuffersGood' /\ OneByOne' /\ Handshakes'
         /\ sv'[c] = p /\ \A d \in Conn : d # c => sv'[d] = sv[d]
         /\ net'[c] = x /\ \A d \in Conn : d # c => net'[d] = net[d]
         /\ net' \in [Conn -> Connection]
    BY <1>14, PeerStepsKeep
  <1>16. Stream(c)' = <<>>
    BY <1>4, <1>8, <1>12, <1>15, ConcatEmptySeq DEF Stream
  <1>17. \A d \in Conn : d # c => Stream(d)' = Stream(d)
    BY <1>15 DEF Stream
  <1>18. Continued'
    <2> SUFFICES ASSUME NEW k \in Conn, k = conn, net'[k].up, cl.out.cursor = 1
                 PROVE  Stream(k)' # <<>> /\ (Stream(k)')[Len(Stream(k)')] = cl.out.data[1]
      BY <1>1 DEF Continued
    <2>1. k # c
      BY <1>4, <1>5
    <2>2. Stream(k) # <<>> /\ Stream(k)[Len(Stream(k))] = cl.out.data[1]
      BY <1>15, <2>1 DEF SessionInv, Continued
    <2> QED
      BY <1>17, <2>1, <2>2
  <1>19. MessagesWhole'
    <2>1. \A d \in Conn : WholeStream(Stream(d))
      BY WholeStreams DEF SessionInv
    <2>2. WholeStream(<<>>)
      BY DEF WholeStream
    <2>3. \A d \in Conn : WholeStream(Stream(d)')
      BY <1>16, <1>17, <2>1, <2>2
    <2> QED
      BY <2>3 DEF MessagesWhole, WholeStream, Stream
  <1>20. FewerPlaces
    <2>1. cl.out.data \in Seq(Cell)
      BY ClientTyped, Boundaries
    <2>2. ASSUME NEW d \in Conn, NEW i \in 1 .. Len(net'[d].toS)
          PROVE  i \in 1 .. Len(net[d].toS) /\ net'[d].toS[i] = net[d].toS[i]
      <3>1. d # c
        BY <1>8, <1>15
      <3> QED
        BY <1>15, <3>1
    <2> QED
      BY <1>1, <1>15, <2>1, <2>2 DEF FewerPlaces
  <1> QED
    BY <1>15, <1>18, <1>19, <1>20, FewerPlacesOnce DEF SessionInv

LEMMA PeerReceiveKeeps ==
    ASSUME SessionInv, NEW c \in Conn, PeerReceive(c)
    PROVE  SessionInv'
  <1> DEFINE cell == Head(net[c].toS)
             m == cell.m
             whole == cell.part = Size(m)
             reply == IF whole THEN Answer(m, srv.list, sv[c].told) ELSE <<>>
  <1>1. PICK n \in FlushSizes(sv[c].out, reply) :
          /\ sv' = [sv EXCEPT
                       ![c].part = IF whole THEN <<>> ELSE Append(@, cell),
                       ![c].known = IF whole THEN Known(m, @) ELSE @,
                       ![c].told = IF reply = <<>> THEN @ ELSE srv.list,
                       ![c].out = Output(@, FALSE, reply, n)]
          /\ net' = [net EXCEPT ![c].toS = Tail(@),
                       ![c].toC = Carry(net[c].up, @, OutputCells(sv[c].out, FALSE, reply, n))]
          /\ received' = IF whole /\ m.t = "msg" THEN Append(received, m.a) ELSE received
    BY DEF PeerReceive
  <1>2. /\ sv[c].st = "open" /\ sv[c].rd /\ net[c].toS # <<>>
        /\ UNCHANGED <<conn, cl, srv, sent, lost>>
    BY DEF PeerReceive
  <1>3. /\ sv \in [Conn -> PeerType] /\ sv[c] \in PeerType /\ Good(sv[c].out)
        /\ sv[c].part \in Seq(Cell) /\ sv[c].told \in Version \cup {None} /\ sv[c].known \in List
        /\ net \in [Conn -> Connection] /\ net[c] \in Connection /\ net[c].toS \in Seq(Cell)
        /\ srv.list \in Version /\ srv \in [list : Version, timer : BOOLEAN, stuck : BOOLEAN]
        /\ lost \in BOOLEAN /\ (sv[c].st # "none" => c <= conn)
    BY PeerTyped
  <1>4. /\ cell \in Cell /\ Append(sv[c].part, cell) \in Seq(Cell)
        /\ Tail(net[c].toS) \in Seq(Cell)
    BY <1>2, <1>3, HeadMoves
  <1>5. m \in Message /\ whole \in BOOLEAN
    BY <1>4, CellTyped
  <1>6. Quiet(reply) /\ Known(m, sv[c].known) \in List
    <2>1. Quiet(<<>>)
      BY MessagesTyped, OneQuiet DEF Get
    <2> QED
      BY <1>3, <1>5, <2>1, AnswerQuiet, KnownTyped
  <1>7. PICK wh, ce, rp, t : wh = whole /\ ce = cell /\ rp = reply /\ t = Tail(net[c].toS)
    OBVIOUS
  <1>8. PICK o, w : /\ o = Output(sv[c].out, FALSE, rp, n)
                    /\ w = OutputCells(sv[c].out, FALSE, rp, n)
    OBVIOUS
  <1>9. Good(o) /\ o \in Buffer /\ w \in Seq(Cell)
    <2>1. rp \in Seq(Message) /\ Len(rp) <= 1
      BY <1>6, <1>7 DEF Quiet
    <2>2. Len(rp) <= 2 /\ n \in FlushSizes(sv[c].out, rp) \cup {0} /\ FALSE \in BOOLEAN
      <3>1. Len(rp) \in Nat
        BY <2>1, LenProperties
      <3> QED
        BY <1>7, <2>1, <3>1
    <2> QED
      BY <1>3, <1>8, <2>1, <2>2, OutputGood DEF Good
  <1>10. PICK pt, kn, tl : /\ pt = IF whole THEN <<>> ELSE Append(sv[c].part, cell)
                           /\ kn = IF whole THEN Known(m, sv[c].known) ELSE sv[c].known
                           /\ tl = IF reply = <<>> THEN sv[c].told ELSE srv.list
    OBVIOUS
  <1>11. pt \in Seq(Cell) /\ kn \in List /\ tl \in Version \cup {None}
    BY <1>3, <1>4, <1>6, <1>10, EmptySeq
  <1>a. ce = Head(net[c].toS) /\ (wh = (ce.part = Size(ce.m))) /\ wh \in BOOLEAN
    BY <1>5, <1>7
  <1>b. m = ce.m
    BY <1>7
  <1> HIDE DEF cell, m, whole, reply
  <1>12. PICK p, x : /\ p = [sv[c] EXCEPT !.part = pt, !.known = kn, !.told = tl, !.out = o]
                     /\ x = Toward(net[c], t, w)
    OBVIOUS
  <1>13. sv' = [sv EXCEPT ![c] = p]
    <2>1. sv[c] \in PeerType /\ sv \in [Conn -> PeerType]
      BY <1>3
    <2>2. sv' = [sv EXCEPT ![c].part = pt, ![c].known = kn, ![c].told = tl, ![c].out = o]
      BY <1>1, <1>7, <1>8, <1>10, <2>1 DEF PeerType
    <2> QED
      BY <1>12, <2>1, <2>2 DEF PeerType
  <1>14. net' = [net EXCEPT ![c] = x]
    BY <1>1, <1>3, <1>7, <1>8, <1>12 DEF Toward, Connection
  <1>15. received' = IF wh /\ ce.m.t = "msg" THEN Append(received, ce.m.a) ELSE received
    BY <1>1, <1>7, <1>b
  <1>16. pt = IF wh THEN <<>> ELSE Append(sv[c].part, ce)
    BY <1>7, <1>10
  <1>17. /\ p \in PeerType /\ p.out = o /\ p.part = pt /\ p.st = "open" /\ p.rd = TRUE
    BY <1>2, <1>3, <1>9, <1>11, <1>12 DEF PeerType
  <1>18. x \in Connection /\ x.up = net[c].up /\ x.toS = Tail(net[c].toS)
    <2>1. net[c] \in Connection /\ t \in Seq(Cell) /\ w \in Seq(Cell)
      BY <1>3, <1>4, <1>7, <1>9
    <2>2. x \in Connection /\ x.up = net[c].up /\ x.toS = t
      BY <1>12, <2>1, ToClient
    <2> QED
      BY <1>7, <2>2
  <1>19. Takes(c, ce, wh)
    <2>1. /\ net' \in [Conn -> Connection] /\ net'[c] = x
          /\ \A d \in Conn : d # c => net'[d] = net[d]
      BY <1>3, <1>14, <1>18
    <2>2. sv'[c] = p /\ \A d \in Conn : d # c => sv'[d] = sv[d]
      BY <1>3, <1>13
    <2>3. \A d \in Conn : net'[d].up = net[d].up
      BY <1>18, <2>1
    <2> QED
      BY <1>2, <1>a, <1>16, <1>17, <1>18, <2>1, <2>2, <2>3 DEF Takes
  <1>20. Continued' /\ MessagesWhole'
    BY <1>a, <1>19, TakesWhole
  <1>21. Places' /\ received' \in Seq(1 .. sent)
    BY <1>15, <1>a, <1>19, TakesOnce
  <1>22. PeerSteps(c, p, x)
    BY <1>2, <1>3, <1>9, <1>13, <1>14, <1>17, <1>18, <1>21 DEF PeerSteps
  <1>23. VarsTyped' /\ BuffersGood' /\ OneByOne' /\ Handshakes'
    BY <1>22, PeerStepsKeep
  <1> QED
    BY <1>20, <1>21, <1>23 DEF SessionInv

LEMMA ServerListChangesKeeps ==
    ASSUME SessionInv, ServerListChanges
    PROVE  SessionInv'
  <1>1. /\ cl.list + srv.list < MaxChanges + 2 /\ srv' = [srv EXCEPT !.list = @ + 1, !.timer = TRUE]
        /\ UNCHANGED <<conn, cl, sv, net, sent, received, lost>>
    BY DEF ServerListChanges
  <1>2. VarsTyped /\ BuffersGood /\ OneByOne /\ Handshakes
    BY DEF SessionInv
  <1>3. /\ cl.list \in Version /\ srv.list \in Version
        /\ srv \in [list : Version, timer : BOOLEAN, stuck : BOOLEAN]
    BY <1>2, ClientTyped DEF VarsTyped
  <1>4. srv.list + 1 \in Version /\ cl.list + (srv.list + 1) <= MaxChanges + 2
    BY <1>1, <1>3, BoundsNat DEF Version
  <1>5. /\ srv' \in [list : Version, timer : BOOLEAN, stuck : BOOLEAN]
        /\ srv'.list = srv.list + 1
    BY <1>1, <1>3, <1>4
  <1>6. VarsTyped'
    BY <1>1, <1>2, <1>4, <1>5 DEF VarsTyped
  <1>7. BuffersGood' /\ OneByOne' /\ Handshakes'
    BY <1>1, <1>2 DEF BuffersGood, OneByOne, Handshakes, Fresh
  <1>8. Still
    BY <1>1, ClientTyped DEF Still
  <1> QED
    BY <1>6, <1>7, <1>8, StillOnce DEF SessionInv

LEMMA ServerTimeoutKeeps ==
    ASSUME SessionInv, ServerTimeout
    PROVE  SessionInv'
  <1> DEFINE Told(c) == sv[c].st \in {"open", "lost"}
             update(c) == Update(srv.list, sv[c].told, FALSE)
             full(c) == Len(View(sv[c].out)) > Hwm
             New(c) == IF sv[c].st = "lost"
                       THEN [NoPeer EXCEPT !.st = "gone", !.opening = sv[c].opening]
                       ELSE IF ~Told(c) THEN sv[c]
                       ELSE [sv[c] EXCEPT !.told = srv.list,
                                          !.out = Output(@, full(c), update(c), 0)]
  <1>1. /\ srv' = [srv EXCEPT !.timer = FALSE] /\ sv' = [c \in Conn |-> New(c)]
        /\ lost' = (lost \/ \E c \in Conn : Told(c) /\ full(c) /\ update(c) # <<>>)
        /\ UNCHANGED <<conn, cl, net, sent, received>>
    BY DEF ServerTimeout
  <1>2. VarsTyped /\ BuffersGood /\ OneByOne /\ Handshakes
    BY DEF SessionInv
  <1>3. ASSUME NEW c \in Conn
        PROVE  /\ sv'[c] \in PeerType /\ Good(sv'[c].out)
               /\ sv[c].st = "lost" => sv'[c].st = "gone" /\ sv'[c].part = <<>>
               /\ sv[c].st # "lost" => /\ sv'[c].st = sv[c].st /\ sv'[c].part = sv[c].part
                                       /\ sv'[c].rd = sv[c].rd /\ sv'[c].opening = sv[c].opening
               /\ sv[c].st \notin {"open", "lost"} => sv'[c] = sv[c]
    <2>1. /\ sv[c] \in PeerType /\ Good(sv[c].out) /\ sv[c].told \in Version \cup {None}
          /\ srv.list \in Version
      BY PeerTyped
    <2>2. sv'[c] = New(c)
      BY <1>1
    <2>3. CASE sv[c].st = "lost"
      <3>1. Good(EmptyOut) /\ EmptyOut \in Buffer
        BY EmptyGood
      <3>2. sv[c].opening \in BOOLEAN
        BY <2>1 DEF PeerType
      <3>3. sv'[c] = [NoPeer EXCEPT !.st = "gone", !.opening = sv[c].opening]
        BY <2>2, <2>3
      <3>4. NoPeer \in PeerType /\ NoPeer.out = EmptyOut /\ NoPeer.part = <<>>
        BY <3>1, NoneTyped
      <3>5. /\ sv'[c] \in PeerType /\ sv'[c].st = "gone" /\ sv'[c].part = NoPeer.part
            /\ sv'[c].out = NoPeer.out
        BY <3>2, <3>3, <3>4 DEF PeerType
      <3> QED
        BY <2>3, <3>1, <3>4, <3>5
    <2>4. CASE sv[c].st # "lost" /\ ~ Told(c)
      BY <2>1, <2>2, <2>4
    <2>5. CASE sv[c].st # "lost" /\ Told(c)
      <3>1. PICK o : o = Output(sv[c].out, full(c), update(c), 0)
        OBVIOUS
      <3>2. full(c) \in BOOLEAN /\ Quiet(update(c))
        <4>1. full(c) \in BOOLEAN
          OBVIOUS
        <4>2. Quiet(update(c))
          <5>1. FALSE \in BOOLEAN
            OBVIOUS
          <5> QED
            BY <2>1, <5>1, UpdateQuiet
        <4> QED
          BY <4>1, <4>2
      <3>3. Good(o)
        <4>1. PICK f, u : f = full(c) /\ u = update(c)
          OBVIOUS
        <4>2. u \in Seq(Message) /\ Len(u) <= 1 /\ f \in BOOLEAN
          BY <3>2, <4>1 DEF Quiet
        <4>3. Len(u) <= 2
          <5>1. Len(u) \in Nat
            BY <4>2, LenProperties
          <5> QED
            BY <4>2, <5>1
        <4>4. 0 \in FlushSizes(sv[c].out, u) \cup {0}
          OBVIOUS
        <4>5. o = Output(sv[c].out, f, u, 0)
          BY <3>1, <4>1
        <4> HIDE DEF full, update
        <4> QED
          BY <2>1, <4>2, <4>3, <4>4, <4>5, OutputGood
      <3>4. sv'[c] = [sv[c] EXCEPT !.told = srv.list, !.out = o]
        <4> HIDE DEF full, update
        <4> QED
          BY <2>2, <2>5, <3>1
      <3>5. o \in Buffer
        BY <3>3 DEF Good
      <3>6. /\ sv'[c] \in PeerType /\ sv'[c].out = o /\ sv'[c].st = sv[c].st
            /\ sv'[c].part = sv[c].part /\ sv'[c].rd = sv[c].rd /\ sv'[c].opening = sv[c].opening
        BY <2>1, <3>4, <3>5 DEF PeerType
      <3> QED
        BY <2>5, <3>3, <3>6
    <2> QED
      BY <2>3, <2>4, <2>5
  <1>4. sv' \in [Conn -> PeerType] /\ lost' \in BOOLEAN
    <2>1. lost \in BOOLEAN
      BY <1>2 DEF VarsTyped
    <2>2. lost' \in BOOLEAN
      BY <1>1, <2>1
    <2>3. sv' = [c \in Conn |-> sv'[c]]
      BY <1>1
    <2> QED
      BY <1>3, <2>2, <2>3
  <1> HIDE DEF Told, update, full, New
  <1>5. UNCHANGED <<conn, cl, net, sent, received>>
    BY <1>1
  <1>6. VarsTyped'
    <2>1. /\ srv' \in [list : Version, timer : BOOLEAN, stuck : BOOLEAN] /\ srv'.list = srv.list
      BY <1>1, <1>2 DEF VarsTyped
    <2> QED
      BY <1>2, <1>4, <1>5, <2>1 DEF VarsTyped
  <1>7. BuffersGood'
    BY <1>2, <1>3, <1>5 DEF BuffersGood
  <1>8. OneByOne'
    <2>1. \A c \in Conn : c > conn => sv'[c].st = "none"
      BY <1>2, <1>3 DEF OneByOne
    <2>2. \A c \in Conn : sv'[c].st \in {"none", "handshake"} => ~ sv'[c].opening
      BY <1>2, <1>3 DEF OneByOne
    <2> QED
      BY <1>2, <1>5, <2>1, <2>2 DEF OneByOne
  <1>9. Handshakes'
    <2>1. ASSUME NEW d \in Conn,
                 sv'[d].st = "none" \/ (sv'[d].st = "handshake" /\ sv'[d].rd)
          PROVE  sv'[d] = sv[d] /\ Fresh(d)
      <3>1. sv[d].st \notin {"open", "lost"}
        BY <1>3, <2>1
      <3> QED
        BY <1>3, <2>1, <3>1 DEF Fresh
    <2>2. ASSUME NEW d \in Conn,
                 sv'[d].st \in {"lost", "gone"} \/ (sv'[d].st = "open" /\ ~sv'[d].rd)
          PROVE  net[d].toS = <<>> /\ ~ net[d].up
      <3>1. sv[d].st \in {"lost", "gone"} \/ (sv[d].st = "open" /\ ~sv[d].rd)
        BY <1>3, <2>2
      <3> QED
        BY <1>2, <3>1 DEF Handshakes
    <2>3. ASSUME NEW d \in Conn, Fresh(d)
          PROVE  /\ sv[d].part = <<>> /\ sv[d].out.data = <<>> /\ net[d].toC = <<>>
                 /\ net[d].toS \in {<<>>, <<GetCell>>} /\ (d = conn => cl.hs)
      BY <1>2, <2>3 DEF Handshakes
    <2>4. /\ cl.hs => cl.out.cursor = 0
          /\ conn \in Conn /\ net[conn].up /\ cl.hs /\ cl.out.want => net[conn].toS = <<>>
      BY <1>2 DEF Handshakes
    <2>5. ASSUME NEW d \in Conn,
                 sv'[d].st = "none" \/ (sv'[d].st = "handshake" /\ sv'[d].rd)
          PROVE  /\ sv'[d].part = <<>> /\ sv'[d].out.data = <<>> /\ net[d].toC = <<>>
                 /\ net[d].toS \in {<<>>, <<GetCell>>} /\ (d = conn => cl.hs)
      BY <2>1, <2>3, <2>5
    <2> QED
      BY <1>5, <2>2, <2>4, <2>5 DEF Handshakes, Fresh
  <1>10. \A c \in Conn : Stream(c)' = IF sv[c].st = "lost" THEN <<>> ELSE Stream(c)
    <2> TAKE c \in Conn
    <2>1. CASE sv[c].st = "lost"
      <3>1. net[c].toS = <<>>
        BY <1>2, <2>1 DEF Handshakes
      <3> QED
        BY <1>3, <1>5, <2>1, <3>1, EmptySeq, ConcatEmptySeq DEF Stream
    <2>2. CASE sv[c].st # "lost"
      BY <1>3, <1>5, <2>2 DEF Stream
    <2> QED
      BY <2>1, <2>2
  <1>11. Continued'
    <2> SUFFICES ASSUME NEW k \in Conn, k = conn, net[k].up, cl.out.cursor = 1
                 PROVE  Stream(k)' # <<>> /\ (Stream(k)')[Len(Stream(k)')] = cl.out.data[1]
      BY <1>5 DEF Continued
    <2>1. sv[k].st # "lost"
      BY <1>2 DEF Handshakes
    <2>2. Stream(k) # <<>> /\ Stream(k)[Len(Stream(k))] = cl.out.data[1]
      BY DEF SessionInv, Continued
    <2>3. Stream(k)' = Stream(k)
      BY <1>10, <2>1
    <2> QED
      BY <2>2, <2>3
  <1>12. MessagesWhole'
    <2>1. \A d \in Conn : WholeStream(Stream(d))
      BY WholeStreams DEF SessionInv
    <2>2. WholeStream(<<>>)
      BY DEF WholeStream
    <2>3. \A d \in Conn : WholeStream(Stream(d)')
      BY <1>10, <2>1, <2>2
    <2> QED
      BY <2>3 DEF MessagesWhole, WholeStream, Stream
  <1>13. FewerPlaces
    <2>1. cl.out.data \in Seq(Cell)
      BY ClientTyped, Boundaries
    <2>2. net \in [Conn -> Connection]
      BY <1>2 DEF VarsTyped
    <2> QED
      BY <1>5, <2>1, <2>2 DEF FewerPlaces
  <1> QED
    BY <1>6, <1>7, <1>8, <1>9, <1>11, <1>12, <1>13, FewerPlacesOnce DEF SessionInv

-----------------------------------------------------------------------------
(* The network.                                                            *)

\* The first i cells of q.
CutAt(t, q, i) == i <= Len(q) /\ t = SubSeq(q, 1, i)

\* What is left of a stream that is cut.
LEMMA StreamCut ==
    ASSUME NEW p \in Seq(Cell), NEW q \in Seq(Cell), WholeStream(p \o q),
           NEW i \in Nat, NEW t, CutAt(t, q, i)
    PROVE  /\ t \in Seq(Cell) /\ Len(t) = i /\ \A k \in 1 .. i : t[k] = q[k]
           /\ WholeStream(p \o t)
  <1> DEFINE u == p \o t
             s == p \o q
             P == Len(p)
             Q == Len(q)
  <1>0. i <= Len(q) /\ t = SubSeq(q, 1, i)
    BY DEF CutAt
  <1>1. t \in Seq(Cell) /\ Len(t) = i /\ \A k \in 1 .. i : t[k] = q[k]
    <2>1. 0 \in Nat /\ 0 <= i /\ i - 0 = i /\ 0 + 1 = 1 /\ \A k \in 1 .. i : 0 + k = k
      BY <1>0
    <2>2. /\ SubSeq(q, 0 + 1, i) \in Seq(Cell) /\ Len(SubSeq(q, 0 + 1, i)) = i - 0
          /\ \A k \in 1 .. i - 0 : SubSeq(q, 0 + 1, i)[k] = q[0 + k]
      BY <1>0, <2>1, Piece
    <2> QED
      BY <1>0, <2>1, <2>2
  <1>2. /\ P \in Nat /\ Len(u) = P + i /\ \A k \in 1 .. P : u[k] = p[k]
        /\ \A k \in 1 .. i : u[P + k] = t[k]
    BY <1>1, Joined
  <1>3. /\ Len(s) = P + Q /\ \A k \in 1 .. P : s[k] = p[k]
        /\ \A k \in 1 .. Q : s[P + k] = q[k]
    BY Joined
  <1>4. Q \in Nat /\ i <= Q
    BY <1>0, LenProperties
  <1>5. \A k \in 1 .. Len(s) : s[k].part = 2 => k > 1 /\ s[k - 1] = [s[k] EXCEPT !.part = 1]
    BY DEF WholeStream
  <1> HIDE DEF u, s, P, Q
  <1>6. ASSUME NEW k \in 1 .. P + i
        PROVE  u[k] = s[k] /\ k \in 1 .. P + Q
    <2>1. k \in 1 .. P \/ k - P \in 1 .. i
      BY <1>2
    <2>2. CASE k \in 1 .. P
      BY <1>2, <1>3, <1>4, <2>2
    <2>3. CASE k - P \in 1 .. i
      <3>1. PICK h \in 1 .. i : h = k - P
        BY <2>3
      <3>2. k = P + h /\ h \in 1 .. Q /\ k \in 1 .. P + Q
        BY <1>2, <1>4, <3>1
      <3> QED
        BY <1>1, <1>2, <1>3, <3>2
    <2> QED
      BY <2>1, <2>2, <2>3
  <1>7. WholeStream(u)
    <2> SUFFICES ASSUME NEW k \in 1 .. P + i, u[k].part = 2
                 PROVE  k > 1 /\ u[k - 1] = [u[k] EXCEPT !.part = 1]
      BY <1>2 DEF WholeStream
    <2>1. u[k] = s[k] /\ k \in 1 .. Len(s)
      BY <1>3, <1>6
    <2>2. k > 1 /\ s[k - 1] = [s[k] EXCEPT !.part = 1]
      BY <1>5, <2>1
    <2>3. k - 1 \in 1 .. P + i
      BY <1>2, <2>2
    <2>4. u[k - 1] = s[k - 1]
      BY <1>6, <2>3
    <2> QED
      BY <2>1, <2>2, <2>4
  <1> QED
    BY <1>1, <1>7 DEF u

LEMMA BreakKeeps ==
    ASSUME SessionInv, Break
    PROVE  SessionInv'
  <1>1. PICK k \in Conn, i \in 0 .. Room, j \in 0 .. Room :
          /\ k = conn /\ i <= Len(net[k].toS) /\ j <= Len(net[k].toC)
          /\ net' = [net EXCEPT ![k] = [up |-> FALSE, toS |-> SubSeq(net[k].toS, 1, i),
                                        toC |-> SubSeq(net[k].toC, 1, j)]]
          /\ UNCHANGED <<conn, cl, sv, srv, sent, received, lost>>
    <2>1. PICK i \in 0 .. Room, j \in 0 .. Room :
            /\ conn \in Conn
            /\ i <= Len(net[conn].toS) /\ j <= Len(net[conn].toC)
            /\ net' = [net EXCEPT ![conn] = [up |-> FALSE, toS |-> SubSeq(@.toS, 1, i),
                                             toC |-> SubSeq(@.toC, 1, j)]]
            /\ UNCHANGED <<conn, cl, sv, srv, sent, received, lost>>
      BY DEF Break
    <2>2. PICK k \in Conn : k = conn
      BY <2>1
    <2>3. net' = [net EXCEPT ![k] = [up |-> FALSE, toS |-> SubSeq(net[k].toS, 1, i),
                                     toC |-> SubSeq(net[k].toC, 1, j)]]
      BY <2>1, <2>2
    <2> QED
      BY <2>1, <2>2, <2>3
  <1>2. VarsTyped /\ BuffersGood /\ OneByOne /\ Handshakes
    BY DEF SessionInv
  <1>3. /\ net \in [Conn -> Connection] /\ net[k].toS \in Seq(Cell) /\ net[k].toC \in Seq(Cell)
        /\ sv[k].part \in Seq(Cell)
    BY PeerTyped
  <1>4. i \in Nat /\ j \in Nat
    BY SizesPositive
  <1>5. PICK t, r : t = SubSeq(net[k].toS, 1, i) /\ r = SubSeq(net[k].toC, 1, j)
    OBVIOUS
  <1>6. \A d \in Conn : WholeStream(Stream(d))
    BY WholeStreams DEF SessionInv
  <1>7. /\ t \in Seq(Cell) /\ Len(t) = i /\ \A h \in 1 .. i : t[h] = net[k].toS[h]
        /\ WholeStream(sv[k].part \o t)
    <2>1. WholeStream(sv[k].part \o net[k].toS)
      BY <1>6 DEF Stream
    <2>2. PICK p, q : p = sv[k].part /\ q = net[k].toS
      OBVIOUS
    <2>3. /\ p \in Seq(Cell) /\ q \in Seq(Cell) /\ WholeStream(p \o q) /\ i \in Nat
          /\ i <= Len(q) /\ t = SubSeq(q, 1, i)
      BY <1>1, <1>3, <1>4, <1>5, <2>1, <2>2
    <2>4. PICK n \in Nat : n = i
      BY <2>3
    <2>5. CutAt(t, q, n) /\ WholeStream(p \o q)
      BY <2>3, <2>4 DEF CutAt
    <2>6. /\ t \in Seq(Cell) /\ Len(t) = n /\ \A h \in 1 .. n : t[h] = q[h]
          /\ WholeStream(p \o t)
      <3>1. p \in Seq(Cell) /\ q \in Seq(Cell)
        BY <2>3
      <3> QED
        BY <2>5, <3>1, StreamCut
    <2> QED
      BY <2>2, <2>4, <2>6
  <1>8. r \in Seq(Cell) /\ Len(r) = j
    <2>1. 0 \in Nat /\ 0 <= j /\ j - 0 = j /\ 0 + 1 = 1
      BY <1>4
    <2>2. SubSeq(net[k].toC, 0 + 1, j) \in Seq(Cell) /\ Len(SubSeq(net[k].toC, 0 + 1, j)) = j - 0
      BY <1>1, <1>3, <1>4, <2>1, Piece
    <2> QED
      BY <1>5, <2>1, <2>2
  <1>9. PICK x : x = [up |-> FALSE, toS |-> t, toC |-> r]
    OBVIOUS
  <1>10. x \in Connection /\ x.up = FALSE /\ x.toS = t /\ x.toC = r
    BY <1>7, <1>8, <1>9 DEF Connection
  <1>11. /\ net' \in [Conn -> Connection] /\ net'[k] = x
         /\ \A d \in Conn : d # k => net'[d] = net[d]
    BY <1>1, <1>3, <1>5, <1>9, <1>10
  <1>12. net[k].toS = <<>> => t = <<>>
    <2> HAVE net[k].toS = <<>>
    <2>1. i = 0
      BY <1>1, <1>4
    <2> QED
      BY <1>5, <2>1, SubSeqEmpty
  <1>13. VarsTyped'
    BY <1>1, <1>2, <1>11 DEF VarsTyped
  <1>14. BuffersGood'
    BY <1>1, <1>2 DEF BuffersGood
  <1>15. OneByOne'
    <2>1. \A d \in Conn : d > conn => d # k
      BY <1>1, ConnNumbers
    <2>2. \A d \in Conn : net'[d].up => net[d].up
      BY <1>10, <1>11
    <2> QED
      BY <1>1, <1>2, <1>11, <2>1, <2>2 DEF OneByOne
  <1>16. Handshakes'
    <2>1. ASSUME NEW d \in Conn, Fresh(d)
          PROVE  net'[d].toC = <<>> /\ net'[d].toS \in {<<>>, <<GetCell>>}
      <3>1. net[d].toC = <<>> /\ net[d].toS \in {<<>>, <<GetCell>>}
        BY <1>2, <2>1 DEF Handshakes
      <3>2. CASE d = k
        <4>1. r = <<>>
          <5>1. j = 0
            BY <1>1, <1>4, <3>1, <3>2
          <5> QED
            BY <1>8, <5>1, EmptySeq
        <4>2. t \in {<<>>, <<GetCell>>}
          <5>1. CASE i = 0
            BY <1>7, <5>1, EmptySeq
          <5>2. CASE i # 0
            <6>0. net[k].toS = <<GetCell>>
              <7>1. net[k].toS = <<>> => i = 0
                BY <1>1, <1>4
              <7> QED
                BY <3>1, <3>2, <5>2, <7>1
            <6>1. i = 1
              <7>1. Len(net[k].toS) = 1
                BY <6>0
              <7> QED
                BY <1>1, <1>4, <5>2, <7>1
            <6>2. Len(t) = 1 /\ t[1] = GetCell
              <7>1. 1 \in 1 .. i
                BY <6>1
              <7>2. t[1] = net[k].toS[1]
                BY <1>7, <7>1
              <7>3. <<GetCell>>[1] = GetCell
                OBVIOUS
              <7> QED
                BY <1>7, <6>0, <6>1, <7>2, <7>3
            <6>3. t = <<t[1]>>
              BY <1>7, <6>2
            <6> QED
              BY <6>2, <6>3
          <5> QED
            BY <5>1, <5>2
        <4> QED
          BY <1>10, <1>11, <3>2, <4>1, <4>2
      <3>3. CASE d # k
        BY <1>11, <3>1, <3>3
      <3> QED
        BY <3>2, <3>3
    <2>2. ASSUME NEW d \in Conn, sv[d].st \in {"lost", "gone"} \/ (sv[d].st = "open" /\ ~sv[d].rd)
          PROVE  net'[d].toS = <<>> /\ ~ net'[d].up
      <3>1. net[d].toS = <<>> /\ ~ net[d].up
        BY <1>2, <2>2 DEF Handshakes
      <3> QED
        BY <1>10, <1>11, <1>12, <3>1
    <2>3. ~ net'[conn].up
      BY <1>1, <1>10, <1>11
    <2>4. cl.hs => cl.out.cursor = 0
      BY <1>2 DEF Handshakes
    <2>5. ASSUME NEW d \in Conn, Fresh(d)
          PROVE  sv[d].part = <<>> /\ sv[d].out.data = <<>> /\ (d = conn => cl.hs)
      BY <1>2, <2>5 DEF Handshakes
    <2>6. UNCHANGED <<conn, cl, sv>>
      BY <1>1
    <2>7. ASSUME NEW d \in Conn, Fresh(d)'
          PROVE  /\ sv'[d].part = <<>> /\ sv'[d].out.data = <<>> /\ net'[d].toC = <<>>
                 /\ net'[d].toS \in {<<>>, <<GetCell>>} /\ (d = conn' => cl'.hs)
      <3>1. Fresh(d)
        BY <2>6, <2>7 DEF Fresh
      <3>2. sv[d].part = <<>> /\ sv[d].out.data = <<>> /\ (d = conn => cl.hs)
        BY <2>5, <3>1
      <3> QED
        BY <2>1, <2>6, <3>1, <3>2
    <2> QED
      BY <2>2, <2>3, <2>4, <2>6, <2>7 DEF Handshakes
  <1>17. Continued'
    BY <1>1, <1>10, <1>11 DEF Continued
  <1>18. MessagesWhole'
    <2>1. Stream(k)' = sv[k].part \o t
      BY <1>1, <1>10, <1>11 DEF Stream
    <2>2. \A d \in Conn : d # k => Stream(d)' = Stream(d)
      BY <1>1, <1>11 DEF Stream
    <2>3. \A d \in Conn : WholeStream(Stream(d)')
      BY <1>6, <1>7, <2>1, <2>2
    <2> QED
      BY <2>3 DEF MessagesWhole, WholeStream, Stream
  <1>19. FewerPlaces
    <2>1. cl.out.data \in Seq(Cell)
      BY ClientTyped, Boundaries
    <2>2. ASSUME NEW d \in Conn, NEW h \in 1 .. Len(net'[d].toS)
          PROVE  h \in 1 .. Len(net[d].toS) /\ net'[d].toS[h] = net[d].toS[h]
      <3>1. CASE d = k
        <4>1. h \in 1 .. i /\ net'[d].toS = t
          BY <1>7, <1>10, <1>11, <3>1
        <4>2. h \in 1 .. Len(net[k].toS)
          <5>1. Len(net[k].toS) \in Nat
            BY <1>3, LenProperties
          <5> QED
            BY <1>1, <1>4, <4>1, <5>1
        <4> QED
          BY <1>7, <3>1, <4>1, <4>2
      <3>2. CASE d # k
        BY <1>11, <3>2
      <3> QED
        BY <3>1, <3>2
    <2> QED
      BY <1>1, <1>11, <2>1, <2>2 DEF FewerPlaces
  <1> QED
    BY <1>13, <1>14, <1>15, <1>16, <1>17, <1>18, <1>19, FewerPlacesOnce DEF SessionInv

-----------------------------------------------------------------------------
(* The invariant.                                                          *)

LEMMA InitSession == Init => SessionInv
  <1> SUFFICES ASSUME Init PROVE SessionInv
    OBVIOUS
  <1>1. /\ conn = 0 /\ sent = 0 /\ received = <<>> /\ lost = FALSE
        /\ srv = [list |-> 1, timer |-> FALSE, stuck |-> FALSE]
        /\ sv = [c \in Conn |-> NoPeer]
        /\ net = [c \in Conn |-> [up |-> FALSE, toS |-> <<>>, toC |-> <<>>]]
        /\ cl = [hs |-> TRUE, out |-> [EmptyOut EXCEPT !.want = FALSE], rd |-> FALSE,
                 reset |-> FALSE, retry |-> FALSE, timer |-> FALSE,
                 list |-> 1, told |-> None, known |-> None]
    BY DEF Init
  <1>2. PICK o : o = [EmptyOut EXCEPT !.want = FALSE]
    OBVIOUS
  <1>3. /\ Good(EmptyOut) /\ EmptyOut \in Buffer /\ EmptyOut.data = <<>> /\ EmptyOut.cursor = 0
        /\ NoPeer \in PeerType /\ NoPeer.out = EmptyOut /\ NoPeer.part = <<>>
        /\ NoPeer.st = "none" /\ NoPeer.opening = FALSE
    BY EmptyGood, NoneTyped
  <1>4. Good(o) /\ o \in Buffer /\ o.data = <<>> /\ o.cursor = 0 /\ o.want = FALSE
    BY <1>2, <1>3, FlagsFree DEF Buffer, Good
  <1>5. 1 \in Version /\ None \in List /\ MaxChanges \in Nat /\ MaxMsgs \in Nat /\ MaxConn \in Nat
    BY BoundsNat, ConnNumbers DEF Version, List, None, Wrong
  <1>6. /\ cl \in ClientType /\ cl.out = o /\ cl.hs = TRUE /\ cl.rd = FALSE /\ cl.timer = FALSE
        /\ cl.list = 1
    <2>1. cl = [hs |-> TRUE, out |-> o, rd |-> FALSE, reset |-> FALSE, retry |-> FALSE,
                timer |-> FALSE, list |-> 1, told |-> None, known |-> None]
      BY <1>1, <1>2
    <2> QED
      BY <1>4, <1>5, <2>1 DEF ClientType
  <1>7. \A c \in Conn : sv[c] = NoPeer /\ net[c] = [up |-> FALSE, toS |-> <<>>, toC |-> <<>>]
    BY <1>1
  <1>8. sv \in [Conn -> PeerType] /\ net \in [Conn -> Connection]
    <2>1. [up |-> FALSE, toS |-> <<>>, toC |-> <<>>] \in Connection
      BY EmptySeq DEF Connection
    <2> QED
      BY <1>1, <1>3, <2>1
  <1>9. VarsTyped
    <2>1. received \in Seq(1 .. sent)
      BY <1>1, EmptySeq
    <2>2. srv \in [list : Version, timer : BOOLEAN, stuck : BOOLEAN] /\ srv.list = 1
      BY <1>1, <1>5
    <2>3. cl.list + srv.list <= MaxChanges + 2
      BY <1>5, <1>6, <2>2
    <2>4. conn \in 0 .. MaxConn /\ sent \in 0 .. MaxMsgs /\ lost \in BOOLEAN
      <3>1. \A n \in Nat : 0 \in 0 .. n
        OBVIOUS
      <3>2. 0 \in 0 .. MaxConn /\ 0 \in 0 .. MaxMsgs
        BY <1>5, <3>1
      <3>3. conn = 0 /\ sent = 0 /\ lost \in BOOLEAN
        BY <1>1
      <3> QED
        BY <3>2, <3>3
    <2> QED
      BY <1>6, <1>8, <2>1, <2>2, <2>3, <2>4 DEF VarsTyped
  <1>10. BuffersGood
    BY <1>3, <1>4, <1>6, <1>7 DEF BuffersGood
  <1>11. OneByOne
    BY <1>1, <1>3, <1>6, <1>7 DEF OneByOne
  <1>12. Handshakes
    <2>1. conn \notin Conn
      BY <1>1, ConnNumbers
    <2>2. \A c \in Conn : /\ sv[c].part = <<>> /\ sv[c].out.data = <<>> /\ net[c].toC = <<>>
                          /\ net[c].toS = <<>> /\ ~ net[c].up
      BY <1>3, <1>7
    <2> QED
      BY <1>4, <1>6, <2>1, <2>2 DEF Handshakes
  <1>13. Continued
    BY <1>4, <1>6 DEF Continued
  <1>14. MessagesWhole
    <2>1. \A c \in Conn : Stream(c) = <<>>
      BY <1>3, <1>7, EmptySeq, ConcatEmptySeq DEF Stream
    <2>2. WholeStream(<<>>)
      BY DEF WholeStream
    <2> QED
      BY <2>1, <2>2, WholeStreams
  <1>15. Places
    <2>1. PICK F : F = Lanes(cl.out.data, net, received)
      OBVIOUS
    <2>2. cl.out.data \in Seq(Cell) /\ received \in Seq(1 .. MaxMsgs)
      BY <1>1, <1>4, <1>6, EmptySeq
    <2>3. /\ F[0] = cl.out.data /\ F[-1] = Received(received)
          /\ \A c \in Conn : F[c] = net[c].toS
          /\ Len(Received(received)) = Len(received)
      BY <1>8, <2>1, <2>2, LanesOf
    <2>4. ASSUME NEW k \in Lane
          PROVE  Len(F[k]) = 0
      <3>1. CASE k \in Conn
        BY <1>7, <2>3, <3>1
      <3>2. CASE k = 0
        <4>1. F[k] = <<>>
          BY <1>4, <1>6, <2>3, <3>2
        <4> QED
          BY <4>1
      <3>3. CASE k = -1
        <4>1. Len(received) = 0
          BY <1>1
        <4> QED
          BY <2>3, <3>3, <4>1
      <3> QED
        BY <3>1, <3>2, <3>3, ConnNumbers
    <2>5. Once(F, sent)
      BY <2>4 DEF Once
    <2> QED
      BY <2>1, <2>5 DEF Places
  <1> QED
    BY <1>9, <1>10, <1>11, <1>12, <1>13, <1>14, <1>15 DEF SessionInv

LEMMA NextSession == SessionInv /\ [Next]_vars => SessionInv'
  <1> SUFFICES ASSUME SessionInv, [Next]_vars
               PROVE  SessionInv'
    OBVIOUS
  <1>1. CASE Client
    BY <1>1, BindKeeps, SendHandshakeKeeps, HandshakeDoneKeeps, ClientReceiveKeeps,
       ClientClearToSendKeeps, ClientClosedKeeps, ClientTimeoutKeeps DEF Client
  <1>2. ASSUME NEW c \in Conn, Peer(c)
        PROVE  SessionInv'
    BY <1>2, AcceptKeeps, PeerHandshakeKeeps, StartPeerKeeps, PeerReceiveKeeps,
       PeerClearToSendKeeps, PeerClosedKeeps DEF Peer
  <1>3. CASE ServerTimeout
    BY <1>3, ServerTimeoutKeeps
  <1>4. CASE ClientListChanges \/ ServerListChanges \/ Post \/ Break
    BY <1>4, ClientListChangesKeeps, ServerListChangesKeeps, PostKeeps, BreakKeeps
  <1>5. CASE UNCHANGED vars
    <2>1. UNCHANGED <<conn, cl, sv, srv, net, sent, received, lost>>
      BY <1>5 DEF vars
    <2>2. VarsTyped' /\ BuffersGood' /\ OneByOne' /\ Handshakes'
      BY <2>1 DEF SessionInv, VarsTyped, BuffersGood, OneByOne, Handshakes, Fresh
    <2>3. Continued' /\ MessagesWhole' /\ Places'
      BY <2>1 DEF SessionInv, Continued, Stream, MessagesWhole, Places
    <2> QED
      BY <2>2, <2>3 DEF SessionInv
  <1> QED
    BY <1>1, <1>2, <1>3, <1>4, <1>5 DEF Next, Callback

LEMMA SessionHolds == Spec => []SessionInv
  BY InitSession, NextSession, PTL DEF Spec

\* What has its type is never left without one, for any sizes and bounds: the
\* messages in the buffers, the connections, and the lists.
THEOREM TypeCorrect == Spec => []TypeOK
  <1>1. SessionInv => TypeOK
    <2> SUFFICES ASSUME SessionInv PROVE TypeOK
      OBVIOUS
    <2>1. VarsTyped /\ OneByOne
      BY DEF SessionInv
    <2>2. \A o \in Buffer : OutTyped(o)
      BY DEF Buffer, OutTyped
    <2>3. received \in Seq(1 .. MaxMsgs) /\ conn \in 0 .. MaxConn /\ sent \in 0 .. MaxMsgs
          /\ lost \in BOOLEAN
      BY <2>1, Typed DEF VarsTyped
    <2>4. \A v \in Version \cup {None} : v \in List
      BY BoundsNat DEF Version, None, List, Wrong
    <2>5. /\ cl.out \in Buffer /\ {cl.list, cl.told, cl.known} \subseteq List
          /\ {cl.hs, cl.rd, cl.reset, cl.retry, cl.timer} \subseteq BOOLEAN
      <3>1. cl \in ClientType
        BY <2>1 DEF VarsTyped
      <3>2. /\ cl.out \in Buffer /\ cl.list \in Version /\ cl.told \in Version \cup {None}
            /\ cl.known \in List
            /\ {cl.hs, cl.rd, cl.reset, cl.retry, cl.timer} \subseteq BOOLEAN
        BY <3>1 DEF ClientType
      <3> QED
        BY <2>4, <3>2
    <2>6. srv.timer \in BOOLEAN /\ srv.stuck \in BOOLEAN /\ srv.list \in List
      BY <2>1, <2>4 DEF VarsTyped
    <2>7. ASSUME NEW c \in Conn
          PROVE  /\ sv[c].out \in Buffer /\ {srv.list, sv[c].told, sv[c].known} \subseteq List
                 /\ sv[c].st \in {"none", "handshake", "open", "lost", "gone"}
                 /\ {sv[c].rd, sv[c].opening} \subseteq BOOLEAN /\ sv[c].part \in Seq(Cell)
                 /\ (net[c].up => c = conn)
                 /\ net[c].toS \in Seq(Cell) /\ net[c].toC \in Seq(Cell)
      <3>1. sv[c] \in PeerType /\ net[c] \in Connection
        BY <2>1 DEF VarsTyped
      <3>2. /\ sv[c].out \in Buffer /\ sv[c].told \in Version \cup {None} /\ sv[c].known \in List
            /\ sv[c].st \in {"none", "handshake", "open", "lost", "gone"}
            /\ {sv[c].rd, sv[c].opening} \subseteq BOOLEAN /\ sv[c].part \in Seq(Cell)
        BY <3>1 DEF PeerType
      <3>3. (net[c].up => c = conn) /\ net[c].toS \in Seq(Cell) /\ net[c].toC \in Seq(Cell)
        BY <2>1, <3>1 DEF OneByOne, Connection
      <3> QED
        BY <2>4, <2>6, <3>2, <3>3
    <2> QED
      BY <2>2, <2>3, <2>5, <2>6, <2>7 DEF TypeOK
  <1> QED
    BY <1>1, SessionHolds, PTL

\* The boundaries that a bridge keeps of what it sends are those of the
\* messages in its buffer, whatever the kernel takes and however often a
\* connection is lost.
THEOREM BoundariesHold == Spec => []OutputSound
  <1>1. SessionInv => OutputSound
    BY DEF SessionInv, BuffersGood, Good, OutputSound
  <1> QED
    BY <1>1, SessionHolds, PTL

\* A peer reads whole messages only, also when a message was cut by the loss
\* of a connection and is sent again on the next.
THEOREM NothingTorn == Spec => []MessagesWhole
  <1>1. SessionInv => MessagesWhole
    BY DEF SessionInv
  <1> QED
    BY <1>1, SessionHolds, PTL

\* No bus message reaches the server's broker twice, over any number of
\* reconnections.
THEOREM NothingTwice == Spec => []OnceOnly
  <1>1. SessionInv => OnceOnly
    <2> SUFFICES ASSUME SessionInv, NEW i \in 1 .. Len(received), NEW j \in 1 .. Len(received),
                        received[i] = received[j]
                 PROVE  i = j
      BY DEF OnceOnly
    <2>1. PICK F : F = Lanes(cl.out.data, net, received)
      OBVIOUS
    <2>2. /\ net \in [Conn -> Connection] /\ received \in Seq(1 .. MaxMsgs)
          /\ cl.out.data \in Seq(Cell)
      BY Typed, ClientTyped, Boundaries DEF SessionInv
    <2>3. /\ F[-1] = Received(received) /\ Len(Received(received)) = Len(received)
          /\ \A k \in 1 .. Len(received) :
               Received(received)[k] = [m |-> Msg(received[k]), part |-> 2]
      BY <2>1, <2>2, LanesOf
    <2>4. F[-1][i] = F[-1][j] /\ Final(F[-1][i])
      <3>1. PICK a : a = received[i] /\ a = received[j]
        OBVIOUS
      <3>2. F[-1][i] = [m |-> Msg(a), part |-> 2] /\ F[-1][j] = [m |-> Msg(a), part |-> 2]
        BY <2>3, <3>1
      <3>3. F[-1][i].part = 2 /\ F[-1][i].m = Msg(a)
        BY <3>2
      <3>4. Msg(a).t = "msg"
        BY DEF Msg
      <3> QED
        BY <3>2, <3>3, <3>4 DEF Final
    <2>5. -1 \in Lane /\ i \in 1 .. Len(F[-1]) /\ j \in 1 .. Len(F[-1])
      BY <2>3, ConnNumbers
    <2> QED
      BY <2>1, <2>4, <2>5 DEF SessionInv, Places, Once
  <1> QED
    BY <1>1, SessionHolds, PTL

=============================================================================

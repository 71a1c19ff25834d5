-------------------------- MODULE ReturnPathProofs --------------------------
(***************************************************************************)
(* Theorems about the table of return paths, for every limit and any sets  *)
(* of addresses and bridges: the list is never broken, the table never     *)
(* grows over its limit, no path leads to a bridge that is gone, a path is *)
(* lost only for a reason, and the whole is the bounded table of module    *)
(* PathCache.                                                              *)
(***************************************************************************)
EXTENDS ReturnPath, TLAPS, FiniteSetTheorems, SequenceTheorems, SequencesExt

-----------------------------------------------------------------------------
(* Operations on the list.                                                 *)

LEMMA UnlinkTyped ==
    ASSUME NEW g \in Links, NEW x \in Id
    PROVE  Unlink(g, x) \in Links
  BY NodesDiffer DEF Unlink, Links

\* Taking out a node that is linked leaves the others linked.
LEMMA UnlinkKeepsLinked ==
    ASSUME NEW g \in Links, NEW S \in SUBSET Id, NEW x \in S, Linked(g, S)
    PROVE  Linked(Unlink(g, x), S \ {x})
  <1> DEFINE n == g.next[x]
             p == g.prev[x]
  <1>1. /\ n \in S \cup {End} /\ p \in S \cup {Root} /\ n # Null /\ p # Null
        /\ g.prev[n] = x /\ g.next[p] = x
    BY NodesDiffer DEF Linked
  <1>2. Unlink(g, x) = [next |-> [g.next EXCEPT ![p] = n], prev |-> [g.prev EXCEPT ![n] = p]]
    BY <1>1 DEF Unlink
  <1>3. g.next \in [Id \cup {Root} -> Id \cup {End, Null}] /\ g.prev \in [Id \cup {End} -> Id \cup {Root, Null}]
    BY DEF Links
  <1> QED
    BY <1>1, <1>2, <1>3, NodesDiffer DEF Linked

\* The fields of a node that is not linked do not matter.
LEMMA DropKeepsLinked ==
    ASSUME NEW g \in Links, NEW S \in SUBSET Id, NEW x \in S, Linked(g, S)
    PROVE  Drop(g, x) \in Links /\ Linked(Drop(g, x), S \ {x})
  <1> DEFINE u == Unlink(g, x)
             d == Drop(g, x)
  <1>1. u \in Links /\ Linked(u, S \ {x})
    BY UnlinkTyped, UnlinkKeepsLinked
  <1> HIDE DEF u
  <1>2. d = [next |-> [u.next EXCEPT ![x] = Null], prev |-> [u.prev EXCEPT ![x] = Null]]
    BY DEF Drop, u
  <1>3. d \in Links
    BY <1>1, <1>2 DEF Links
  <1>4. /\ \A c \in (S \ {x}) \cup {Root} : d.next[c] = u.next[c]
        /\ \A c \in (S \ {x}) \cup {End} : d.prev[c] = u.prev[c]
    BY <1>1, <1>2, NodesDiffer DEF Links
  <1> QED
    BY <1>1, <1>3, <1>4 DEF Linked

\* Putting a node in front that is not linked.
LEMMA PromoteKeepsLinked ==
    ASSUME NEW g \in Links, NEW S \in SUBSET Id, NEW x \in Id, Linked(g, S),
           x \notin S => g.next[x] = Null /\ g.prev[x] = Null
    PROVE  /\ Promote(g, x) \in Links
           /\ Linked(Promote(g, x), S \cup {x})
           /\ Promote(g, x).next[Root] = x
  <1> DEFINE u == Unlink(g, x)
             R == S \ {x}
             h == Promote(g, x)
  <1>1. u \in Links /\ Linked(u, R)
    <2>1. CASE x \in S
      BY <2>1, UnlinkTyped, UnlinkKeepsLinked
    <2>2. CASE x \notin S
      <3>1. u = [next |-> g.next, prev |-> g.prev] /\ R = S
        BY <2>2 DEF Unlink
      <3>2. u = g
        BY <3>1 DEF Links
      <3> QED
        BY <3>1, <3>2
    <2> QED
      BY <2>1, <2>2
  <1> HIDE DEF u
  <1> DEFINE f == u.next[Root]
  <1>2. h = [next |-> [u.next EXCEPT ![x] = f, ![Root] = x],
             prev |-> [u.prev EXCEPT ![x] = Root, ![f] = x]]
    BY DEF Promote, u
  <1>3. f \in R \cup {End} /\ f # x /\ f # Null /\ x # Root /\ x # End
    BY <1>1, NodesDiffer DEF Linked
  <1>4. h \in Links
    BY <1>1, <1>2, <1>3, NodesDiffer DEF Links
  <1>5. /\ h.next[x] = f /\ h.next[Root] = x /\ h.prev[x] = Root /\ h.prev[f] = x
        /\ \A c \in R : h.next[c] = u.next[c]
        /\ \A c \in (R \cup {End}) \ {f} : h.prev[c] = u.prev[c]
    BY <1>1, <1>2, <1>3, NodesDiffer DEF Links
  <1>6. Linked(h, R \cup {x})
    BY <1>1, <1>3, <1>5, NodesDiffer DEF Linked
  <1>7. R \cup {x} = S \cup {x}
    OBVIOUS
  <1> QED
    BY <1>4, <1>5, <1>6, <1>7

\* The list can be read: it has an end, and no node comes twice.
Readable(g, S) == \E s : Reads(g, S, s)

LEMMA RemoveAtProperties ==
    ASSUME NEW S, NEW s \in Seq(S), NEW k \in 1 .. Len(s)
    PROVE  /\ RemoveAt(s, k) \in Seq(S)
           /\ Len(RemoveAt(s, k)) = Len(s) - 1
           /\ \A i \in 1 .. Len(s) - 1 : RemoveAt(s, k)[i] = IF i < k THEN s[i] ELSE s[i + 1]
  <1> DEFINE a == SubSeq(s, 1, k - 1)
             b == SubSeq(s, k + 1, Len(s))
  <1>1. a \in Seq(S) /\ Len(a) = k - 1 /\ \A i \in 1 .. k - 1 : a[i] = s[i]
    BY SubSeqProperties
  <1>2. b \in Seq(S) /\ Len(b) = Len(s) - k /\ \A i \in 1 .. Len(s) - k : b[i] = s[k + i]
    BY SubSeqProperties
  <1> HIDE DEF a, b
  <1>3. /\ a \o b \in Seq(S) /\ Len(a \o b) = Len(s) - 1
        /\ \A i \in 1 .. Len(s) - 1 : (a \o b)[i] = IF i <= k - 1 THEN a[i] ELSE b[i - (k - 1)]
    <2>1. Len(s) \in Nat
      BY LenProperties
    <2>2. Len(a) + Len(b) = Len(s) - 1
      BY <1>1, <1>2, <2>1
    <2>3. /\ a \o b \in Seq(S) /\ Len(a \o b) = Len(a) + Len(b)
          /\ \A i \in 1 .. Len(a) + Len(b) : (a \o b)[i] = IF i <= Len(a) THEN a[i] ELSE b[i - Len(a)]
      BY <1>1, <1>2, ConcatProperties
    <2> QED
      BY <1>1, <2>2, <2>3
  <1>4. \A i \in 1 .. Len(s) - 1 : (a \o b)[i] = IF i < k THEN s[i] ELSE s[i + 1]
    BY <1>1, <1>2, <1>3
  <1> QED
    BY <1>3, <1>4 DEF RemoveAt, a, b

\* Where a node stands in the list, and where the one before it stands.
LEMMA PlaceOf ==
    ASSUME NEW g \in Links, NEW S \in SUBSET Id, Linked(g, S), NEW s \in Seq(S),
           Reads(g, S, s), NEW k \in 1 .. Len(s)
    PROVE  /\ s[k] \in S /\ s \in Seq(S) /\ Len(s) \in Nat
           /\ g.next[s[k]] = IF k = Len(s) THEN End ELSE s[k + 1]
           /\ g.prev[s[k]] = IF k = 1 THEN Root ELSE s[k - 1]
  <1>1. s \in Seq(S) /\ s[k] \in S /\ DOMAIN s = 1 .. Len(s) /\ Len(s) \in Nat /\ s # <<>>
    BY ElementOfSeq, LenProperties DEF Reads
  <1>2. CASE k = 1
    <2>1. g.next[Root] = s[1] /\ s[1] # End
      BY <1>1, <1>2, NodesDiffer DEF Reads
    <2> QED
      BY <1>1, <1>2, <2>1 DEF Reads, Linked
  <1>3. CASE k # 1
    <2>1. k - 1 \in 1 .. Len(s) /\ s[k - 1] \in S
      BY <1>1, <1>3, ElementOfSeq
    <2>2. g.next[s[k - 1]] = s[k]
      BY <1>1, <2>1 DEF Reads
    <2> QED
      BY <1>1, <1>3, <2>1, <2>2 DEF Reads, Linked
  <1> QED
    BY <1>2, <1>3

\* Taking a node out takes it out of what is read.
LEMMA UnlinkReads ==
    ASSUME NEW g \in Links, NEW S \in SUBSET Id, Linked(g, S), NEW s \in Seq(S),
           Reads(g, S, s), NEW k \in 1 .. Len(s)
    PROVE  Reads(Unlink(g, s[k]), S \ {s[k]}, RemoveAt(s, k))
  <1> DEFINE x == s[k]
             n == g.next[x]
             p == g.prev[x]
             u == Unlink(g, x)
             r == RemoveAt(s, k)
  <1>1. /\ x \in S /\ s \in Seq(S) /\ Len(s) \in Nat
        /\ n = IF k = Len(s) THEN End ELSE s[k + 1]
        /\ p = IF k = 1 THEN Root ELSE s[k - 1]
    BY PlaceOf
  <1>2. /\ r \in Seq(S) /\ Len(r) = Len(s) - 1
        /\ \A i \in 1 .. Len(s) - 1 : r[i] = IF i < k THEN s[i] ELSE s[i + 1]
    BY <1>1, RemoveAtProperties
  <1>3. \A i \in 1 .. Len(s) : s[i] \in S /\ s[i] # Root /\ s[i] # End /\ s[i] # Null
    BY <1>1, ElementOfSeq, NodesDiffer
  <1>4. p # Null /\ p \in Id \cup {Root}
    BY <1>1, <1>3, NodesDiffer
  <1>5. /\ u.next[p] = n
        /\ \A c \in S \cup {Root} : c # p => u.next[c] = g.next[c]
    BY <1>4 DEF Unlink, Links
  <1>6. \A i, j \in 1 .. Len(s) : s[i] = s[j] => i = j
    BY <1>1, LenProperties DEF Reads
  <1>7. \A i \in 1 .. Len(s) : g.next[s[i]] = IF i = Len(s) THEN End ELSE s[i + 1]
    BY <1>1, LenProperties DEF Reads
  <1>8. g.next[Root] = s[1]
    BY <1>1, LenProperties, EmptySeq DEF Reads
  <1> HIDE DEF x, n, p, u, r
  <1>9. \A i \in 1 .. Len(r) : r[i] \in S \ {x}
    BY <1>1, <1>2, <1>3, <1>6 DEF x
  <1>10. r \in Seq(S \ {x})
    BY <1>2, <1>9, LenProperties, IsASeq
  <1>11. \A c \in S \ {x} : \E i \in 1 .. Len(r) : r[i] = c
    <2> SUFFICES ASSUME NEW c \in S \ {x}
                 PROVE  \E i \in 1 .. Len(r) : r[i] = c
      OBVIOUS
    <2>1. PICK i \in 1 .. Len(s) : s[i] = c
      BY <1>1, LenProperties DEF Reads
    <2>2. i # k
      BY <2>1 DEF x
    <2>3. CASE i < k
      BY <1>1, <1>2, <2>1, <2>3
    <2>4. CASE i > k
      <3>1. i - 1 \in 1 .. Len(r) /\ r[i - 1] = s[i]
        BY <1>1, <1>2, <2>1, <2>4
      <3> QED
        BY <2>1, <3>1
    <2> QED
      BY <2>2, <2>3, <2>4
  <1>12. \A i, j \in 1 .. Len(r) : r[i] = r[j] => i = j
    BY <1>1, <1>2, <1>6
  <1>13. u.next[Root] = IF r = <<>> THEN End ELSE r[1]
    <2>1. CASE k = 1
      <3>1. u.next[Root] = n
        BY <1>1, <1>5, <2>1
      <3>2. CASE Len(s) = 1
        <4>1. r = <<>>
          BY <1>2, <3>2, EmptySeq
        <4> QED
          BY <1>1, <2>1, <3>1, <3>2, <4>1
      <3>3. CASE Len(s) > 1
        <4>1. r # <<>> /\ r[1] = s[2]
          BY <1>2, <2>1, <3>3, EmptySeq
        <4> QED
          BY <1>1, <2>1, <3>1, <3>3, <4>1
      <3>4. Len(s) = 1 \/ Len(s) > 1
        <4> DEFINE m == Len(s)
        <4>1. m \in Nat /\ 1 <= m
          BY <2>1, LenProperties
        <4> HIDE DEF m
        <4>2. m = 1 \/ m > 1
          BY <4>1
        <4> QED
          BY <4>2 DEF m
      <3> QED
        BY <3>2, <3>3, <3>4
    <2>2. CASE k # 1
      <3>1. p # Root /\ r # <<>> /\ r[1] = s[1]
        BY <1>1, <1>2, <1>3, <2>2, EmptySeq
      <3> QED
        BY <1>5, <1>8, <3>1
    <2> QED
      BY <2>1, <2>2
  <1>14. \A i \in 1 .. Len(r) : u.next[r[i]] = IF i = Len(r) THEN End ELSE r[i + 1]
    <2> SUFFICES ASSUME NEW i \in 1 .. Len(r)
                 PROVE  u.next[r[i]] = IF i = Len(r) THEN End ELSE r[i + 1]
      OBVIOUS
    <2>1. CASE i + 1 = k
      <3>1. r[i] = p /\ p = s[k - 1]
        BY <1>1, <1>2, <2>1
      <3>2. u.next[r[i]] = n
        BY <1>5, <3>1
      <3> QED
        BY <1>1, <1>2, <2>1, <3>2
    <2>2. CASE i + 1 < k
      <3>1. r[i] = s[i] /\ s[i] # p /\ s[i] \in S
        BY <1>1, <1>2, <1>3, <1>6, <2>2
      <3>2. u.next[r[i]] = s[i + 1]
        BY <1>1, <1>2, <1>5, <1>7, <2>2, <3>1, SMTT(30)
      <3> QED
        BY <1>1, <1>2, <2>2, <3>2
    <2>3. CASE i + 1 > k
      <3>1. r[i] = s[i + 1] /\ s[i + 1] # p /\ s[i + 1] \in S
        BY <1>1, <1>2, <1>3, <1>6, <2>3
      <3>2. u.next[r[i]] = IF i + 1 = Len(s) THEN End ELSE s[(i + 1) + 1]
        BY <1>1, <1>2, <1>5, <1>7, <2>3, <3>1, SMTT(30)
      <3>3. i # Len(r) => r[i + 1] = s[(i + 1) + 1]
        BY <1>1, <1>2, <2>3
      <3>4. (i = Len(r)) <=> (i + 1 = Len(s))
        BY <1>1, <1>2
      <3> QED
        BY <3>2, <3>3, <3>4
    <2>4. i + 1 = k \/ i + 1 < k \/ i + 1 > k
      BY <1>1, <1>2
    <2> QED
      BY <2>1, <2>2, <2>3, <2>4
  <1>15. DOMAIN r = 1 .. Len(r)
    BY <1>2, LenProperties
  <1> QED
    BY <1>10, <1>11, <1>12, <1>13, <1>14, <1>15 DEF Reads, x, u, r


\* The sequence without x: that of the list when x is not in it.
LEMMA RemoveFirstPlace ==
    ASSUME NEW S, NEW s \in Seq(S), NEW k \in 1 .. Len(s),
           \A i, j \in 1 .. Len(s) : s[i] = s[j] => i = j
    PROVE  RemoveFirst(s, s[k]) = RemoveAt(s, k)
  <1> DEFINE I == {i \in 1 .. Len(s) : s[i] = s[k]}
  <1>1. I = {k}
    OBVIOUS
  <1>2. Min(I) = k
    <2> QED
      BY <1>1, LenProperties DEF Min
  <1>3. SelectInSeq(s, LAMBDA v : v = s[k]) = k
    BY <1>1, <1>2 DEF SelectInSeq
  <1> QED
    BY <1>3 DEF RemoveFirst

LEMMA RemoveFirstNothing ==
    ASSUME NEW S, NEW s \in Seq(S), NEW x, x \notin S
    PROVE  RemoveFirst(s, x) = s
  BY ElementOfSeq DEF RemoveFirst

LEMMA DropReads ==
    ASSUME NEW g \in Links, NEW S \in SUBSET Id, Linked(g, S), NEW s \in Seq(S),
           Reads(g, S, s), NEW k \in 1 .. Len(s)
    PROVE  Reads(Drop(g, s[k]), S \ {s[k]}, RemoveAt(s, k))
  <1> DEFINE x == s[k]
             u == Unlink(g, x)
             r == RemoveAt(s, k)
             d == Drop(g, x)
  <1>1. Reads(u, S \ {x}, r)
    BY UnlinkReads
  <1>2. x \in S /\ u \in Links
    BY UnlinkTyped, ElementOfSeq
  <1>3. \A c \in (S \ {x}) \cup {Root} : d.next[c] = u.next[c]
    BY <1>2, NodesDiffer DEF Drop, Links
  <1>4. r \in Seq(S \ {x}) /\ \A i \in DOMAIN r : r[i] \in S \ {x}
    BY <1>1, ElementOfSeq, LenProperties DEF Reads
  <1> HIDE DEF x, u, r, d
  <1>5. Reads(d, S \ {x}, r)
    BY <1>1, <1>3, <1>4 DEF Reads
  <1> QED
    BY <1>5 DEF x, r, d

\* A node put in front is read first.
LEMMA PromoteReads ==
    ASSUME NEW g \in Links, NEW S \in SUBSET Id, Linked(g, S), NEW s \in Seq(S),
           Reads(g, S, s), NEW x \in Id,
           x \notin S => g.next[x] = Null /\ g.prev[x] = Null
    PROVE  Reads(Promote(g, x), S \cup {x}, <<x>> \o RemoveFirst(s, x))
  <1> DEFINE u == Unlink(g, x)
             h == Promote(g, x)
             r == RemoveFirst(s, x)
             R == S \ {x}
             q == <<x>> \o r
  <1>1. u \in Links /\ Reads(u, R, r)
    <2>1. CASE x \in S
      <3>1. PICK k \in 1 .. Len(s) : s[k] = x
        BY <2>1, LenProperties DEF Reads
      <3>2. r = RemoveAt(s, k)
        BY <3>1, RemoveFirstPlace, LenProperties DEF Reads
      <3> QED
        BY <3>1, <3>2, UnlinkReads, UnlinkTyped
    <2>2. CASE x \notin S
      <3>1. u = [next |-> g.next, prev |-> g.prev] /\ R = S
        BY <2>2 DEF Unlink
      <3>2. u = g
        BY <3>1 DEF Links
      <3> QED
        BY <2>2, <3>1, <3>2, RemoveFirstNothing
    <2> QED
      BY <2>1, <2>2
  <1>2. h.next = [u.next EXCEPT ![x] = u.next[Root], ![Root] = x]
    BY DEF Promote
  <1> HIDE DEF u, h, r
  <1>3. /\ r \in Seq(R) /\ Len(r) \in Nat /\ DOMAIN r = 1 .. Len(r)
        /\ \A i \in 1 .. Len(r) : r[i] \in R
    BY <1>1, LenProperties, ElementOfSeq DEF Reads
  <1>4. /\ h.next[Root] = x /\ h.next[x] = u.next[Root]
        /\ \A i \in 1 .. Len(r) : h.next[r[i]] = u.next[r[i]]
    BY <1>1, <1>2, <1>3, NodesDiffer DEF Links
  <1>5. /\ q \in Seq(S \cup {x}) /\ Len(q) = Len(r) + 1 /\ DOMAIN q = 1 .. Len(r) + 1
        /\ q[1] = x /\ q # <<>>
        /\ \A i \in 1 .. Len(r) : q[i + 1] = r[i]
    <2>1. r \in Seq(S \cup {x}) /\ <<x>> \in Seq(S \cup {x}) /\ Len(<<x>>) = 1
      BY <1>3, SeqMonotonic
    <2>2. /\ q \in Seq(S \cup {x}) /\ Len(q) = 1 + Len(r)
          /\ \A i \in 1 .. 1 + Len(r) : q[i] = IF i <= 1 THEN <<x>>[i] ELSE r[i - 1]
      BY <2>1, ConcatProperties
    <2> HIDE DEF q
    <2>3. \A i \in 1 .. Len(r) : i + 1 \in 1 .. 1 + Len(r) /\ ~(i + 1 <= 1) /\ (i + 1) - 1 = i
      BY <1>3
    <2> QED
      BY <1>3, <2>2, <2>3, EmptySeq, LenProperties, SMTT(30)
  <1> HIDE DEF q
  <1>6. \A c \in S \cup {x} : \E i \in DOMAIN q : q[i] = c
    <2> SUFFICES ASSUME NEW c \in S \cup {x}
                 PROVE  \E i \in DOMAIN q : q[i] = c
      OBVIOUS
    <2>1. CASE c = x
      BY <1>3, <1>5, <2>1
    <2>2. CASE c # x
      <3>1. PICK i \in 1 .. Len(r) : r[i] = c
        BY <1>1, <1>3, <2>2 DEF Reads
      <3> QED
        BY <1>3, <1>5, <3>1
    <2> QED
      BY <2>1, <2>2
  <1>7. \A i \in DOMAIN q : i = 1 \/ (i - 1 \in 1 .. Len(r) /\ q[i] = r[i - 1])
    <2> SUFFICES ASSUME NEW i \in DOMAIN q, i # 1
                 PROVE  i - 1 \in 1 .. Len(r) /\ q[i] = r[i - 1]
      OBVIOUS
    <2>1. i - 1 \in 1 .. Len(r) /\ (i - 1) + 1 = i
      BY <1>3, <1>5
    <2> QED
      BY <1>5, <2>1
  <1>8. \A i, j \in DOMAIN q : q[i] = q[j] => i = j
    <2>1. \A i, j \in 1 .. Len(r) : r[i] = r[j] => i = j
      BY <1>1, <1>3 DEF Reads
    <2> QED
      BY <1>3, <1>5, <1>7, <2>1
  <1>9. \A i \in DOMAIN q : h.next[q[i]] = IF i = Len(q) THEN End ELSE q[i + 1]
    <2> SUFFICES ASSUME NEW i \in DOMAIN q
                 PROVE  h.next[q[i]] = IF i = Len(q) THEN End ELSE q[i + 1]
      OBVIOUS
    <2>1. CASE i = 1
      <3>1. h.next[q[i]] = IF r = <<>> THEN End ELSE r[1]
        BY <1>1, <1>4, <1>5, <2>1 DEF Reads
      <3>2. CASE r = <<>>
        BY <1>5, <2>1, <3>1, <3>2, EmptySeq
      <3>3. CASE r # <<>>
        <4>1. Len(r) # 0
          BY <1>3, <3>3, EmptySeq
        <4>2. i # Len(q) /\ q[i + 1] = r[1]
          BY <1>3, <1>5, <2>1, <4>1
        <4> QED
          BY <3>1, <3>3, <4>2
      <3> QED
        BY <3>2, <3>3
    <2>2. CASE i # 1
      <3>1. i - 1 \in 1 .. Len(r) /\ q[i] = r[i - 1]
        BY <1>7, <2>2
      <3>2. h.next[q[i]] = IF i - 1 = Len(r) THEN End ELSE r[(i - 1) + 1]
        BY <1>1, <1>3, <1>4, <3>1, SMTT(30) DEF Reads
      <3>3. (i - 1 = Len(r)) <=> (i = Len(q))
        BY <1>3, <1>5
      <3>4. i # Len(q) => r[(i - 1) + 1] = q[i + 1]
        <4> SUFFICES ASSUME i # Len(q)
                     PROVE  r[(i - 1) + 1] = q[i + 1]
          OBVIOUS
        <4>1. (i - 1) + 1 = i /\ i \in 1 .. Len(r)
          BY <1>3, <1>5, <3>1
        <4> QED
          BY <1>5, <4>1
      <3> QED
        BY <3>2, <3>3, <3>4
    <2> QED
      BY <2>1, <2>2
  <1>10. Reads(h, S \cup {x}, q)
    BY <1>4, <1>5, <1>6, <1>8, <1>9 DEF Reads
  <1> QED
    BY <1>10 DEF q, h, r

-----------------------------------------------------------------------------
(* The invariant of the table.                                             *)

\* An item that is not in the map is linked to nothing.
Detached(g, S) == \A c \in Id \ S : g.next[c] = Null /\ g.prev[c] = Null

ListOK(g, S) == g \in Links /\ Linked(g, S) /\ Readable(g, S) /\ Detached(g, S)

TableInv ==
    /\ PathTyped /\ ListOK(links, entries) /\ WithinLimit
    /\ \A c \in entries : via[c] \in Bridge
    /\ \A c \in Id \ entries : via[c] = Null

LEMMA DropKeepsList ==
    ASSUME NEW g, NEW S \in SUBSET Id, NEW x \in S, ListOK(g, S)
    PROVE  ListOK(Drop(g, x), S \ {x})
  <1>1. Drop(g, x) \in Links /\ Linked(Drop(g, x), S \ {x})
    BY DropKeepsLinked DEF ListOK
  <1>2. g.next[x] \in S \cup {End} /\ g.prev[x] \in S \cup {Root}
    BY DEF ListOK, Linked
  <1>3. Detached(Drop(g, x), S \ {x})
    BY <1>2, NodesDiffer DEF Drop, Unlink, Detached, ListOK, Links
  <1>4. Readable(Drop(g, x), S \ {x})
    <2>1. PICK s : Reads(g, S, s)
      BY DEF ListOK, Readable
    <2>2. s \in Seq(S) /\ g \in Links /\ Linked(g, S)
      BY <2>1 DEF Reads, ListOK
    <2>3. PICK k \in 1 .. Len(s) : s[k] = x
      BY <2>1, <2>2, LenProperties DEF Reads
    <2> QED
      BY <2>1, <2>2, <2>3, DropReads DEF Readable
  <1> QED
    BY <1>1, <1>3, <1>4 DEF ListOK

LEMMA PromoteKeepsList ==
    ASSUME NEW g, NEW S \in SUBSET Id, NEW x \in Id, ListOK(g, S)
    PROVE  /\ ListOK(Promote(g, x), S \cup {x})
           /\ Promote(g, x).prev[End] \in S \cup {x}
  <1> DEFINE h == Promote(g, x)
  <1>1. h \in Links /\ Linked(h, S \cup {x}) /\ h.next[Root] = x
    BY PromoteKeepsLinked DEF ListOK, Detached
  <1>2. Readable(h, S \cup {x})
    <2>1. PICK s : Reads(g, S, s)
      BY DEF ListOK, Readable
    <2>2. s \in Seq(S) /\ g \in Links /\ Linked(g, S)
          /\ (x \notin S => g.next[x] = Null /\ g.prev[x] = Null)
      BY <2>1 DEF Reads, ListOK, Detached
    <2> QED
      BY <2>1, <2>2, PromoteReads DEF Readable
  <1>3. Detached(h, S \cup {x})
    <2> SUFFICES ASSUME NEW c \in Id \ (S \cup {x})
                 PROVE  h.next[c] = Null /\ h.prev[c] = Null
      BY DEF Detached
    <2> DEFINE u == Unlink(g, x)
    <2>1. u \in Links
      BY UnlinkTyped DEF ListOK
    <2>2. /\ x \in S => g.next[x] \in S \cup {End} /\ g.prev[x] \in S \cup {Root}
          /\ x \notin S => g.next[x] = Null /\ g.prev[x] = Null
          /\ g.next[c] = Null /\ g.prev[c] = Null
          /\ g.next[Root] \in S \cup {End}
      BY DEF ListOK, Linked, Detached
    <2>3. u.next[c] = Null /\ u.prev[c] = Null /\ u.next[Root] \in S \cup {End}
      BY <2>2, NodesDiffer DEF Unlink, ListOK, Links
    <2> HIDE DEF u
    <2>4. h = [next |-> [u.next EXCEPT ![x] = u.next[Root], ![Root] = x],
               prev |-> [u.prev EXCEPT ![x] = Root, ![u.next[Root]] = x]]
      BY DEF Promote, u
    <2> QED
      BY <2>1, <2>3, <2>4, NodesDiffer DEF Links
  <1>4. h.prev[End] \in S \cup {x}
    BY <1>1, NodesDiffer DEF Linked
  <1> QED
    BY <1>1, <1>2, <1>3, <1>4 DEF ListOK

LEMMA EntriesFinite ==
    ASSUME NEW S \in SUBSET Id
    PROVE  IsFiniteSet(S) /\ Cardinality(S) \in Nat
  BY IdsFinite, FS_Union, FS_Subset, FS_CardinalityType DEF Id

LEMMA ErasePathKeepsTable ==
    ASSUME TableInv, NEW x \in entries, ErasePath(x)
    PROVE  TableInv'
  <1>1. /\ entries' = entries \ {x} /\ links' = Drop(links, x)
        /\ via' = [via EXCEPT ![x] = Null] /\ entries \subseteq Id
    BY DEF ErasePath, TableInv, PathTyped
  <1>2. ListOK(links, entries)'
    BY <1>1, DropKeepsList DEF TableInv
  <1>3. PathTyped'
    BY <1>1, <1>2 DEF PathTyped, ListOK, TableInv
  <1>4. WithinLimit'
    <2>1. Cardinality(entries \ {x}) = Cardinality(entries) - 1 /\ Cardinality(entries) \in Nat
      BY <1>1, EntriesFinite, FS_RemoveElement
    <2> QED
      BY <1>1, <2>1, LimitNotZero DEF WithinLimit, TableInv
  <1>5. (\A c \in entries' : via'[c] \in Bridge) /\ (\A c \in Id \ entries' : via'[c] = Null)
    BY <1>1 DEF TableInv, PathTyped
  <1> QED
    BY <1>2, <1>3, <1>4, <1>5 DEF TableInv

LEMMA StorePathKeepsTable ==
    ASSUME TableInv, NEW c \in Id, NEW b \in Bridge, StorePath(c, b)
    PROVE  TableInv'
  <1> DEFINE g == Promote(links, c)
             S == entries \cup {c}
             victim == g.prev[End]
  <1>0. entries \in SUBSET Id /\ S \in SUBSET Id
    BY DEF TableInv, PathTyped
  <1>1. ListOK(g, S) /\ victim \in S
    BY <1>0, PromoteKeepsList DEF TableInv
  <1>2. /\ Cardinality(S) \in Nat /\ Cardinality(S) <= Limit + 1
        /\ Cardinality(S \ {victim}) = Cardinality(S) - 1
    <2>1. Cardinality(S) <= Cardinality(entries) + 1
      <3>1. CASE c \in entries
        <4>1. S = entries
          BY <3>1
        <4> QED
          BY <1>0, <4>1, EntriesFinite
      <3>2. CASE c \notin entries
        BY <1>0, <3>2, EntriesFinite, FS_AddElement
      <3> QED
        BY <3>1, <3>2
    <2>2. Cardinality(S \ {victim}) = Cardinality(S) - 1
      <3>1. IsFiniteSet(S) /\ victim \in S
        BY <1>0, <1>1, EntriesFinite
      <3> HIDE DEF S, victim
      <3> QED
        BY <3>1, FS_RemoveElement
    <2> QED
      BY <1>0, <2>1, <2>2, EntriesFinite, LimitNotZero DEF TableInv, WithinLimit
  <1>3. CASE Cardinality(S) > Limit
    <2>1. /\ entries' = S \ {victim} /\ links' = Drop(g, victim)
          /\ via' = [via EXCEPT ![c] = b, ![victim] = Null]
      BY <1>3 DEF StorePath
    <2>2. ListOK(links, entries)'
      BY <1>0, <1>1, <2>1, DropKeepsList
    <2>3. PathTyped'
      BY <1>0, <2>1, <2>2 DEF PathTyped, ListOK, TableInv
    <2>4. (\A d \in entries' : via'[d] \in Bridge) /\ (\A d \in Id \ entries' : via'[d] = Null)
      BY <1>0, <2>1 DEF TableInv, PathTyped
    <2>5. WithinLimit'
      <3>1. Cardinality(entries') = Cardinality(S) - 1
        BY <1>2, <2>1
      <3> QED
        BY <1>2, <3>1, LimitNotZero DEF WithinLimit
    <2> QED
      BY <2>2, <2>3, <2>4, <2>5 DEF TableInv
  <1>4. CASE ~(Cardinality(S) > Limit)
    <2>1. entries' = S /\ links' = g /\ via' = [via EXCEPT ![c] = b]
      BY <1>4 DEF StorePath
    <2>2. ListOK(links, entries)'
      BY <1>1, <2>1
    <2>3. PathTyped'
      BY <1>0, <2>1, <2>2 DEF PathTyped, ListOK, TableInv
    <2>4. (\A d \in entries' : via'[d] \in Bridge) /\ (\A d \in Id \ entries' : via'[d] = Null)
      BY <1>0, <2>1 DEF TableInv, PathTyped
    <2> QED
      BY <1>2, <1>4, <2>1, <2>2, <2>3, <2>4, LimitNotZero DEF TableInv, WithinLimit
  <1> QED
    BY <1>3, <1>4

\* The items from the front to the cursor of the loop of remove_listener() are
\* no paths to the bridge that leaves.
Scanned(s, k) ==
    /\ Reads(links, entries, s) /\ k \in 1 .. Len(s) + 1
    /\ cursor = IF k = Len(s) + 1 THEN End ELSE s[k]
    /\ \A i \in 1 .. k - 1 : via[s[i]] # leaving
ScanInv == leaving # Null => leaving \in alive /\ \E s, k : Scanned(s, k)

RouteInv == MailTyped /\ SendTyped /\ TableInv /\ ScanTyped /\ ScanInv /\ NoDanglingPath

LEMMA InitRoute == Init => RouteInv
  <1> SUFFICES ASSUME Init PROVE RouteInv
    OBVIOUS
  <1>1. MailTyped /\ ScanInv /\ ScanTyped /\ NoDanglingPath
    BY DEF Init, MailTyped, ScanTyped, ScanInv, NoDanglingPath
  <1>2. SendTyped
    BY SendsNat DEF Init, SendTyped
  <1>3. links \in Links /\ PathTyped
    BY NodesDiffer DEF Init, Links, PathTyped
  <1>4. Linked(links, entries) /\ Detached(links, entries)
    BY NodesDiffer DEF Init, Linked, Detached
  <1>5. Readable(links, entries)
    <2>1. Reads(links, entries, <<>>)
      BY NodesDiffer, EmptySeq DEF Init, Reads
    <2> QED
      BY <2>1 DEF Readable
  <1>6. WithinLimit
    BY FS_EmptySet, LimitNotZero DEF Init, WithinLimit
  <1> QED
    BY <1>1, <1>2, <1>3, <1>4, <1>5, <1>6 DEF RouteInv, TableInv, ListOK, Init

LEMMA MailKept == RouteInv /\ [Next]_vars => MailTyped'
  BY DEF RouteInv, MailTyped, Next, OpenMailbox, CloseMailbox, NoteSender, Forward, SendMessage,
     ClearReturnPath, BridgeLeaves, ScanPath, ScanEnd, mailVars, vars

LEMMA SendOverTyped ==
    ASSUME SendTyped, NEW b \in Bridge \cup {Null}, b # Null, NEW s \in Sender, NEW r \in Id,
           SendOver(b, s, r)
    PROVE  sent' \subseteq Sender \X Id \X Bridge /\ untold' = untold /\ sends' \in 0..MaxSends
  BY SendsNat DEF SendOver, SendTyped

LEMMA SendKept == RouteInv /\ [Next]_vars => SendTyped'
  <1> SUFFICES ASSUME RouteInv, [Next]_vars
               PROVE  SendTyped'
    OBVIOUS
  <1> USE DEF RouteInv
  <1>1. ASSUME NEW t \in Thread, NEW b \in Bridge, NEW s \in RemoteId \cup used \cup {Null},
               NEW r \in Id, NoteSender(t, b, s, r)
        PROVE  SendTyped'
    <2>1. [from |-> b, sender |-> s, to |-> r] \in [from: Bridge, sender: Sender, to: Id]
      BY DEF MailTyped, Id, Sender
    <2> QED
      BY <1>1, <2>1 DEF NoteSender, SendTyped, sentVars
  <1>2. ASSUME NEW t \in Thread, Forward(t)
        PROVE  SendTyped'
    <2>1. msg[t] \in [from: Bridge, sender: Sender, to: Id]
      BY <1>2 DEF Forward, SendTyped
    <2>2. msg' \in [Thread -> [from: Bridge, sender: Sender, to: Id] \cup {NoMsg}]
      BY <1>2 DEF Forward, SendTyped
    <2>3. CASE UNCHANGED sentVars
      BY <2>2, <2>3 DEF SendTyped, sentVars
    <2>4. CASE msg[t].to \in entries /\ SendOver(via[msg[t].to], msg[t].sender, msg[t].to)
      <3>1. via[msg[t].to] \in Bridge
        BY <2>4 DEF TableInv
      <3>2. /\ SendTyped /\ via[msg[t].to] \in Bridge \cup {Null} /\ via[msg[t].to] # Null
            /\ msg[t].sender \in Sender /\ msg[t].to \in Id
        BY <2>1, <3>1, NodesDiffer
      <3>3. sent' \subseteq Sender \X Id \X Bridge /\ untold' = untold /\ sends' \in 0..MaxSends
        BY <2>4, <3>2, SendOverTyped
      <3> QED
        BY <2>2, <3>3 DEF SendTyped
    <2> QED
      BY <1>2, <2>3, <2>4 DEF Forward
  <1>3. ASSUME NEW s \in LocalId, NEW r \in Id, SendMessage(s, r)
        PROVE  SendTyped'
    <2>1. via[r] \in Bridge /\ s \in Sender /\ SendOver(via[r], s, r) /\ msg' = msg
      BY <1>3 DEF SendMessage, TableInv, Id, Sender
    <2>2. SendTyped /\ via[r] \in Bridge \cup {Null} /\ via[r] # Null /\ s \in Sender
      BY <2>1, NodesDiffer
    <2>3. sent' \subseteq Sender \X Id \X Bridge /\ untold' = untold /\ sends' \in 0..MaxSends
      BY <2>1, <2>2, SendOverTyped
    <2> QED
      BY <2>1, <2>3 DEF SendTyped
  <1>4. ASSUME NEW b \in Bridge, NEW s \in Sender, NEW r \in Id, ClearReturnPath(b, s, r)
        PROVE  SendTyped'
    <2>1. s \in mail => <<s, r>> \in Id \X Id
      BY DEF MailTyped, Id
    <2> QED
      BY <1>4, <2>1 DEF ClearReturnPath, SendTyped
  <1>5. CASE \/ \E a \in LocalId : OpenMailbox(a) \/ CloseMailbox(a)
             \/ \E b \in Bridge : BridgeLeaves(b)
             \/ ScanPath \/ ScanEnd \/ UNCHANGED vars
    BY <1>5 DEF OpenMailbox, CloseMailbox, BridgeLeaves, ScanPath, ScanEnd, vars, sentVars, SendTyped
  <1> QED
    BY <1>1, <1>2, <1>3, <1>4, <1>5 DEF Next

LEMMA FrameKeepsTable ==
    ASSUME TableInv, UNCHANGED pathVars
    PROVE  TableInv'
  BY DEF TableInv, PathTyped, WithinLimit, pathVars

LEMMA NextKeepsRoute == RouteInv /\ [Next]_vars => RouteInv'
  <1> SUFFICES ASSUME RouteInv, [Next]_vars
               PROVE  TableInv' /\ ScanTyped' /\ ScanInv' /\ NoDanglingPath'
    BY MailKept, SendKept DEF RouteInv
  <1> USE DEF RouteInv
  <1>1. ASSUME NEW t \in Thread, NEW b \in Bridge, NEW s \in RemoteId \cup used \cup {Null},
               NEW r \in Id, NoteSender(t, b, s, r)
        PROVE  TableInv' /\ ScanTyped' /\ ScanInv' /\ NoDanglingPath'
    <2>1. ScanInv' /\ ScanTyped'
      BY <1>1 DEF NoteSender, MutexFree, ScanInv, ScanTyped, scanVars
    <2>2. CASE s = Null \/ s \in mail
      <3>1. NoDanglingPath'
        BY <1>1, <2>2 DEF NoteSender, NoDanglingPath, pathVars
      <3> QED
        BY <1>1, <2>1, <2>2, <3>1, FrameKeepsTable DEF NoteSender
    <2>3. CASE ~(s = Null \/ s \in mail)
      <3>1. StorePath(s, b) /\ s \in Id /\ b \in alive /\ alive' = alive
        BY <1>1, <2>3 DEF NoteSender, MailTyped, Id
      <3>2. TableInv'
        BY <3>1, StorePathKeepsTable
      <3>3. NoDanglingPath'
        <4>1. \A d \in entries' : d = s \/ (d \in entries /\ via'[d] = via[d])
          BY <3>1 DEF StorePath, TableInv, PathTyped
        <4>2. s \in entries' => via'[s] = b
          BY <3>1 DEF StorePath, TableInv, PathTyped
        <4> QED
          BY <3>1, <4>1, <4>2 DEF NoDanglingPath
      <3> QED
        BY <2>1, <3>2, <3>3
    <2> QED
      BY <2>2, <2>3
  <1>2. ASSUME NEW b \in Bridge, NEW s \in Sender, NEW r \in Id, ClearReturnPath(b, s, r)
        PROVE  TableInv' /\ ScanTyped' /\ ScanInv' /\ NoDanglingPath'
    <2>1. ScanInv' /\ ScanTyped'
      BY <1>2 DEF ClearReturnPath, MutexFree, ScanInv, ScanTyped, scanVars
    <2>2. TableInv'
      BY <1>2, FrameKeepsTable, ErasePathKeepsTable DEF ClearReturnPath, pathVars
    <2>3. NoDanglingPath'
      BY <1>2 DEF ClearReturnPath, ErasePath, NoDanglingPath, TableInv, PathTyped, pathVars
    <2> QED
      BY <2>1, <2>2, <2>3
  <1>3. ASSUME NEW b \in Bridge, BridgeLeaves(b)
        PROVE  TableInv' /\ ScanTyped' /\ ScanInv' /\ NoDanglingPath'
    <2>1. links.next[Root] \in entries \cup {End} /\ entries \subseteq Id
      BY DEF TableInv, ListOK, Linked, PathTyped
    <2>2. /\ leaving' = b /\ b \in alive /\ cursor' = links.next[Root] /\ alive' = alive
          /\ UNCHANGED pathVars /\ entries' = entries /\ links' = links /\ via' = via
      BY <1>3 DEF BridgeLeaves, pathVars
    <2>3. PICK s : Reads(links, entries, s)
      BY DEF TableInv, ListOK, Readable
    <2>4. Scanned(s, 1)'
      <3>1. s \in Seq(entries) /\ Len(s) \in Nat /\ (s = <<>> <=> Len(s) = 0)
        BY <2>3, EmptySeq, LenProperties DEF Reads
      <3>2. links.next[Root] = IF Len(s) = 0 THEN End ELSE s[1]
        BY <2>3, <3>1 DEF Reads
      <3>3. 1 \in 1 .. Len(s) + 1 /\ (1 = Len(s) + 1 <=> Len(s) = 0)
        BY <3>1
      <3> QED
        BY <2>2, <2>3, <3>2, <3>3 DEF Scanned
    <2> QED
      BY <2>1, <2>2, <2>4, FrameKeepsTable DEF ScanInv, ScanTyped, NoDanglingPath
  <1>4. CASE ScanPath
    <2>1. /\ leaving # Null /\ leaving' = leaving /\ leaving \in alive /\ alive' = alive
          /\ cursor # End /\ cursor' = links.next[cursor] /\ entries \subseteq Id
      BY <1>4 DEF ScanPath, MutexFree, ScanInv, TableInv, PathTyped, After
    <2>2. PICK s, k : Scanned(s, k)
      BY <2>1 DEF ScanInv
    <2>3. /\ s \in Seq(entries) /\ Reads(links, entries, s) /\ k \in 1 .. Len(s)
          /\ Len(s) \in Nat /\ cursor = s[k] /\ cursor \in entries
          /\ \A i \in 1 .. k - 1 : via[s[i]] # leaving
      <3>1. s \in Seq(entries) /\ Reads(links, entries, s) /\ Len(s) \in Nat
        BY <2>2, LenProperties DEF Scanned, Reads
      <3>2. k \in 1 .. Len(s) + 1 /\ k # Len(s) + 1 /\ cursor = s[k]
        BY <2>1, <2>2 DEF Scanned
      <3>3. k \in 1 .. Len(s)
        BY <3>1, <3>2
      <3> QED
        BY <2>2, <3>1, <3>2, <3>3, ElementOfSeq DEF Scanned
    <2>4. cursor' = IF k = Len(s) THEN End ELSE s[k + 1]
      BY <2>1, <2>3, LenProperties DEF Reads
    <2>5. TableInv'
      BY <1>4, <2>3, FrameKeepsTable, ErasePathKeepsTable DEF ScanPath
    <2>6. NoDanglingPath'
      BY <1>4, <2>1 DEF ScanPath, ErasePath, NoDanglingPath, TableInv, PathTyped, pathVars
    <2>7. ScanTyped'
      <3>1. cursor' \in entries \cup {End}
        <4>1. k # Len(s) => k + 1 \in 1 .. Len(s)
          BY <2>3
        <4> QED
          BY <2>3, <2>4, <4>1, ElementOfSeq
      <3> QED
        BY <2>1, <3>1 DEF ScanTyped
    <2>8. CASE via[cursor] # leaving
      <3>1. UNCHANGED pathVars
        BY <1>4, <2>8 DEF ScanPath
      <3>2. k + 1 \in 1 .. Len(s) + 1 /\ (k + 1 = Len(s) + 1 <=> k = Len(s))
            /\ \A i \in 1 .. (k + 1) - 1 : i = k \/ i \in 1 .. k - 1
        BY <2>3
      <3>3. Scanned(s, k + 1)'
        BY <2>1, <2>3, <2>4, <2>8, <3>1, <3>2 DEF Scanned, pathVars
      <3> QED
        BY <2>1, <2>5, <2>6, <2>7, <3>3 DEF ScanInv
    <2>9. CASE via[cursor] = leaving
      <3> DEFINE r == RemoveAt(s, k)
      <3>1. /\ entries' = entries \ {s[k]} /\ links' = Drop(links, s[k])
            /\ via' = [via EXCEPT ![s[k]] = Null]
        BY <1>4, <2>3, <2>9 DEF ScanPath, ErasePath
      <3>2. Reads(links', entries', r)
        BY <2>3, <3>1, DropReads DEF TableInv, PathTyped, ListOK
      <3>3. /\ Len(r) = Len(s) - 1
            /\ \A i \in 1 .. Len(s) - 1 : r[i] = IF i < k THEN s[i] ELSE s[i + 1]
        BY <2>3, RemoveAtProperties
      <3> HIDE DEF r
      <3>4. k \in 1 .. Len(r) + 1 /\ (k = Len(r) + 1 <=> k = Len(s))
        BY <2>3, <3>3
      <3>5. k # Len(s) => r[k] = s[k + 1]
        BY <2>3, <3>3
      <3>6. \A i \in 1 .. k - 1 : via'[r[i]] # leaving'
        <4> SUFFICES ASSUME NEW i \in 1 .. k - 1
                     PROVE  via'[r[i]] # leaving'
          OBVIOUS
        <4>1. i \in 1 .. Len(s) - 1 /\ i \in 1 .. Len(s) /\ i < k
          BY <2>3
        <4>2. r[i] = s[i] /\ s[i] \in Id /\ via[s[i]] # leaving
          BY <2>1, <2>3, <3>3, <4>1, ElementOfSeq
        <4> QED
          BY <2>1, <3>1, <4>2 DEF TableInv, PathTyped
      <3>7. Scanned(r, k)'
        BY <2>4, <3>2, <3>4, <3>5, <3>6 DEF Scanned
      <3> QED
        BY <2>1, <2>5, <2>6, <2>7, <3>7 DEF ScanInv
    <2> QED
      BY <2>8, <2>9
  <1>5. CASE ScanEnd
    <2>1. /\ leaving # Null /\ cursor = End /\ leaving' = Null /\ cursor' = Null
          /\ alive' = alive \ {leaving} /\ UNCHANGED pathVars
      BY <1>5 DEF ScanEnd, MutexFree
    <2>2. PICK s, k : Scanned(s, k)
      BY <2>1 DEF ScanInv
    <2>3. /\ s \in Seq(entries) /\ Len(s) \in Nat /\ DOMAIN s = 1 .. Len(s)
          /\ \A i \in 1 .. Len(s) : s[i] \in entries /\ s[i] # End
      BY <2>2, LenProperties, ElementOfSeq, NodesDiffer DEF Scanned, Reads, TableInv, PathTyped
    <2>4. k = Len(s) + 1
      BY <2>1, <2>2, <2>3 DEF Scanned
    <2>5. \A c \in entries : via[c] # leaving
      <3> SUFFICES ASSUME NEW c \in entries
                   PROVE  via[c] # leaving
        OBVIOUS
      <3>1. PICK i \in 1 .. Len(s) : s[i] = c
        BY <2>2, <2>3 DEF Scanned, Reads
      <3>2. i \in 1 .. k - 1
        BY <2>3, <2>4
      <3> QED
        BY <2>2, <3>1, <3>2 DEF Scanned
    <2>6. NoDanglingPath'
      BY <2>1, <2>5 DEF NoDanglingPath, pathVars
    <2> QED
      BY <2>1, <2>6, FrameKeepsTable DEF ScanInv, ScanTyped
  <1>6. CASE \/ \E a \in LocalId : OpenMailbox(a) \/ CloseMailbox(a)
             \/ \E t \in Thread : Forward(t)
             \/ \E s \in LocalId, r \in Id : SendMessage(s, r)
             \/ UNCHANGED vars
    <2>1. UNCHANGED pathVars /\ UNCHANGED scanVars /\ alive' = alive
      BY <1>6 DEF OpenMailbox, CloseMailbox, Forward, SendMessage, vars
    <2> QED
      BY <2>1, FrameKeepsTable
         DEF ScanInv, Scanned, ScanTyped, NoDanglingPath, scanVars, pathVars
  <1> QED
    BY <1>1, <1>2, <1>3, <1>4, <1>5, <1>6 DEF Next

THEOREM TypeCorrect == Spec => []TypeOK
  <1>1. RouteInv => TypeOK
    BY DEF RouteInv, TableInv, TypeOK
  <1> QED
    BY <1>1, InitRoute, NextKeepsRoute, PTL DEF Spec

\* However paths are learnt, refreshed, evicted, cleared and scanned, the two
\* directions of the list agree and its nodes are the items in the map.
THEOREM ListNeverBroken == Spec => []LinksConsistent
  <1>1. RouteInv => LinksConsistent
    BY DEF RouteInv, TableInv, ListOK, LinksConsistent
  <1> QED
    BY <1>1, InitRoute, NextKeepsRoute, PTL DEF Spec

\* The table never holds more paths than the limit: the victim _last names is
\* an item of the map whenever one has to go.
THEOREM TableBounded == Spec => []WithinLimit
  <1>1. RouteInv => WithinLimit
    BY DEF RouteInv, TableInv
  <1> QED
    BY <1>1, InitRoute, NextKeepsRoute, PTL DEF Spec

\* However a bridge's destructor interleaves with messages and reports, and
\* though its loop erases the nodes it stands on: no path leads to a bridge that
\* does not exist.
THEOREM NoPathDangles == Spec => []NoDanglingPath
  <1>1. RouteInv => NoDanglingPath
    BY DEF RouteInv
  <1> QED
    BY <1>1, InitRoute, NextKeepsRoute, PTL DEF Spec

-----------------------------------------------------------------------------
(* How a path is lost.                                                     *)

LEMMA EvictsTheLast ==
    ASSUME TableInv, NEW c \in Id, NEW b \in Bridge, StorePath(c, b),
           NEW d \in entries \ entries'
    PROVE  Cardinality(entries) = Limit /\ links.next[d] = End
  <1> DEFINE g == Promote(links, c)
             u == Unlink(links, c)
             S == entries \cup {c}
  <1>1. Cardinality(S) > Limit /\ d = g.prev[End]
    BY DEF StorePath
  <1>2. entries \in SUBSET Id /\ Cardinality(entries) \in Nat /\ Cardinality(entries) <= Limit
    BY EntriesFinite DEF TableInv, PathTyped, WithinLimit
  <1>3. c \notin entries
    <2> SUFFICES ASSUME c \in entries
                 PROVE  FALSE
      OBVIOUS
    <2>1. S = entries
      OBVIOUS
    <2> QED
      BY <1>1, <1>2, <2>1, LimitNotZero
  <1>4. Cardinality(entries) = Limit
    <2>1. Cardinality(S) = Cardinality(entries) + 1
      BY <1>2, <1>3, EntriesFinite, FS_AddElement
    <2> QED
      BY <1>1, <1>2, <2>1, LimitNotZero
  <1>5. u = links
    <2>1. u = [next |-> links.next, prev |-> links.prev]
      BY <1>3 DEF Unlink, TableInv, ListOK, Detached
    <2> QED
      BY <2>1 DEF TableInv, ListOK, Links
  <1>6. g.next = [links.next EXCEPT ![c] = links.next[Root], ![Root] = c]
    BY <1>5 DEF Promote
  <1>7. Linked(g, S) /\ g \in Links /\ g.next[Root] = c
    BY <1>2, PromoteKeepsLinked DEF TableInv, ListOK, Detached
  <1>8. g.next[d] = End
    BY <1>1, <1>7, NodesDiffer DEF Linked
  <1>9. links.next[d] = g.next[d]
    BY <1>2, <1>3, <1>6, NodesDiffer DEF TableInv, ListOK, Links
  <1> QED
    BY <1>4, <1>8, <1>9

\* A path is lost only to a newer one in a full table, to its bridge going away,
\* or to a report of that bridge about a message that was sent over it.
THEOREM LossesJustified == Spec => PathLossJustified
  <1>1. ASSUME RouteInv, [Next]_vars, NEW c \in entries \ entries'
        PROVE  \/ Cardinality(entries) = Limit /\ links.next[c] = End /\ MutexFree
               \/ leaving = via[c]
               \/ \E s \in Sender : <<s, c, via[c]>> \in sent
    <2>1. ASSUME NEW t \in Thread, NEW b \in Bridge, NEW s \in RemoteId \cup used \cup {Null},
                 NEW r \in Id, NoteSender(t, b, s, r)
          PROVE  Cardinality(entries) = Limit /\ links.next[c] = End /\ MutexFree
      <3>1. MutexFree /\ StorePath(s, b) /\ s \in Id
        BY <1>1, <2>1 DEF NoteSender, pathVars, RouteInv, MailTyped, Id
      <3> QED
        BY <1>1, <3>1, EvictsTheLast DEF RouteInv
    <2>2. ASSUME NEW b \in Bridge, NEW s \in Sender, NEW r \in Id, ClearReturnPath(b, s, r)
          PROVE  <<s, c, via[c]>> \in sent
      BY <1>1, <2>2 DEF ClearReturnPath, ErasePath, OwnPath, pathVars
    <2>3. CASE ScanPath
      BY <1>1, <2>3 DEF ScanPath, ErasePath, pathVars
    <2>4. CASE \/ \E a \in LocalId : OpenMailbox(a) \/ CloseMailbox(a)
               \/ \E t \in Thread : Forward(t)
               \/ \E s \in LocalId, r \in Id : SendMessage(s, r)
               \/ \E b \in Bridge : BridgeLeaves(b)
               \/ ScanEnd \/ UNCHANGED vars
      <3>1. entries' = entries
        BY <2>4 DEF OpenMailbox, CloseMailbox, Forward, SendMessage, BridgeLeaves, ScanEnd,
                    vars, pathVars
      <3> QED
        BY <1>1, <3>1
    <2> QED
      BY <1>1, <2>1, <2>2, <2>3, <2>4 DEF Next
  <1>2. RouteInv /\ [Next]_vars =>
          [\A c \in entries \ entries' :
             \/ Cardinality(entries) = Limit /\ links.next[c] = End /\ MutexFree
             \/ leaving = via[c]
             \/ \E s \in Sender : <<s, c, via[c]>> \in sent]_vars
    BY <1>1
  <1> QED
    BY <1>2, InitRoute, NextKeepsRoute, PTL DEF Spec, PathLossJustified

-----------------------------------------------------------------------------
(* A list has one reading.                                                 *)

LEMMA LeastNatural ==
    ASSUME NEW T \in SUBSET Nat, T # {}
    PROVE  \E m \in T : \A k \in T : m <= k
  <1> DEFINE R == {ss \in Nat \X Nat : ss[1] < ss[2]}
  <1>1. IsWellFoundedOn(R, Nat)
    BY NatLessThanWellFounded DEF OpToRel
  <1>2. \E x \in T : \A y \in T : ~ (<<y, x>> \in R)
    <2> HIDE DEF R
    <2> QED
      BY <1>1, WFMin
  <1>3. \A x, y \in T : ~ (<<y, x>> \in R) => x <= y
    <2> TAKE x, y \in T
    <2>1. x \in Nat /\ y \in Nat
      OBVIOUS
    <2>2. y < x => <<y, x>> \in R
      BY <2>1
    <2> HIDE DEF R
    <2>3. y < x \/ x <= y
      BY <2>1
    <2> QED
      BY <2>2, <2>3
  <1> HIDE DEF R
  <1> QED
    BY <1>2, <1>3

LEMMA ReadingLength ==
    ASSUME NEW g, NEW S \in SUBSET Id, NEW s, Reads(g, S, s)
    PROVE  /\ s \in Seq(S) /\ Len(s) = Cardinality(S) /\ Len(s) \in Nat
           /\ DOMAIN s = 1 .. Len(s)
           /\ s \in [1 .. Cardinality(S) -> S]
  <1>1. s \in Seq(S) /\ DOMAIN s = 1 .. Len(s) /\ Len(s) \in Nat /\ s \in [1 .. Len(s) -> S]
    BY LenProperties DEF Reads
  <1>2. s \in Bijection(1 .. Len(s), S)
    BY <1>1 DEF Reads, Bijection, Injection, Surjection, IsInjective
  <1>3. Cardinality(S) = Len(s)
    BY <1>1, <1>2, FS_CountingElements DEF ExistsBijection
  <1> QED
    BY <1>1, <1>3

LEMMA OneReading ==
    ASSUME NEW g, NEW S \in SUBSET Id, NEW s, NEW t, Reads(g, S, s), Reads(g, S, t)
    PROVE  s = t
  <1> DEFINE n == Len(s)
             D == {i \in 1 .. n : s[i] # t[i]}
  <1>1. /\ s \in Seq(S) /\ t \in Seq(S) /\ n \in Nat /\ Len(t) = n
        /\ DOMAIN s = 1 .. n /\ DOMAIN t = 1 .. n
    BY ReadingLength
  <1>2. SUFFICES ASSUME D # {} PROVE FALSE
    BY <1>1, <1>2, SeqEqual
  <1> HIDE DEF n
  <1>3. D \in SUBSET Nat
    BY <1>1
  <1>4. PICK m \in D : \A k \in D : m <= k
    <2> HIDE DEF D
    <2> QED
      BY <1>2, <1>3, LeastNatural
  <1>5. m \in 1 .. n /\ s[m] # t[m]
    BY <1>4
  <1>6. CASE m = 1
    <2>1. s # <<>> /\ t # <<>>
      BY <1>1, <1>5, EmptySeq DEF n
    <2>2. s[1] = g.next[Root] /\ t[1] = g.next[Root]
      BY <2>1 DEF Reads
    <2> QED
      BY <1>5, <1>6, <2>2
  <1>7. CASE m # 1
    <2>1. m - 1 \in 1 .. n /\ m - 1 # n /\ (m - 1) + 1 = m /\ ~(m <= m - 1)
      BY <1>1, <1>5, <1>7
    <2>2. s[m - 1] = t[m - 1]
      BY <1>4, <2>1
    <2>3. /\ \A i \in 1 .. n : g.next[s[i]] = IF i = n THEN End ELSE s[i + 1]
          /\ \A i \in 1 .. n : g.next[t[i]] = IF i = n THEN End ELSE t[i + 1]
      BY <1>1 DEF Reads, n
    <2>4. g.next[s[m - 1]] = s[m] /\ g.next[t[m - 1]] = t[m]
      BY <2>1, <2>3
    <2> QED
      BY <1>5, <2>2, <2>4
  <1> QED
    BY <1>6, <1>7

LEMMA TheReading ==
    ASSUME NEW g, NEW S \in SUBSET Id, NEW s, Reads(g, S, s)
    PROVE  (CHOOSE z \in [1 .. Cardinality(S) -> S] : Reads(g, S, z)) = s
  <1> DEFINE z == CHOOSE z \in [1 .. Cardinality(S) -> S] : Reads(g, S, z)
  <1>1. s \in [1 .. Cardinality(S) -> S]
    BY ReadingLength
  <1>2. Reads(g, S, z)
    BY <1>1
  <1> HIDE DEF z
  <1>3. z = s
    BY <1>2, OneReading
  <1> QED
    BY <1>3 DEF z

LEMMA OrderRead ==
    ASSUME TableInv
    PROVE  /\ Reads(links, entries, ListOrder)
           /\ ListOrder \in Seq(entries) /\ Len(ListOrder) = Cardinality(entries)
           /\ Len(ListOrder) \in Nat /\ DOMAIN ListOrder = 1 .. Len(ListOrder)
           /\ Table!Known = entries
  <1>1. PICK s : Reads(links, entries, s)
    BY DEF TableInv, ListOK, Readable
  <1>2. entries \in SUBSET Id
    BY DEF TableInv, PathTyped
  <1>3. ListOrder = s
    BY <1>1, <1>2, TheReading DEF ListOrder
  <1>4. /\ s \in Seq(entries) /\ Len(s) = Cardinality(entries)
        /\ Len(s) \in Nat /\ DOMAIN s = 1 .. Len(s)
    BY <1>1, <1>2, ReadingLength
  <1>5. {s[i] : i \in DOMAIN s} = entries
    BY <1>1, <1>4, ElementOfSeq DEF Reads
  <1> QED
    BY <1>1, <1>3, <1>4, <1>5 DEF Table!Known

-----------------------------------------------------------------------------
(* Every step of the table is a step of the abstract one.                  *)

LEMMA RemoveFirstIsTables ==
    ASSUME NEW s, NEW x
    PROVE  Table!RemoveFirst(s, x) = RemoveFirst(s, x)
  BY DEF Table!RemoveFirst, RemoveFirst, Table!RemoveAt, RemoveAt,
         Table!SelectInSeq, SelectInSeq, Table!Min, Min

\* An item erased is a path forgotten.
LEMMA EraseForgets ==
    ASSUME TableInv, NEW x \in entries, ErasePath(x)
    PROVE  Table!Forget(x)
  <1> DEFINE s == ListOrder
  <1>1. /\ Reads(links, entries, s) /\ s \in Seq(entries) /\ DOMAIN s = 1 .. Len(s)
        /\ Table!Known = entries
    BY OrderRead
  <1> HIDE DEF s
  <1>2. PICK k \in 1 .. Len(s) : s[k] = x
    BY <1>1 DEF Reads
  <1>3. RemoveFirst(s, x) = RemoveAt(s, k)
    BY <1>1, <1>2, RemoveFirstPlace DEF Reads
  <1>4. links' = Drop(links, x) /\ entries' = entries \ {x} /\ via' = [via EXCEPT ![x] = Null]
        /\ entries \in SUBSET Id
    BY DEF ErasePath, TableInv, PathTyped
  <1>5. Reads(links', entries', RemoveFirst(s, x))
    BY <1>1, <1>2, <1>3, <1>4, DropReads DEF TableInv, ListOK
  <1>6. ListOrder' = RemoveFirst(s, x)
    <2>1. entries' \in SUBSET Id
      BY <1>4
    <2> QED
      BY <1>5, <2>1, TheReading DEF ListOrder
  <1> QED
    BY <1>1, <1>4, <1>6, RemoveFirstIsTables DEF Table!Forget, s

\* A path stored is a path learnt, and the one evicted is the one at the end.
LEMMA StoreLearns ==
    ASSUME TableInv, NEW c \in Id, NEW b \in Bridge, StorePath(c, b)
    PROVE  Table!Learn(c, b)
  <1> DEFINE o == ListOrder
             g == Promote(links, c)
             S == entries \cup {c}
             victim == g.prev[End]
             q == <<c>> \o RemoveFirst(o, c)
             Cut(m) == SubSeq(q, 1, m)
  <1>1. entries \in SUBSET Id /\ S \in SUBSET Id /\ ListOK(links, entries)
    BY DEF TableInv, PathTyped
  <1>2. Reads(g, S, q)
    <2>1. Reads(links, entries, o) /\ o \in Seq(entries)
      BY OrderRead
    <2> HIDE DEF o
    <2> QED
      BY <1>1, <2>1, PromoteReads DEF ListOK, Detached
  <1>3. /\ ListOK(g, S) /\ victim \in S
    BY <1>1, PromoteKeepsList
  <1>4. Table!Promoted(c) = Cut(IF Len(q) > Limit THEN Limit ELSE Len(q))
    BY RemoveFirstIsTables DEF Table!Promoted
  <1> HIDE DEF q, o
  <1>5. /\ q \in Seq(S) /\ Len(q) = Cardinality(S) /\ Len(q) \in Nat /\ DOMAIN q = 1 .. Len(q)
    BY <1>1, <1>2, ReadingLength
  <1>6. TableInv'
    BY StorePathKeepsTable
  <1>7. ListOrder' = Table!Promoted(c) /\ Reads(links', entries', ListOrder')
    <2>1. CASE Cardinality(S) > Limit
      <3>1. entries' = S \ {victim} /\ links' = Drop(g, victim)
        BY <2>1 DEF StorePath
      <3>2. Len(q) \in 1 .. Len(q) /\ Len(q) = Limit + 1
        <4>1. Cardinality(S) <= Limit + 1
          <5>1. Cardinality(S) <= Cardinality(entries) + 1 /\ Cardinality(entries) \in Nat
            BY <1>1, EntriesFinite, FS_AddElement
          <5> QED
            BY <1>5, <5>1, LimitNotZero DEF TableInv, WithinLimit
        <4> QED
          BY <1>5, <2>1, <4>1, LimitNotZero
      <3>3. q[Len(q)] = victim
        <4>1. g.next[victim] = End
          <5>1. g.next[Root] = c
            BY <1>1, PromoteKeepsLinked DEF ListOK, Detached
          <5>2. Linked(g, S)
            BY <1>3 DEF ListOK
          <5> QED
            BY <5>1, <5>2, NodesDiffer DEF Linked
        <4>2. PICK i \in 1 .. Len(q) : q[i] = victim
          BY <1>2, <1>3, <1>5 DEF Reads
        <4>3. i # Len(q) => g.next[victim] = q[i + 1] /\ i + 1 \in 1 .. Len(q)
          <5>1. \A j \in 1 .. Len(q) : g.next[q[j]] = IF j = Len(q) THEN End ELSE q[j + 1]
            BY <1>2, <1>5 DEF Reads
          <5>2. i # Len(q) => i + 1 \in 1 .. Len(q)
            BY <1>5
          <5> QED
            BY <4>2, <5>1, <5>2
        <4>4. \A j \in 1 .. Len(q) : q[j] # End
          BY <1>1, <1>5, ElementOfSeq, NodesDiffer
        <4> QED
          BY <4>1, <4>2, <4>3, <4>4
      <3> DEFINE r == RemoveAt(q, Len(q))
      <3>4. Reads(links', entries', r)
        BY <1>1, <1>2, <1>3, <1>5, <3>1, <3>2, <3>3, DropReads DEF ListOK
      <3>5. r = Cut(Limit)
        <4>1. r = SubSeq(q, 1, Len(q) - 1) \o SubSeq(q, Len(q) + 1, Len(q))
          BY DEF RemoveAt
        <4>2. SubSeq(q, Len(q) + 1, Len(q)) = <<>> /\ Len(q) - 1 = Limit
          BY <1>5, <3>2, SubSeqProperties, EmptySeq, LimitNotZero
        <4>3. Cut(Limit) \in Seq(S)
          BY <1>5, <3>2, SubSeqProperties, LimitNotZero
        <4>4. Cut(Limit) \o <<>> = Cut(Limit)
          BY <4>3, ConcatEmptySeq
        <4> QED
          BY <4>1, <4>2, <4>4
      <3>6. ListOrder' = r
        <4>1. entries' \in SUBSET Id
          BY <1>1, <3>1
        <4> HIDE DEF r
        <4> QED
          BY <3>4, <4>1, TheReading DEF ListOrder
      <3>7. Len(q) > Limit
        BY <1>5, <2>1
      <3> QED
        BY <1>4, <3>4, <3>5, <3>6, <3>7
    <2>2. CASE ~(Cardinality(S) > Limit)
      <3>1. entries' = S /\ links' = g
        BY <2>2 DEF StorePath
      <3>2. ListOrder' = q /\ Reads(links', entries', q)
        <4>1. Reads(links', entries', q) /\ entries' \in SUBSET Id
          BY <1>1, <1>2, <3>1
        <4> QED
          BY <4>1, TheReading DEF ListOrder
      <3>3. Cut(Len(q)) = q
        <4> DEFINE n == Len(q)
                   w == Cut(n)
        <4>1. n \in Nat /\ \A i \in 1 .. n : q[i] \in S
          BY <1>5, ElementOfSeq
        <4> HIDE DEF n
        <4>2. /\ SubSeq(q, 1, n) \in Seq(S) /\ Len(SubSeq(q, 1, n)) = IF 1 <= n THEN n - 1 + 1 ELSE 0
              /\ \A i \in 1 .. n - 1 + 1 : SubSeq(q, 1, n)[i] = q[1 + i - 1]
          BY <4>1, SubSeqProperties
        <4>3. w \in Seq(S) /\ Len(w) = n /\ \A i \in 1 .. n : w[i] = q[i]
          BY <4>1, <4>2
        <4> HIDE DEF w
        <4>4. w = q
          BY <1>5, <4>3, SeqEqual DEF n
        <4> QED
          BY <4>4 DEF w, n
      <3> QED
        BY <1>4, <1>5, <2>2, <3>2, <3>3
    <2> QED
      BY <2>1, <2>2
  <1>8. {ListOrder'[i] : i \in DOMAIN ListOrder'} = entries'
    <2> DEFINE z == ListOrder'
    <2>1. Reads(links', entries', z)
      BY <1>7
    <2>2. entries' \in SUBSET Id
      BY <1>6 DEF TableInv, PathTyped
    <2> HIDE DEF z
    <2>3. z \in Seq(entries') /\ DOMAIN z = 1 .. Len(z)
      BY <2>1, <2>2, ReadingLength
    <2>4. {z[i] : i \in DOMAIN z} = entries'
      BY <2>1, <2>3, ElementOfSeq DEF Reads
    <2> QED
      BY <2>4 DEF z
  <1>9. via' = [d \in Id |-> IF d = c THEN b
                            ELSE IF \E i \in DOMAIN ListOrder' : ListOrder'[i] = d
                                 THEN via[d] ELSE Null]
    <2>1. \A d \in Id : (\E i \in DOMAIN ListOrder' : ListOrder'[i] = d) <=> d \in entries'
      BY <1>8
    <2>2. via' \in [Id -> Bridge \cup {Null}]
      BY <1>6 DEF TableInv, PathTyped
    <2>3. via'[c] = b
      <3>1. CASE Cardinality(S) > Limit
        <4>1. via' = [via EXCEPT ![c] = b, ![victim] = Null]
          BY <3>1 DEF StorePath
        <4>2. 1 \in 1 .. Len(q) /\ Len(q) # 1
          BY <1>5, <3>1, LimitNotZero
        <4>3. q[1] = c /\ g.next[c] = q[1 + 1] /\ 1 + 1 \in 1 .. Len(q)
          <5>1. g.next[Root] = c
            BY <1>1, PromoteKeepsLinked DEF ListOK, Detached
          <5>2. q # <<>>
            BY <1>5, <4>2, EmptySeq
          <5>3. q[1] = c
            BY <1>2, <5>1, <5>2, NodesDiffer DEF Reads
          <5>4. g.next[q[1]] = q[1 + 1]
            BY <1>2, <1>5, <4>2 DEF Reads
          <5>5. 1 + 1 \in 1 .. Len(q)
            BY <1>5, <4>2
          <5> QED
            BY <5>3, <5>4, <5>5
        <4>4. g.next[c] # End
          BY <1>1, <1>5, <4>3, ElementOfSeq, NodesDiffer
        <4>5. g.next[victim] = End
          <5>1. g.next[Root] = c
            BY <1>1, PromoteKeepsLinked DEF ListOK, Detached
          <5> QED
            BY <1>3, <5>1, NodesDiffer DEF ListOK, Linked
        <4>6. victim # c
          BY <4>4, <4>5
        <4> QED
          BY <4>1, <4>6 DEF TableInv, PathTyped
      <3>2. CASE ~(Cardinality(S) > Limit)
        BY <3>2 DEF StorePath, TableInv, PathTyped
      <3> QED
        BY <3>1, <3>2
    <2>4. \A d \in Id \ {c} : via'[d] = IF d \in entries' THEN via[d] ELSE Null
      <3>1. \A d \in Id \ entries' : via'[d] = Null
        BY <1>6 DEF TableInv
      <3>2. \A d \in entries' : d # c => via'[d] = via[d]
        BY DEF StorePath, TableInv, PathTyped
      <3> QED
        BY <1>6, <3>1, <3>2 DEF TableInv, PathTyped
    <2> QED
      BY <2>1, <2>2, <2>3, <2>4
  <1> QED
    BY <1>7, <1>9 DEF Table!Learn

LEMMA InitMaps == Init => Table!Init
  <1> SUFFICES ASSUME Init PROVE Table!Init
    OBVIOUS
  <1>1. TableInv
    BY InitRoute DEF RouteInv
  <1>2. ListOrder \in Seq({}) /\ Len(ListOrder) = 0
    BY <1>1, OrderRead, FS_EmptySet DEF Init
  <1>3. ListOrder = <<>>
    BY <1>2, EmptySeq
  <1> QED
    BY <1>3 DEF Init, Table!Init

LEMMA StepMaps == RouteInv /\ [Next]_vars => [Table!Next]_<<ListOrder, via>>
  <1> SUFFICES ASSUME RouteInv, [Next]_vars
               PROVE  Table!Next \/ UNCHANGED <<ListOrder, via>>
    OBVIOUS
  <1>1. TableInv
    BY DEF RouteInv
  <1>2. ASSUME NEW c \in Id, NEW b \in Bridge, StorePath(c, b)
        PROVE  Table!Next
    BY <1>1, <1>2, StoreLearns DEF Table!Next
  <1>3. ASSUME NEW c \in entries, ErasePath(c)
        PROVE  Table!Next
    <2>1. c \in Id
      BY <1>1 DEF TableInv, PathTyped
    <2> QED
      BY <1>1, <1>3, <2>1, EraseForgets DEF Table!Next
  <1>4. ASSUME UNCHANGED pathVars
        PROVE  UNCHANGED <<ListOrder, via>>
    BY <1>4 DEF pathVars, ListOrder
  <1>5. ASSUME NEW t \in Thread, NEW b \in Bridge, NEW s \in RemoteId \cup used \cup {Null},
               NEW r \in Id, NoteSender(t, b, s, r)
        PROVE  Table!Next \/ UNCHANGED pathVars
    <2>1. s \in Id \cup {Null}
      BY DEF RouteInv, MailTyped, Id
    <2> QED
      BY <1>2, <1>5, <2>1 DEF NoteSender
  <1>6. ASSUME NEW b \in Bridge, NEW s \in Sender, NEW r \in Id, ClearReturnPath(b, s, r)
        PROVE  Table!Next \/ UNCHANGED pathVars
    BY <1>3, <1>6 DEF ClearReturnPath, pathVars
  <1>7. CASE ScanPath
    <2>1. leaving # Null /\ cursor # End
      BY <1>7 DEF ScanPath, MutexFree
    <2>2. via[cursor] = leaving => cursor \in entries
      <3>1. PICK s, k : Scanned(s, k)
        BY <2>1 DEF RouteInv, ScanInv
      <3>2. s \in Seq(entries) /\ k \in 1 .. Len(s) /\ cursor = s[k]
        BY <2>1, <3>1, LenProperties DEF Scanned, Reads
      <3> QED
        BY <3>2, ElementOfSeq
    <2>3. Table!Next \/ UNCHANGED pathVars
      BY <1>3, <1>7, <2>2 DEF ScanPath
    <2> QED
      BY <1>4, <2>3
  <1>8. CASE \/ \E a \in LocalId : OpenMailbox(a) \/ CloseMailbox(a)
             \/ \E t \in Thread : Forward(t)
             \/ \E s \in LocalId, r \in Id : SendMessage(s, r)
             \/ \E b \in Bridge : BridgeLeaves(b)
             \/ ScanEnd \/ UNCHANGED vars
    <2>1. UNCHANGED pathVars
      BY <1>8 DEF OpenMailbox, CloseMailbox, Forward, SendMessage, BridgeLeaves, ScanEnd, vars
    <2> QED
      BY <1>4, <2>1
  <1> QED
    BY <1>4, <1>5, <1>6, <1>7, <1>8 DEF Next

\* The hash map and its intrusive list, with their sentinels and the loop that
\* erases while it walks, are the bounded table that PathCache states: a path
\* learnt becomes the newest, only the one learnt longest ago is evicted, and
\* nothing else reorders or drops one.
THEOREM TableIsPathCache == Spec => IsPathCache
  BY InitMaps, StepMaps, InitRoute, NextKeepsRoute, PTL DEF Spec, IsPathCache, Table!Spec
=============================================================================

------------------------ MODULE PacketSession_proofs ------------------------
(* What interrupted messages cost, for messages of any number of packets and *)
(* any number of faults; and what a run returns after one of them.           *)
EXTENDS PacketSession, SequenceTheorems, TLAPS

Kinds == Requests \union Replies

Packets(kinds) == [kind : kinds, first : BOOLEAN, own : BOOLEAN]

One(b) == IF b THEN 1 ELSE 0

-----------------------------------------------------------------------------
(* What a queue of packets holds, as a reader sees it that takes the packets *)
(* one by one and begins anew with each first packet.  left and kind are     *)
(* what the message it is in still lacks and its kind; lost counts the       *)
(* packets that messages before it never got, failed the failures among the  *)
(* messages it began.                                                        *)
Places == [left : Nat, kind : Kinds \union {"none"}, lost : Nat, failed : Nat]

After(a, p) ==
    [left   |-> IF p.first THEN Length[p.kind] - 1 ELSE a.left - 1,
     kind   |-> p.kind,
     lost   |-> a.lost + IF p.first THEN a.left ELSE 0,
     failed |-> a.failed + One(p.first /\ p.kind = "failure")]

(* A packet that continues nothing never comes; where every message is       *)
(* whole, neither does a first packet before its time.                       *)
Fits(a, p, whole) ==
    IF p.first THEN whole => a.left = 0
    ELSE a.left > 0 /\ p.kind = a.kind

(* s is where the reader is in front of each packet, and at the end.         *)
Trace(s, q, whole) ==
    /\ s \in [1..Len(q) + 1 -> Places]
    /\ \A i \in 1..Len(q) : Fits(s[i], q[i], whole) /\ s[i + 1] = After(s[i], q[i])
    /\ \A i \in 1..Len(q) + 1 :
          s[i].lost <= s[Len(q) + 1].lost /\ s[i].failed <= s[Len(q) + 1].failed

Leads(a, q, b, whole) == \E s : Trace(s, q, whole) /\ s[1] = a /\ s[Len(q) + 1] = b

(* Where the reader is behind one more message.                              *)
Behind(a, kind) ==
    [left |-> 0, kind |-> kind, lost |-> a.lost, failed |-> a.failed + One(kind = "failure")]

LEMMA OneIsNat ==
    ASSUME NEW b
    PROVE  One(b) \in Nat /\ (b => One(b) = 1) /\ (~b => One(b) = 0)
  BY SMT DEF One

LEMMA LengthIsPositive ==
    ASSUME NEW kind \in Kinds
    PROVE  Length[kind] \in Nat \ {0}
  BY PacketAssumption, SMT DEF Kinds

LEMMA AfterPacket ==
    ASSUME NEW a \in Places, NEW p
    PROVE  /\ p.first = TRUE =>
              After(a, p) = [left |-> Length[p.kind] - 1, kind |-> p.kind, lost |-> a.lost + a.left,
                             failed |-> a.failed + One(p.kind = "failure")]
           /\ p.first = FALSE =>
              After(a, p) = [left |-> a.left - 1, kind |-> p.kind, lost |-> a.lost,
                             failed |-> a.failed]
  <1>1. a.lost + 0 = a.lost /\ a.failed + 0 = a.failed
    BY SMT DEF Places
  <1>2. CASE p.first = TRUE
    <2>1. (p.first /\ p.kind = "failure") = (p.kind = "failure")
      BY <1>2
    <2>2. After(a, p) = [left |-> Length[p.kind] - 1, kind |-> p.kind, lost |-> a.lost + a.left,
                         failed |-> a.failed + One(p.first /\ p.kind = "failure")]
      BY <1>2, Zenon DEF After
    <2>3. QED
      BY <1>2, <2>1, <2>2
  <1>3. CASE p.first = FALSE
    <2>1. One(p.first /\ p.kind = "failure") = 0
      BY <1>3, OneIsNat
    <2>2. After(a, p) = [left |-> a.left - 1, kind |-> p.kind, lost |-> a.lost + 0,
                         failed |-> a.failed + One(p.first /\ p.kind = "failure")]
      BY <1>3, Zenon DEF After
    <2>3. QED
      BY <1>1, <1>3, <2>1, <2>2
  <1>4. QED
    BY <1>2, <1>3

LEMMA PlaceAfter ==
    ASSUME NEW a \in Places, NEW p \in Packets(Kinds), NEW whole \in BOOLEAN,
           Fits(a, p, whole)
    PROVE  /\ After(a, p) \in Places
           /\ a.lost <= After(a, p).lost /\ a.failed <= After(a, p).failed
  <1>1. a.left \in Nat /\ a.lost \in Nat /\ a.failed \in Nat
    BY SMT DEF Places
  <1>2. p.first \in BOOLEAN /\ p.kind \in Kinds
    BY SMT DEF Packets
  <1>3. Length[p.kind] - 1 \in Nat
    BY <1>2, LengthIsPositive, SMT
  <1>4. ~p.first => a.left - 1 \in Nat
    BY <1>1, SMT DEF Fits
  <1>5. PICK f : f = One(p.first /\ p.kind = "failure")
    OBVIOUS
  <1>6. f \in Nat
    BY <1>5, OneIsNat
  <1>7. After(a, p) = [left   |-> IF p.first THEN Length[p.kind] - 1 ELSE a.left - 1,
                       kind   |-> p.kind,
                       lost   |-> a.lost + IF p.first THEN a.left ELSE 0,
                       failed |-> a.failed + f]
    BY <1>5 DEF After
  <1>8. QED
    BY <1>1, <1>2, <1>3, <1>4, <1>6, <1>7, SMT DEF Places

LEMMA LeadsNowhere ==
    ASSUME NEW a \in Places, NEW whole \in BOOLEAN
    PROVE  Leads(a, <<>>, a, whole)
  <1>1. PICK s : s = [i \in 1..1 |-> a]
    OBVIOUS
  <1>2. s \in [1..Len(<<>>) + 1 -> Places] /\ s[1] = a /\ s[Len(<<>>) + 1] = a
    BY <1>1, SMT
  <1>3. a.lost \in Nat /\ a.failed \in Nat
    BY SMT DEF Places
  <1>4. Trace(s, <<>>, whole)
    BY <1>1, <1>2, <1>3, SMT DEF Trace
  <1>5. QED
    BY <1>2, <1>4 DEF Leads

(* The reader starts and ends at a place, and what it counts grows.          *)
LEMMA LeadsOn ==
    ASSUME NEW a, NEW b, NEW q, Len(q) \in Nat, NEW whole \in BOOLEAN, Leads(a, q, b, whole)
    PROVE  /\ a \in Places /\ b \in Places
           /\ a.lost <= b.lost /\ a.failed <= b.failed
           /\ Len(q) = 0 => a = b
  <1>1. PICK s : Trace(s, q, whole) /\ s[1] = a /\ s[Len(q) + 1] = b
    BY DEF Leads
  <1>2. 1 \in 1..Len(q) + 1 /\ Len(q) + 1 \in 1..Len(q) + 1
    BY SMT
  <1>3. s[1] \in Places /\ s[Len(q) + 1] \in Places
    BY <1>1, <1>2 DEF Trace
  <1>4. s[1].lost <= s[Len(q) + 1].lost /\ s[1].failed <= s[Len(q) + 1].failed
    BY <1>1, <1>2 DEF Trace
  <1>5. Len(q) = 0 => s[1] = s[Len(q) + 1]
    BY SMT
  <1>6. QED
    BY <1>1, <1>3, <1>4, <1>5

(* One packet taken from the front.                                          *)
LEMMA Taken ==
    ASSUME NEW a, NEW b, NEW whole \in BOOLEAN, NEW kinds, NEW q \in Seq(Packets(kinds)),
           q # <<>>, Leads(a, q, b, whole)
    PROVE  Fits(a, Head(q), whole) /\ Leads(After(a, Head(q)), Tail(q), b, whole)
  <1>1. PICK s : Trace(s, q, whole) /\ s[1] = a /\ s[Len(q) + 1] = b
    BY DEF Leads
  <1>2. PICK n : n = Len(q)
    OBVIOUS
  <1>3. n \in Nat /\ n > 0 /\ Len(Tail(q)) = n - 1 /\ Head(q) = q[1]
        /\ \A i \in 1..n - 1 : Tail(q)[i] = q[i + 1]
    BY <1>2, SMT
  <1>4. /\ s \in [1..n + 1 -> Places]
        /\ \A i \in 1..n : Fits(s[i], q[i], whole) /\ s[i + 1] = After(s[i], q[i])
        /\ \A i \in 1..n + 1 : s[i].lost <= s[n + 1].lost /\ s[i].failed <= s[n + 1].failed
    BY <1>1, <1>2 DEF Trace
  <1>5. Fits(a, q[1], whole) /\ s[2] = After(a, q[1])
    BY <1>1, <1>3, <1>4, SMT
  <1>6. PICK t : t = [i \in 1..n |-> s[i + 1]]
    OBVIOUS
  <1>7. t \in [1..n -> Places] /\ t[1] = s[2] /\ t[n] = s[n + 1]
    BY <1>3, <1>4, <1>6, SMT
  <1>8. \A i \in 1..n - 1 : t[i] = s[i + 1] /\ t[i + 1] = s[(i + 1) + 1] /\ i + 1 \in 1..n
    BY <1>3, <1>6, SMT
  <1>9. \A i \in 1..n - 1 : Fits(t[i], Tail(q)[i], whole) /\ t[i + 1] = After(t[i], Tail(q)[i])
    BY <1>3, <1>4, <1>8
  <1>10. \A i \in 1..n : t[i].lost <= t[n].lost /\ t[i].failed <= t[n].failed
    BY <1>3, <1>4, <1>6, <1>7, SMT
  <1>11. (n - 1) + 1 = n
    BY <1>3, SMT
  <1>12. Trace(t, Tail(q), whole)
    BY <1>3, <1>7, <1>9, <1>10, <1>11 DEF Trace
  <1>13. QED
    BY <1>1, <1>2, <1>3, <1>5, <1>7, <1>11, <1>12 DEF Leads

(* One packet appended.                                                      *)
LEMMA Put ==
    ASSUME NEW a, NEW b, NEW whole \in BOOLEAN, NEW kinds, NEW q \in Seq(Packets(kinds)),
           NEW p \in Packets(Kinds), Leads(a, q, b, whole), Fits(b, p, whole)
    PROVE  Leads(a, Append(q, p), After(b, p), whole)
  <1>1. PICK s : Trace(s, q, whole) /\ s[1] = a /\ s[Len(q) + 1] = b
    BY DEF Leads
  <1>2. PICK n : n = Len(q)
    OBVIOUS
  <1>3. n \in Nat /\ Len(Append(q, p)) = n + 1 /\ Append(q, p)[n + 1] = p
        /\ \A i \in 1..n : Append(q, p)[i] = q[i]
    BY <1>2, SMT
  <1>4. /\ s \in [1..n + 1 -> Places]
        /\ \A i \in 1..n : Fits(s[i], q[i], whole) /\ s[i + 1] = After(s[i], q[i])
        /\ \A i \in 1..n + 1 : s[i].lost <= s[n + 1].lost /\ s[i].failed <= s[n + 1].failed
    BY <1>1, <1>2 DEF Trace
  <1>5. s[n + 1] = b /\ b \in Places
    BY <1>1, <1>2, <1>3, <1>4, SMT
  <1>6. PICK e : e = After(b, p)
    OBVIOUS
  <1>7. e \in Places /\ b.lost <= e.lost /\ b.failed <= e.failed
    BY <1>5, <1>6, PlaceAfter
  <1>8. PICK t : t = [i \in 1..n + 2 |-> IF i = n + 2 THEN e ELSE s[i]]
    OBVIOUS
  <1>9. (\A i \in 1..n + 1 : t[i] = s[i] /\ i \in 1..n + 2) /\ t[n + 2] = e /\ n + 2 \in 1..n + 2
    BY <1>3, <1>8, SMT
  <1>10. t \in [1..n + 2 -> Places]
    BY <1>3, <1>4, <1>7, <1>8, SMT
  <1>11. \A i \in 1..n + 1 : Fits(t[i], Append(q, p)[i], whole) /\ t[i + 1] = After(t[i], Append(q, p)[i])
    <2>1. TAKE i \in 1..n + 1
    <2>2. CASE i = n + 1
      <3>1. t[i] = b /\ Append(q, p)[i] = p /\ t[i + 1] = e
        BY <1>3, <1>5, <1>9, <2>2, SMT
      <3>2. QED
        BY <3>1, <1>6
    <2>3. CASE i # n + 1
      <3>1. i \in 1..n /\ i + 1 \in 1..n + 1
        BY <1>3, <2>3, SMT
      <3>2. t[i] = s[i] /\ t[i + 1] = s[i + 1] /\ Append(q, p)[i] = q[i]
        BY <3>1, <1>3, <1>9
      <3>3. QED
        BY <3>1, <3>2, <1>4
    <2>4. QED
      BY <2>2, <2>3
  <1>12. \A i \in 1..n + 2 : t[i].lost <= t[n + 2].lost /\ t[i].failed <= t[n + 2].failed
    <2>1. \A c \in Places : c.lost \in Nat /\ c.failed \in Nat
      BY SMT DEF Places
    <2>2. TAKE i \in 1..n + 2
    <2>3. CASE i = n + 2
      BY <2>1, <2>3, <1>7, <1>9, SMT
    <2>4. CASE i # n + 2
      <3>1. i \in 1..n + 1
        BY <1>3, <2>4, SMT
      <3>2. t[i] = s[i] /\ s[i] \in Places /\ s[i].lost <= b.lost /\ s[i].failed <= b.failed
        BY <3>1, <1>4, <1>5, <1>9
      <3>3. QED
        BY <3>2, <2>1, <1>5, <1>7, <1>9, SMT
    <2>5. QED
      BY <2>3, <2>4
  <1>13. (n + 1) + 1 = n + 2
    BY <1>3, SMT
  <1>14. Trace(t, Append(q, p), whole)
    BY <1>3, <1>10, <1>11, <1>12, <1>13 DEF Trace
  <1>15. t[1] = a
    BY <1>1, <1>3, <1>9, SMT
  <1>16. QED
    BY <1>3, <1>6, <1>9, <1>13, <1>14, <1>15 DEF Leads

LEMMA SeqOf ==
    ASSUME NEW n \in Nat, NEW S, NEW u \in [1..n -> S]
    PROVE  u \in Seq(S) /\ Len(u) = n
  OBVIOUS

LEMMA Joined ==
    ASSUME NEW S, NEW T, NEW q \in Seq(S), NEW u \in Seq(T), T \subseteq S
    PROVE  /\ q \o u \in Seq(S) /\ Len(q \o u) = Len(q) + Len(u)
           /\ \A i \in 1..Len(q) : (q \o u)[i] = q[i]
           /\ \A j \in 1..Len(u) : (q \o u)[Len(q) + j] = u[j]
  <1>1. u \in Seq(S)
    BY SeqMonotonic
  <1>2. PICK r : r = q \o u
    OBVIOUS
  <1>3. /\ r \in Seq(S) /\ Len(r) = Len(q) + Len(u)
        /\ \A i \in 1..Len(q) + Len(u) : r[i] = IF i <= Len(q) THEN q[i] ELSE u[i - Len(q)]
    BY <1>1, <1>2, ConcatProperties
  <1>4. Len(q) \in Nat /\ Len(u) \in Nat
    BY LenProperties
  <1>5. \A i \in 1..Len(q) : r[i] = q[i]
    BY <1>3, <1>4, SMT
  <1>6. \A j \in 1..Len(u) : r[Len(q) + j] = u[j]
    <2>1. TAKE j \in 1..Len(u)
    <2>2. /\ Len(q) + j \in 1..Len(q) + Len(u) /\ ~(Len(q) + j <= Len(q))
          /\ (Len(q) + j) - Len(q) = j
      BY <1>4, SMT
    <2>3. QED
      BY <1>3, <2>2
  <1>7. QED
    BY <1>2, <1>3, <1>5, <1>6

LEMMA MessagePackets ==
    ASSUME NEW kind \in Kinds, NEW own \in BOOLEAN
    PROVE  /\ Length[kind] \in Nat \ {0}
           /\ PacketsOf(kind, own) \in Seq(Packets({kind})) /\ Len(PacketsOf(kind, own)) = Length[kind]
           /\ \A i \in 1..Length[kind] :
                 PacketsOf(kind, own)[i] = [kind |-> kind, first |-> i = 1, own |-> own]
  <1>1. Length[kind] \in Nat \ {0}
    BY LengthIsPositive
  <1>2. PacketsOf(kind, own) = [i \in 1..Length[kind] |-> [kind |-> kind, first |-> i = 1, own |-> own]]
    BY DEF PacketsOf, Packet
  <1>3. PICK m, u : m = Length[kind] /\ u = PacketsOf(kind, own)
    OBVIOUS
  <1>4. \A i \in 1..m : u[i] = [kind |-> kind, first |-> i = 1, own |-> own]
    BY <1>2, <1>3
  <1>5. \A b \in BOOLEAN : [kind |-> kind, first |-> b, own |-> own] \in Packets({kind})
    BY SMT DEF Packets
  <1>6. \A i \in 1..m : u[i] \in Packets({kind})
    BY <1>4, <1>5
  <1>7. u \in Seq(Packets({kind})) /\ Len(u) = m
    <2>1. DOMAIN u = 1..m /\ u = [i \in 1..m |-> u[i]]
      BY <1>2, <1>3, <1>4
    <2>2. u \in [1..m -> Packets({kind})]
      BY <1>6, <2>1
    <2>3. QED
      BY <1>1, <1>3, <2>2, SeqOf
  <1>8. QED
    BY <1>1, <1>3, <1>4, <1>7

(* The packets of a message appended, where nothing is missing in front.     *)
LEMMA MessagePut ==
    ASSUME NEW a, NEW b, NEW kinds, NEW q \in Seq(Packets(kinds)),
           NEW kind \in Kinds, NEW own \in BOOLEAN, kind \in kinds,
           Leads(a, q, b, TRUE), b.left = 0
    PROVE  /\ q \o PacketsOf(kind, own) \in Seq(Packets(kinds))
           /\ Len(q \o PacketsOf(kind, own)) > 0
           /\ Leads(a, q \o PacketsOf(kind, own), Behind(b, kind), TRUE)
  <1>1. PICK s : Trace(s, q, TRUE) /\ s[1] = a /\ s[Len(q) + 1] = b
    BY DEF Leads
  <1>2. PICK n, m, r : n = Len(q) /\ m = Length[kind] /\ r = q \o PacketsOf(kind, own)
    OBVIOUS
  <1>3. PICK f : f = b.failed + One(kind = "failure")
    OBVIOUS
  <1>4. n \in Nat /\ m \in Nat /\ m > 0
    <2>1. m \in Nat \ {0}
      BY <1>2, MessagePackets
    <2>2. n \in Nat
      BY <1>2, SMT
    <2>3. QED
      BY <2>1, <2>2, SMT
  <1>5. /\ r \in Seq(Packets(kinds)) /\ Len(r) = n + m /\ (\A i \in 1..n : r[i] = q[i])
        /\ \A j \in 1..m : r[n + j] = [kind |-> kind, first |-> j = 1, own |-> own]
    <2>1. PICK u : u = PacketsOf(kind, own)
      OBVIOUS
    <2>2. u \in Seq(Packets({kind})) /\ Len(u) = m
          /\ \A j \in 1..m : u[j] = [kind |-> kind, first |-> j = 1, own |-> own]
      <3>1. PICK v : v = Packets({kind})
        OBVIOUS
      <3>2. u \in Seq(v) /\ Len(u) = m
            /\ \A j \in 1..m : u[j] = [kind |-> kind, first |-> j = 1, own |-> own]
        BY <3>1, <2>1, <1>2, MessagePackets
      <3>3. QED
        BY <3>1, <3>2
    <2>3. Packets({kind}) \subseteq Packets(kinds)
      BY SMT DEF Packets
    <2>4. /\ r \in Seq(Packets(kinds)) /\ Len(r) = n + m /\ (\A i \in 1..n : r[i] = q[i])
          /\ \A j \in 1..m : r[n + j] = u[j]
      <3>1. /\ q \o u \in Seq(Packets(kinds)) /\ Len(q \o u) = Len(q) + Len(u)
            /\ \A i \in 1..Len(q) : (q \o u)[i] = q[i]
            /\ \A j \in 1..Len(u) : (q \o u)[Len(q) + j] = u[j]
        <4>1. PICK v, w : v = Packets({kind}) /\ w = Packets(kinds)
          OBVIOUS
        <4>2. u \in Seq(v) /\ q \in Seq(w) /\ v \subseteq w
          BY <4>1, <2>2, <2>3
        <4>3. /\ q \o u \in Seq(w) /\ Len(q \o u) = Len(q) + Len(u)
              /\ \A i \in 1..Len(q) : (q \o u)[i] = q[i]
              /\ \A j \in 1..Len(u) : (q \o u)[Len(q) + j] = u[j]
          BY <4>2, Joined
        <4>4. QED
          BY <4>1, <4>3
      <3>2. QED
        BY <3>1, <1>2, <2>1, <2>2
    <2>5. QED
      BY <2>2, <2>4
  <1>6. /\ s \in [1..n + 1 -> Places]
        /\ \A i \in 1..n : Fits(s[i], q[i], TRUE) /\ s[i + 1] = After(s[i], q[i])
        /\ \A i \in 1..n + 1 : s[i].lost <= s[n + 1].lost /\ s[i].failed <= s[n + 1].failed
    BY <1>1, <1>2 DEF Trace
  <1>7. s[n + 1] = b /\ b \in Places /\ b.lost \in Nat /\ b.failed \in Nat
    <2>1. s[n + 1] = b /\ n + 1 \in 1..n + 1
      BY <1>1, <1>2, <1>4, SMT
    <2>2. b \in Places
      BY <1>6, <2>1
    <2>3. QED
      BY <2>1, <2>2, SMT DEF Places
  <1>8. f \in Nat /\ b.failed <= f
    <2>1. One(kind = "failure") \in Nat
      BY OneIsNat
    <2>2. QED
      BY <1>3, <1>7, <2>1, SMT
  <1>9. PICK g : g = [j \in 1..m |-> [left |-> m - j, kind |-> kind, lost |-> b.lost, failed |-> f]]
    OBVIOUS
  <1>10. \A j \in 1..m : /\ g[j] \in Places /\ g[j].left = m - j /\ g[j].kind = kind
                         /\ g[j].lost = b.lost /\ g[j].failed = f
    BY <1>4, <1>7, <1>8, <1>9, SMT DEF Places
  <1>11. PICK t : t = [i \in 1..n + m + 1 |-> IF i <= n + 1 THEN s[i] ELSE g[i - (n + 1)]]
    OBVIOUS
  <1>12. /\ \A i \in 1..n + 1 : i \in 1..n + m + 1 /\ t[i] = s[i]
         /\ \A j \in 1..m : (n + 1) + j \in 1..n + m + 1 /\ t[(n + 1) + j] = g[j]
    BY <1>4, <1>11, SMT
  <1>13. \A i \in 1..n + m + 1 : i \in 1..n + 1 \/ \E j \in 1..m : i = (n + 1) + j
    <2>1. TAKE i \in 1..n + m + 1
    <2>2. i <= n + 1 => i \in 1..n + 1
      BY <1>4, SMT
    <2>3. ~(i <= n + 1) => i - (n + 1) \in 1..m /\ i = (n + 1) + (i - (n + 1))
      BY <1>4, SMT
    <2>4. QED
      BY <2>2, <2>3
  <1>14. t \in [1..n + m + 1 -> Places]
    <2>1. \A i \in 1..n + m + 1 : t[i] \in Places
      BY <1>6, <1>10, <1>12, <1>13
    <2>2. QED
      BY <1>11, <2>1, SMT
  <1>15. m \in 1..m /\ t[n + m + 1] = g[m] /\ g[m].lost = b.lost /\ g[m].failed = f
    <2>1. m \in 1..m /\ (n + 1) + m = n + m + 1
      BY <1>4, SMT
    <2>2. QED
      BY <1>10, <1>12, <2>1
  <1>16. \A i \in 1..n + m + 1 : t[i].lost <= b.lost /\ t[i].failed <= f
    <2>1. TAKE i \in 1..n + m + 1
    <2>2. CASE i \in 1..n + 1
      <3>1. t[i] = s[i] /\ s[i] \in Places /\ s[i].lost <= b.lost /\ s[i].failed <= b.failed
        BY <1>6, <1>7, <1>12, <2>2
      <3>2. s[i].failed \in Nat
        BY <3>1, SMT DEF Places
      <3>3. QED
        BY <3>1, <3>2, <1>7, <1>8, SMT
    <2>3. CASE \E j \in 1..m : i = (n + 1) + j
      <3>1. t[i].lost = b.lost /\ t[i].failed = f
        BY <2>3, <1>10, <1>12
      <3>2. QED
        BY <3>1, <1>7, <1>8, SMT
    <2>4. QED
      BY <1>13, <2>2, <2>3
  <1>17. \A i \in 1..n + m : Fits(t[i], r[i], TRUE) /\ t[i + 1] = After(t[i], r[i])
    <2>1. TAKE i \in 1..n + m
    <2>2. CASE i <= n
      <3>1. i \in 1..n /\ i \in 1..n + 1 /\ i + 1 \in 1..n + 1
        BY <1>4, <2>2, SMT
      <3>2. t[i] = s[i] /\ t[i + 1] = s[i + 1] /\ r[i] = q[i]
        BY <3>1, <1>5, <1>12
      <3>3. QED
        BY <3>1, <3>2, <1>6
    <2>3. CASE i = n + 1
      <3>1. 1 \in 1..m /\ n + 1 \in 1..n + 1 /\ i + 1 = (n + 1) + 1
        BY <1>4, <2>3, SMT
      <3>2. t[i] = b /\ t[i + 1] = g[1] /\ r[i] = [kind |-> kind, first |-> TRUE, own |-> own]
        BY <3>1, <2>3, <1>5, <1>7, <1>12
      <3>3. After(b, r[i]) = [left |-> m - 1, kind |-> kind, lost |-> b.lost + b.left, failed |-> f]
        <4>1. /\ r[i].first = TRUE /\ r[i].kind = kind
          BY <3>2
        <4>2. After(b, r[i]) = [left |-> Length[r[i].kind] - 1, kind |-> r[i].kind, lost |-> b.lost + b.left,
                                failed |-> b.failed + One(r[i].kind = "failure")]
          BY <4>1, <1>7, AfterPacket
        <4>3. QED
          BY <4>1, <4>2, <1>2, <1>3
      <3>4. b.lost + b.left = b.lost
        BY <1>7, SMT
      <3>5. g[1] = [left |-> m - 1, kind |-> kind, lost |-> b.lost, failed |-> f]
        BY <3>1, <1>9
      <3>6. t[i + 1] = After(t[i], r[i])
        BY <3>2, <3>3, <3>4, <3>5
      <3>7. QED
        BY <3>2, <3>6 DEF Fits
    <2>4. CASE i > n + 1
      <3>1. PICK j : j = i - (n + 1)
        OBVIOUS
      <3>2. /\ j \in 1..m /\ j + 1 \in 1..m /\ j # 0 /\ j + 1 # 1 /\ m - j > 0
            /\ i = (n + 1) + j /\ i + 1 = (n + 1) + (j + 1) /\ i = n + (j + 1)
        BY <3>1, <1>4, <2>4, SMT
      <3>3. /\ t[i] = g[j] /\ t[i + 1] = g[j + 1]
            /\ r[i] = [kind |-> kind, first |-> FALSE, own |-> own]
        <4>1. t[(n + 1) + j] = g[j] /\ t[(n + 1) + (j + 1)] = g[j + 1]
          BY <3>2, <1>12
        <4>2. r[n + (j + 1)] = [kind |-> kind, first |-> j + 1 = 1, own |-> own]
          BY <3>2, <1>5
        <4>3. (j + 1 = 1) = FALSE
          BY <3>2
        <4>4. QED
          BY <4>1, <4>2, <4>3, <3>2
      <3>4. g[j].left = m - j /\ g[j].kind = kind /\ g[j].lost = b.lost /\ g[j].failed = f
        BY <3>2, <1>10
      <3>5. g[j] \in Places
        BY <3>2, <1>10
      <3>6. After(g[j], r[i]) = [left |-> (m - j) - 1, kind |-> kind, lost |-> b.lost, failed |-> f]
        <4>1. r[i].first = FALSE /\ r[i].kind = kind
          BY <3>3
        <4>2. After(g[j], r[i]) = [left |-> g[j].left - 1, kind |-> r[i].kind, lost |-> g[j].lost,
                                   failed |-> g[j].failed]
          BY <4>1, <3>5, AfterPacket
        <4>3. QED
          BY <4>1, <4>2, <3>4
      <3>7. (m - j) - 1 = m - (j + 1)
        BY <1>4, <3>2, SMT
      <3>8. g[j + 1] = [left |-> m - (j + 1), kind |-> kind, lost |-> b.lost, failed |-> f]
        BY <3>2, <1>9
      <3>9. t[i + 1] = After(t[i], r[i])
        BY <3>3, <3>6, <3>7, <3>8
      <3>10. Fits(t[i], r[i], TRUE)
        BY <3>2, <3>3, <3>4 DEF Fits
      <3>11. QED
        BY <3>9, <3>10
    <2>5. i <= n \/ i = n + 1 \/ i > n + 1
      BY <1>4, SMT
    <2>6. QED
      BY <2>2, <2>3, <2>4, <2>5
  <1>18. Len(r) + 1 = n + m + 1
    BY <1>4, <1>5, SMT
  <1>19. Trace(t, r, TRUE)
    BY <1>5, <1>14, <1>15, <1>16, <1>17, <1>18 DEF Trace
  <1>20. t[1] = a
    <2>1. 1 \in 1..n + 1
      BY <1>4, SMT
    <2>2. QED
      BY <2>1, <1>1, <1>12
  <1>21. g[m] = Behind(b, kind)
    <2>1. m - m = 0
      BY <1>4, SMT
    <2>2. QED
      BY <2>1, <1>3, <1>9, <1>15 DEF Behind
  <1>22. Len(r) > 0
    BY <1>4, <1>5, SMT
  <1>23. QED
    BY <1>2, <1>5, <1>15, <1>18, <1>19, <1>20, <1>21, <1>22 DEF Leads

(* A new run does not change what the packets of the old ones are.           *)
LEMMA Staled ==
    ASSUME NEW a, NEW b, NEW whole \in BOOLEAN, NEW kinds, NEW q \in Seq(Packets(kinds)),
           Leads(a, q, b, whole)
    PROVE  /\ Leads(a, Stale(q), b, whole) /\ Stale(q) \in Seq(Packets(kinds))
           /\ Len(Stale(q)) = Len(q)
           /\ \A i \in 1..Len(q) : Stale(q)[i].first = q[i].first /\ Stale(q)[i].kind = q[i].kind
  <1>1. DOMAIN q = 1..Len(q) /\ Len(q) \in Nat /\ \A i \in 1..Len(q) : q[i] \in Packets(kinds)
    BY SMT
  <1>2. PICK r : r = Stale(q)
    OBVIOUS
  <1>3. r = [i \in 1..Len(q) |-> [kind |-> q[i].kind, first |-> q[i].first, own |-> FALSE]]
    BY <1>1, <1>2 DEF Stale, Packet
  <1>4. \A i \in 1..Len(q) : /\ r[i] \in Packets(kinds)
                             /\ r[i].first = q[i].first /\ r[i].kind = q[i].kind
    <2>1. TAKE i \in 1..Len(q)
    <2>2. r[i] = [kind |-> q[i].kind, first |-> q[i].first, own |-> FALSE]
      BY <1>3
    <2>3. q[i] \in Packets(kinds)
      BY <1>1
    <2>4. QED
      BY <2>2, <2>3, SMT DEF Packets
  <1>5. r \in Seq(Packets(kinds)) /\ Len(r) = Len(q)
    BY <1>1, <1>3, <1>4, SMT
  <1>6. \A s \in Places, i \in 1..Len(q) :
            (Fits(s, r[i], whole) <=> Fits(s, q[i], whole)) /\ After(s, r[i]) = After(s, q[i])
    BY <1>4 DEF Fits, After
  <1>7. PICK s : Trace(s, q, whole) /\ s[1] = a /\ s[Len(q) + 1] = b
    BY DEF Leads
  <1>8. \A i \in 1..Len(q) : s[i] \in Places
    BY <1>1, <1>7, SMT DEF Trace
  <1>9. Trace(s, r, whole)
    BY <1>5, <1>6, <1>7, <1>8 DEF Trace
  <1>10. QED
    BY <1>2, <1>4, <1>5, <1>7, <1>9 DEF Leads

-----------------------------------------------------------------------------
(* The invariant.                                                            *)

Partials(kinds) ==
    [kind : kinds, missing : Nat \ {0}, own : BOOLEAN, intact : BOOLEAN] \union {Idle}

Types ==
    /\ phase \in {"initialize", "status", "request", "peerKey", "ecdh", "secret",
                  "returned", "failed"}
    /\ legacy \in BOOLEAN
    /\ unwritten \in Seq(Packets(Requests)) /\ toDevice \in Seq(Packets(Requests))
    /\ fromDevice \in Seq(Packets(Replies))
    /\ reading \in Partials(Replies) /\ device \in Partials(Requests)
    /\ debt \in Nat /\ spoiled \in Nat

(* What the host still has to write is the end of one message.               *)
Writing ==
    /\ unwritten # <<>> => phase \in {"initialize", "request", "ecdh"}
    /\ unwritten # <<>> /\ phase # "initialize" => unwritten[1].kind # "initialize"
    /\ \A i \in 1..Len(unwritten) : /\ unwritten[i].kind = unwritten[1].kind
                                    /\ i > 1 => ~unwritten[i].first
    /\ unwritten # <<>> /\ unwritten[1].first => Len(unwritten) = Length[unwritten[1].kind]
    /\ reading # Idle => ReadPhase

(* The host is inside a message, or waits for the answer to one.             *)
Mid      == unwritten # <<>> /\ ~Head(unwritten).first
Underway == ReadPhase \/ Mid
Later    == phase \notin {"initialize", "status"}

NoFirst(q) == \A i \in 1..Len(q) : ~q[i].first
LastFirst(q, i) == q[i].first /\ \A j \in 1..Len(q) : j > i => ~q[j].first

(* Once it has its status, the host's last message is no Initialize.         *)
Asked ==
    Underway /\ Later =>
        /\ \A i \in 1..Len(toDevice) :
              LastFirst(toDevice, i) => toDevice[i].kind # "initialize"
        /\ NoFirst(toDevice) /\ device # Idle /\ device.intact => device.kind # "initialize"

(* The queue to the device leads from what the device collects to what the   *)
(* host is writing.                                                          *)
Sending(a, b) ==
    /\ Leads(a, toDevice, b, FALSE)
    /\ device # Idle /\ device.intact => device.missing = a.left /\ device.kind = a.kind
    /\ Mid => b.left = Len(unwritten) /\ b.kind = Head(unwritten).kind
    /\ ReadPhase => b.left = 0

(* The queue from the device leads from what the host collects to the end of *)
(* a reply.                                                                  *)
Answering(c, d) ==
    /\ Leads(c, fromDevice, d, TRUE)
    /\ reading # Idle => reading.missing = c.left /\ reading.kind = c.kind
    /\ d.left = 0

(* A device that has nothing more to begin or to finish has left an answer   *)
(* the host does not pass over.                                              *)
Awaited(d) ==
    Underway /\ device = Idle /\ NoFirst(toDevice) =>
        /\ fromDevice # <<>> \/ reading # Idle
        /\ Later => d.kind # "features"

(* A host that is going to wait for a device that collects a damaged         *)
(* message.                                                                  *)
Stuck == ReadPhase /\ device # Idle /\ ~device.intact /\ toDevice = <<>>

(* The runs still to be lost: one for each packet a cut message may eat, for *)
(* each rest of a reply and for each failure under way.                      *)
Unfinished(b) == IF Mid THEN 0 ELSE b.left
Replying(c)   == IF reading = Idle THEN c.left ELSE One(reading.kind = "failure")
Damage        == IF device.intact THEN 0 ELSE device.missing

Afforded(a, b, c, d) ==
    spoiled + Unfinished(b) + Replying(c) + Damage + One(Stuck) + b.lost + d.failed
        <= debt + a.lost + c.failed

At(a, b, c, d) ==
    Sending(a, b) /\ Answering(c, d) /\ Awaited(d) /\ Afforded(a, b, c, d)

IInv == Types /\ Writing /\ Asked /\ \E a, b, c, d \in Places : At(a, b, c, d)

-----------------------------------------------------------------------------
LEMMA PartialFields ==
    ASSUME NEW kinds, NEW m \in Partials(kinds)
    PROVE  /\ m.missing \in Nat /\ m.own \in BOOLEAN /\ m.intact \in BOOLEAN
           /\ m = Idle => m.missing = 0 /\ ~m.intact
           /\ m # Idle => m.missing > 0 /\ m.kind \in kinds
  <1>1. CASE m = Idle
    BY <1>1, SMT DEF Idle, Partial
  <1>2. CASE m # Idle
    <2>1. m \in [kind : kinds, missing : Nat \ {0}, own : BOOLEAN, intact : BOOLEAN]
      BY <1>2 DEF Partials
    <2>2. QED
      BY <1>2, <2>1, SMT
  <1>3. QED
    BY <1>1, <1>2

LEMMA PartialOf ==
    ASSUME NEW kind, NEW missing \in Nat, NEW own \in BOOLEAN, NEW intact \in BOOLEAN
    PROVE  LET m == Partial(kind, missing, own, intact) IN
           /\ m.kind = kind /\ m.missing = missing /\ m.own = own /\ m.intact = intact
           /\ missing > 0 => m # Idle /\ \A kinds : kind \in kinds => m \in Partials(kinds)
  <1>1. PICK m : m = Partial(kind, missing, own, intact)
    OBVIOUS
  <1>2. m = [kind |-> kind, missing |-> missing, own |-> own, intact |-> intact]
    BY <1>1 DEF Partial
  <1>3. m.kind = kind /\ m.missing = missing /\ m.own = own /\ m.intact = intact
    BY <1>2
  <1>4. Idle.missing = 0
    BY DEF Idle, Partial
  <1>5. ASSUME missing > 0, NEW kinds, kind \in kinds
        PROVE  m \in Partials(kinds)
    <2>1. m \in [kind : kinds, missing : Nat \ {0}, own : BOOLEAN, intact : BOOLEAN]
      BY <1>2, <1>5, SMT
    <2>2. QED
      BY <2>1 DEF Partials
  <1>6. missing > 0 => m # Idle
    BY <1>3, <1>4, SMT
  <1>7. QED
    BY <1>1, <1>3, <1>5, <1>6

LEMMA PlaceFields ==
    ASSUME NEW a \in Places
    PROVE  a.left \in Nat /\ a.lost \in Nat /\ a.failed \in Nat
  BY SMT DEF Places

LEMMA KindsOf ==
    /\ Requests \subseteq Kinds /\ Replies \subseteq Kinds
    /\ "initialize" \in Requests /\ "failure" \in Replies
    /\ Packets(Requests) \subseteq Packets(Kinds) /\ Packets(Replies) \subseteq Packets(Kinds)
  <1>1. Requests \subseteq Kinds /\ Replies \subseteq Kinds
    BY DEF Kinds
  <1>2. \A S, T : S \subseteq T => Packets(S) \subseteq Packets(T)
    BY SMT DEF Packets
  <1>3. QED
    BY <1>1, <1>2, SMT DEF Requests, Replies

(* The answer to a message that lacks something is a failure.                *)
LEMMA AnswersAre ==
    ASSUME NEW m, m.intact \in BOOLEAN, m.kind \in Requests
    PROVE  /\ AnswerTo(m) \in Replies
           /\ AnswerTo(m) = "failure" <=> ~m.intact
           /\ AnswerTo(m) = "features" => m.kind = "initialize"
  <1>1. CASE ~m.intact
    BY <1>1, SMT DEF AnswerTo, Replies
  <1>2. CASE m.intact
    <2>1. PICK k : k = m.kind
      OBVIOUS
    <2>2. AnswerTo(m) = CASE k = "initialize"       -> "features"
                          [] k = "get_public_key"   -> "public_key"
                          [] k = "get_ecdh_session" -> "ecdh_session"
                          [] k = "sign_identity"    -> "signed_identity"
      BY <1>2, <2>1 DEF AnswerTo
    <2>3. k \in {"initialize", "get_public_key", "get_ecdh_session", "sign_identity"}
      BY <2>1 DEF Requests
    <2>4. /\ AnswerTo(m) \in {"features", "public_key", "ecdh_session", "signed_identity"}
          /\ AnswerTo(m) = "features" => k = "initialize"
      BY <2>2, <2>3, SMT
    <2>5. QED
      BY <1>2, <2>1, <2>4, SMT DEF Replies
  <1>3. QED
    BY <1>1, <1>2

(* A counter stops counting where nothing can be said of it any more.        *)
LEMMA SpoilIs ==
    ASSUME debt \in Nat, spoiled \in Nat, Spoil
    PROVE  phase' = "failed" /\ spoiled' \in Nat /\ spoiled' <= spoiled + 1
  BY SMT DEF Spoil

(* All terms of the account are counts.                                      *)
LEMMA Counts ==
    ASSUME Types, NEW a \in Places, NEW b \in Places, NEW c \in Places, NEW d \in Places
    PROVE  /\ Unfinished(b) \in Nat /\ Replying(c) \in Nat /\ Damage \in Nat
           /\ One(Stuck) \in Nat /\ spoiled \in Nat /\ debt \in Nat
           /\ a.left \in Nat /\ a.lost \in Nat /\ a.failed \in Nat
           /\ b.left \in Nat /\ b.lost \in Nat /\ b.failed \in Nat
           /\ c.left \in Nat /\ c.lost \in Nat /\ c.failed \in Nat
           /\ d.left \in Nat /\ d.lost \in Nat /\ d.failed \in Nat
           /\ Len(unwritten) \in Nat /\ Len(toDevice) \in Nat /\ Len(fromDevice) \in Nat
  <1>1. /\ a.left \in Nat /\ a.lost \in Nat /\ a.failed \in Nat
        /\ b.left \in Nat /\ b.lost \in Nat /\ b.failed \in Nat
        /\ c.left \in Nat /\ c.lost \in Nat /\ c.failed \in Nat
        /\ d.left \in Nat /\ d.lost \in Nat /\ d.failed \in Nat
    BY PlaceFields
  <1>2. One(Stuck) \in Nat /\ One(reading.kind = "failure") \in Nat
    BY OneIsNat
  <1>3. device.missing \in Nat
    BY PartialFields DEF Types
  <1>4. spoiled \in Nat /\ debt \in Nat
    BY DEF Types
  <1>5. Len(unwritten) \in Nat /\ Len(toDevice) \in Nat /\ Len(fromDevice) \in Nat
    BY LenProperties DEF Types
  <1>6. Unfinished(b) \in Nat /\ Replying(c) \in Nat /\ Damage \in Nat
    BY <1>1, <1>2, <1>3, SMT DEF Unfinished, Replying, Damage
  <1>7. QED
    BY <1>1, <1>2, <1>4, <1>5, <1>6

(* The tail of a queue of packets.                                           *)
LEMMA TailOf ==
    ASSUME NEW kinds, NEW q \in Seq(Packets(kinds)), q # <<>>
    PROVE  /\ Tail(q) \in Seq(Packets(kinds)) /\ Head(q) = q[1] /\ q[1] \in Packets(kinds)
           /\ Len(Tail(q)) = Len(q) - 1 /\ Len(q) \in Nat \ {0}
           /\ \A i \in 1..Len(Tail(q)) : i + 1 \in 1..Len(q) /\ Tail(q)[i] = q[i + 1]
           /\ \A i \in 1..Len(Tail(q)) : LastFirst(Tail(q), i) => LastFirst(q, i + 1)
           /\ NoFirst(Tail(q)) => IF q[1].first THEN LastFirst(q, 1) ELSE NoFirst(q)
  <1>1. PICK S : S = Packets(kinds)
    OBVIOUS
  <1>2. q \in Seq(S)
    BY <1>1
  <1>3. PICK t : t = Tail(q)
    OBVIOUS
  <1>4. /\ t \in Seq(S) /\ Head(q) = q[1] /\ Len(t) = Len(q) - 1 /\ Len(q) \in Nat \ {0}
        /\ \A i \in 1..Len(t) : i + 1 \in 1..Len(q) /\ t[i] = q[i + 1]
    BY <1>2, <1>3, SMT
  <1>5. q[1] \in S
    BY <1>2, <1>4, SMT
  <1>6. \A j \in 1..Len(q) : j > 1 => j - 1 \in 1..Len(t) /\ (j - 1) + 1 = j /\ q[j] = t[j - 1]
    BY <1>4, SMT
  <1>7. ASSUME NEW i \in 1..Len(t), LastFirst(t, i)
        PROVE  LastFirst(q, i + 1)
    <2>1. q[i + 1].first
      BY <1>4, <1>7 DEF LastFirst
    <2>2. ASSUME NEW j \in 1..Len(q), j > i + 1
          PROVE  ~q[j].first
      <3>1. j > 1 /\ j - 1 > i
        BY <2>2, <1>4, SMT
      <3>2. j - 1 \in 1..Len(t) /\ q[j] = t[j - 1]
        BY <3>1, <1>6
      <3>3. QED
        BY <3>1, <3>2, <1>7 DEF LastFirst
    <2>3. QED
      BY <2>1, <2>2 DEF LastFirst
  <1>8. ASSUME NoFirst(t)
        PROVE  IF q[1].first THEN LastFirst(q, 1) ELSE NoFirst(q)
    <2>1. \A j \in 1..Len(q) : j > 1 => ~q[j].first
      BY <1>6, <1>8 DEF NoFirst
    <2>2. CASE q[1].first
      BY <2>1, <2>2 DEF LastFirst
    <2>3. CASE ~q[1].first
      <3>1. \A j \in 1..Len(q) : j = 1 \/ j > 1
        BY <1>4, SMT
      <3>2. QED
        BY <2>1, <2>3, <3>1 DEF NoFirst
    <2>4. QED
      BY <2>2, <2>3
  <1>9. QED
    BY <1>1, <1>3, <1>4, <1>5, <1>7, <1>8

-----------------------------------------------------------------------------
(* The device.                                                               *)

(* What the steps of the device leave alone.                                 *)
LEMMA HostWaits ==
    ASSUME UNCHANGED <<hostVars, historyVars>>
    PROVE  /\ phase' = phase /\ legacy' = legacy /\ unwritten' = unwritten
           /\ reading' = reading /\ debt' = debt /\ spoiled' = spoiled
           /\ (Mid' <=> Mid) /\ (ReadPhase' <=> ReadPhase) /\ (Underway' <=> Underway)
           /\ (Later' <=> Later) /\ (Writing' <=> Writing)
           /\ \A b : Unfinished(b)' = Unfinished(b)
           /\ \A c : Replying(c)' = Replying(c)
  <1>1. /\ phase' = phase /\ legacy' = legacy /\ unwritten' = unwritten
        /\ reading' = reading /\ debt' = debt /\ spoiled' = spoiled
    BY DEF hostVars, historyVars
  <1>2. (Mid' <=> Mid) /\ (ReadPhase' <=> ReadPhase) /\ (Later' <=> Later)
    BY <1>1 DEF Mid, ReadPhase, Later
  <1>3. QED
    BY <1>1, <1>2 DEF Underway, Writing, Unfinished, Replying

LEMMA AskedTail ==
    ASSUME Types, Asked, toDevice # <<>>, toDevice' = Tail(toDevice),
           UNCHANGED <<hostVars, historyVars>>,
           Underway /\ Later /\ NoFirst(toDevice') /\ device' # Idle /\ device'.intact
              => device'.kind # "initialize"
    PROVE  Asked'
  <1>1. PICK q : q = toDevice
    OBVIOUS
  <1>2. q \in Seq(Packets(Requests)) /\ q # <<>> /\ toDevice' = Tail(q)
    BY <1>1 DEF Types
  <1>3. /\ \A i \in 1..Len(Tail(q)) : i + 1 \in 1..Len(q) /\ Tail(q)[i] = q[i + 1]
        /\ \A i \in 1..Len(Tail(q)) : LastFirst(Tail(q), i) => LastFirst(q, i + 1)
    BY <1>2, TailOf
  <1>4. (Underway' <=> Underway) /\ (Later' <=> Later)
    BY HostWaits
  <1>5. ASSUME Underway, Later, NEW i \in 1..Len(Tail(q)), LastFirst(Tail(q), i)
        PROVE  Tail(q)[i].kind # "initialize"
    <2>1. i + 1 \in 1..Len(q) /\ Tail(q)[i] = q[i + 1] /\ LastFirst(q, i + 1)
      BY <1>3, <1>5
    <2>2. QED
      BY <1>1, <1>5, <2>1 DEF Asked
  <1>6. QED
    BY <1>2, <1>4, <1>5 DEF Asked

(* m is what the device has when the packet in front is taken; the packets   *)
(* behind it lead from e.                                                    *)
Begun(m, a, e) ==
    /\ m.kind \in Requests /\ m.missing \in Nat /\ m.own \in BOOLEAN /\ m.intact \in BOOLEAN
    /\ m.missing > 0 => m \in Partials(Requests) /\ m # Idle
    /\ m.intact => m.missing = e.left /\ m.kind = e.kind
    /\ (IF m.intact THEN 0 ELSE m.missing + 1) + a.lost <= e.lost + Damage
    /\ Underway /\ Later /\ NoFirst(Tail(toDevice)) /\ m.intact => m.kind # "initialize"

LEMMA Assembled ==
    ASSUME Types, Writing, Asked,
           NEW a \in Places, NEW b \in Places, NEW c \in Places, NEW d \in Places,
           At(a, b, c, d),
           toDevice # <<>>, toDevice' = Tail(toDevice), UNCHANGED <<hostVars, historyVars>>,
           NEW e \in Places, Leads(e, Tail(toDevice), b, FALSE),
           NEW m, Begun(m, a, e), Assemble(m)
    PROVE  IInv'
  <1>1. /\ phase' = phase /\ legacy' = legacy /\ unwritten' = unwritten
        /\ reading' = reading /\ debt' = debt /\ spoiled' = spoiled
        /\ (Mid' <=> Mid) /\ (ReadPhase' <=> ReadPhase) /\ (Underway' <=> Underway)
        /\ (Later' <=> Later) /\ Writing'
        /\ Unfinished(b)' = Unfinished(b) /\ Replying(c)' = Replying(c)
    BY HostWaits
  <1>2. Leads(e, toDevice', b, FALSE) /\ (Mid' => b.left = Len(unwritten') /\ b.kind = Head(unwritten').kind)
        /\ (ReadPhase' => b.left = 0)
    BY <1>1 DEF At, Sending
  <1>3. toDevice' \in Seq(Packets(Requests))
    BY TailOf DEF Types
  <1>4. PICK p, x, y, l, t, k, h, z :
           /\ p = spoiled + Unfinished(b) + Replying(c) /\ x = Damage /\ y = One(Stuck)
           /\ l = b.lost /\ t = debt /\ k = c.failed /\ h = a.lost /\ z = e.lost
    OBVIOUS
  <1>5. /\ p \in Nat /\ x \in Nat /\ y \in Nat /\ l \in Nat /\ t \in Nat /\ k \in Nat
        /\ h \in Nat /\ z \in Nat /\ d.failed \in Nat
    <2>1. /\ spoiled \in Nat /\ Unfinished(b) \in Nat /\ Replying(c) \in Nat
          /\ Damage \in Nat /\ One(Stuck) \in Nat /\ b.lost \in Nat /\ debt \in Nat
          /\ c.failed \in Nat /\ a.lost \in Nat /\ e.lost \in Nat /\ d.failed \in Nat
      BY Counts, PlaceFields
    <2>2. spoiled + Unfinished(b) + Replying(c) \in Nat
      BY <2>1, SMT
    <2>3. QED
      BY <1>4, <2>1, <2>2
  <1>6. p + x + y + l + d.failed <= t + h + k
    BY <1>4 DEF At, Afforded
  <1>7. /\ m.kind \in Requests /\ m.missing \in Nat /\ m.own \in BOOLEAN /\ m.intact \in BOOLEAN
        /\ m.missing > 0 => m \in Partials(Requests) /\ m # Idle
        /\ m.intact => m.missing = e.left /\ m.kind = e.kind
        /\ Underway /\ Later /\ NoFirst(Tail(toDevice)) /\ m.intact => m.kind # "initialize"
    BY DEF Begun
  <1>8. PICK o : o = IF m.intact THEN 0 ELSE m.missing + 1
    OBVIOUS
  <1>9. o \in Nat /\ o + h <= z + x
    BY <1>4, <1>7, <1>8, SMT DEF Begun
  <1>10. CASE m.missing = 0
    <2>1. device' = Idle /\ fromDevice' = fromDevice \o PacketsOf(AnswerTo(m), m.own)
      BY <1>10 DEF Assemble
    <2>2. PICK kind : kind = AnswerTo(m)
      OBVIOUS
    <2>3. kind \in Replies /\ kind \in Kinds /\ (kind = "failure" <=> ~m.intact)
          /\ (kind = "features" => m.kind = "initialize")
      BY <1>7, <2>2, AnswersAre, KindsOf
    <2>4. Leads(c, fromDevice, d, TRUE) /\ d.left = 0 /\ fromDevice \in Seq(Packets(Replies))
      BY DEF At, Answering, Types
    <2>5. PICK q : q = fromDevice'
      OBVIOUS
    <2>6. q \in Seq(Packets(Replies)) /\ Len(q) > 0 /\ Leads(c, q, Behind(d, kind), TRUE)
      BY <1>7, <2>1, <2>2, <2>3, <2>4, <2>5, MessagePut
    <2>7. PICK f : f = Behind(d, kind)
      OBVIOUS
    <2>8. f.left = 0 /\ f.kind = kind /\ f.failed = d.failed + One(kind = "failure")
      BY <2>7 DEF Behind
    <2>9. f \in Places
      <3>1. Len(q) \in Nat /\ Leads(c, q, f, TRUE)
        BY <2>6, <2>7, LenProperties
      <3>2. QED
        BY <3>1, LeadsOn
    <2>10. Types'
      BY <1>1, <1>3, <2>1, <2>5, <2>6 DEF Types, Partials
    <2>11. Idle.intact = FALSE /\ Idle.missing = 0
      BY DEF Idle, Partial
    <2>12. Asked'
      BY <2>1, AskedTail
    <2>13. Sending(e, b)'
      BY <1>2, <2>1 DEF Sending
    <2>14. Answering(c, f)'
      BY <1>1, <2>5, <2>6, <2>7, <2>8 DEF At, Answering
    <2>15. Awaited(f)'
      <3>1. fromDevice' # <<>>
        BY <2>5, <2>6, SMT
      <3>2. Underway /\ Later /\ NoFirst(Tail(toDevice)) => kind # "features"
        BY <1>7, <2>3
      <3>3. QED
        BY <1>1, <2>8, <3>1, <3>2 DEF Awaited
    <2>16. Afforded(e, b, c, f)'
      <3>1. Damage' = 0
        BY <2>1, <2>11 DEF Damage
      <3>2. One(Stuck)' = 0
        BY <2>1, OneIsNat DEF Stuck
      <3>3. f.failed = d.failed + o
        <4>1. One(kind = "failure") = IF m.intact THEN 0 ELSE 1
          BY <2>3, OneIsNat
        <4>2. o = IF m.intact THEN 0 ELSE 1
          BY <1>8, <1>10, SMT
        <4>3. QED
          BY <2>8, <4>1, <4>2
      <3>4. PICK g, i : g = d.failed /\ i = f.failed
        OBVIOUS
      <3>5. 0 \in Nat /\ i \in Nat /\ 0 + 0 + i + h <= z + x + g
        BY <1>5, <1>9, <3>3, <3>4, SMT
      <3>6. p + 0 + 0 + l + i <= t + z + k
        BY <1>5, <1>6, <3>4, <3>5, SMT
      <3>7. QED
        BY <1>1, <1>4, <3>1, <3>2, <3>4, <3>6 DEF Afforded
    <2>17. QED
      BY <1>1, <2>9, <2>10, <2>12, <2>13, <2>14, <2>15, <2>16 DEF IInv, At
  <1>11. CASE m.missing > 0
    <2>1. device' = m /\ fromDevice' = fromDevice
      BY <1>7, <1>11, SMT DEF Assemble
    <2>2. m \in Partials(Requests) /\ m # Idle
      BY <1>7, <1>11
    <2>3. Types'
      BY <1>1, <1>3, <2>1, <2>2 DEF Types
    <2>4. Asked'
      BY <1>7, <2>1, AskedTail
    <2>5. Sending(e, b)'
      BY <1>2, <1>7, <2>1 DEF Sending
    <2>6. Answering(c, d)'
      BY <1>1, <2>1 DEF At, Answering
    <2>7. Awaited(d)'
      BY <2>1, <2>2 DEF Awaited
    <2>8. Afforded(e, b, c, d)'
      <3>1. PICK v, w, g : v = (IF m.intact THEN 0 ELSE m.missing) /\ w = One(Stuck)' /\ g = d.failed
        OBVIOUS
      <3>2. Damage' = v
        BY <2>1, <3>1 DEF Damage
      <3>3. w \in Nat /\ w <= 1 /\ (m.intact => w = 0)
        BY <2>1, <3>1, SMT DEF One, Stuck
      <3>4. v \in Nat /\ v + w <= o
        BY <1>7, <1>8, <3>1, <3>3, SMT
      <3>5. p + x + y + l + g <= t + h + k /\ g \in Nat
        BY <1>5, <1>6, <3>1
      <3>6. v + w + h <= z + x
        BY <1>5, <1>9, <3>3, <3>4, SMT
      <3>7. p + v + w + l + g <= t + z + k
        BY <1>5, <3>3, <3>4, <3>5, <3>6, SMT
      <3>8. QED
        BY <1>1, <1>4, <3>1, <3>2, <3>7 DEF Afforded
    <2>9. QED
      BY <1>1, <2>3, <2>4, <2>5, <2>6, <2>7, <2>8 DEF IInv, At
  <1>12. QED
    BY <1>7, <1>10, <1>11, SMT

(* The packet in front of the queue to the device.                           *)
LEMMA InFront ==
    ASSUME Types, toDevice # <<>>, NEW a \in Places, NEW b \in Places, Leads(a, toDevice, b, FALSE),
           NEW p, p = Head(toDevice)
    PROVE  /\ p.kind \in Requests /\ p.first \in BOOLEAN /\ p.own \in BOOLEAN
           /\ Leads(After(a, p), Tail(toDevice), b, FALSE)
           /\ After(a, p) \in Places /\ a.lost <= After(a, p).lost
           /\ After(a, p).kind = p.kind
           /\ p.first => /\ After(a, p).left = Length[p.kind] - 1
                         /\ After(a, p).lost = a.lost + a.left
                         /\ Length[p.kind] \in Nat \ {0}
           /\ ~p.first => /\ a.left > 0 /\ p.kind = a.kind
                          /\ After(a, p).left = a.left - 1 /\ After(a, p).lost = a.lost
           /\ NoFirst(Tail(toDevice)) =>
                 IF p.first THEN Underway /\ Later /\ Asked => p.kind # "initialize"
                 ELSE NoFirst(toDevice)
  <1>1. PICK q : q = toDevice
    OBVIOUS
  <1>2. q \in Seq(Packets(Requests)) /\ q # <<>> /\ Leads(a, q, b, FALSE)
    BY <1>1 DEF Types
  <1>3. /\ q[1] = p /\ p \in Packets(Requests) /\ Len(q) \in Nat \ {0}
        /\ NoFirst(Tail(q)) => IF q[1].first THEN LastFirst(q, 1) ELSE NoFirst(q)
    BY <1>1, <1>2, TailOf
  <1>4. p.kind \in Requests /\ p.first \in BOOLEAN /\ p.own \in BOOLEAN
    BY <1>3, SMT DEF Packets
  <1>5. Fits(a, p, FALSE) /\ Leads(After(a, p), Tail(q), b, FALSE)
    <2>1. FALSE \in BOOLEAN /\ Head(q) = p
      BY <1>1
    <2>2. QED
      BY <1>2, <2>1, Taken
  <1>6. After(a, p) \in Places /\ a.lost <= After(a, p).lost
    <2>1. FALSE \in BOOLEAN /\ p \in Packets(Kinds)
      BY <1>3, KindsOf
    <2>2. QED
      BY <1>5, <2>1, PlaceAfter
  <1>7. p.first => /\ After(a, p).left = Length[p.kind] - 1 /\ After(a, p).lost = a.lost + a.left
                   /\ Length[p.kind] \in Nat \ {0}
    <2>1. p.kind \in Kinds
      BY <1>4, KindsOf
    <2>2. Length[p.kind] \in Nat \ {0}
      BY <2>1, LengthIsPositive
    <2>3. p.first = TRUE =>
              After(a, p) = [left |-> Length[p.kind] - 1, kind |-> p.kind, lost |-> a.lost + a.left,
                             failed |-> a.failed + One(p.kind = "failure")]
      BY AfterPacket
    <2>4. QED
      BY <1>4, <2>2, <2>3
  <1>8. ~p.first => /\ a.left > 0 /\ p.kind = a.kind
                    /\ After(a, p).left = a.left - 1 /\ After(a, p).lost = a.lost
    <2>1. p.first = FALSE =>
              After(a, p) = [left |-> a.left - 1, kind |-> p.kind, lost |-> a.lost,
                             failed |-> a.failed]
      BY AfterPacket
    <2>2. ~p.first => a.left > 0 /\ p.kind = a.kind
      BY <1>5 DEF Fits
    <2>3. QED
      BY <1>4, <2>1, <2>2
  <1>9. LastFirst(q, 1) /\ Underway /\ Later /\ Asked => p.kind # "initialize"
    <2>1. 1 \in 1..Len(q)
      BY <1>3, SMT
    <2>2. QED
      BY <1>1, <1>3, <2>1 DEF Asked
  <1>10. After(a, p).kind = p.kind
    BY DEF After
  <1>11. QED
    BY <1>1, <1>3, <1>4, <1>5, <1>6, <1>7, <1>8, <1>9, <1>10

LEMMA DeviceReads ==
    ASSUME IInv, DeviceRead
    PROVE  IInv'
  <1>1. PICK a, b, c, d \in Places : At(a, b, c, d)
    BY DEF IInv
  <1>2. Types /\ Writing /\ Asked
    BY DEF IInv
  <1>3. PICK p, e : p = Head(toDevice) /\ e = After(a, p)
    OBVIOUS
  <1>4. /\ toDevice # <<>> /\ toDevice' = Tail(toDevice) /\ UNCHANGED <<hostVars, historyVars>>
        /\ \/ device # Idle /\ Assemble(Continue(device, p))
           \/ device = Idle /\ p.first /\ Assemble(Begin(p))
           \/ device = Idle /\ ~p.first /\ UNCHANGED <<device, fromDevice>>
    BY <1>3, Zenon DEF DeviceRead
  <1>5. /\ p.kind \in Requests /\ p.first \in BOOLEAN /\ p.own \in BOOLEAN
        /\ Leads(e, Tail(toDevice), b, FALSE) /\ e \in Places /\ a.lost <= e.lost /\ e.kind = p.kind
        /\ p.first => /\ e.left = Length[p.kind] - 1 /\ e.lost = a.lost + a.left
                      /\ Length[p.kind] \in Nat \ {0}
        /\ ~p.first => /\ a.left > 0 /\ p.kind = a.kind
                       /\ e.left = a.left - 1 /\ e.lost = a.lost
        /\ NoFirst(Tail(toDevice)) =>
              IF p.first THEN Underway /\ Later /\ Asked => p.kind # "initialize"
              ELSE NoFirst(toDevice)
    <2>1. Leads(a, toDevice, b, FALSE)
      BY <1>1 DEF At, Sending
    <2>2. QED
      BY <1>2, <1>3, <1>4, <2>1, InFront
  <1>6. a.left \in Nat /\ a.lost \in Nat /\ e.left \in Nat /\ e.lost \in Nat
    BY <1>5, PlaceFields
  <1>7. /\ device.missing \in Nat /\ device.own \in BOOLEAN /\ device.intact \in BOOLEAN
        /\ device = Idle => device.missing = 0 /\ ~device.intact
        /\ device # Idle => device.missing > 0 /\ device.kind \in Requests
    BY <1>2, PartialFields DEF Types
  <1>8. /\ device # Idle /\ device.intact => device.missing = a.left /\ device.kind = a.kind
        /\ Underway /\ Later /\ NoFirst(toDevice) /\ device # Idle /\ device.intact
             => device.kind # "initialize"
    BY <1>1, <1>2 DEF At, Sending, Asked
  <1>9. CASE device # Idle /\ Assemble(Continue(device, p))
    <2>1. PICK m, i : m = Continue(device, p) /\ i = (device.intact /\ ~p.first /\ p.kind = device.kind)
      OBVIOUS
    <2>2. i \in BOOLEAN /\ device.missing - 1 \in Nat /\ device.missing > 0 /\ device.kind \in Requests
      BY <1>7, <1>9, <2>1, SMT
    <2>3. m = Partial(device.kind, device.missing - 1, device.own, i)
      BY <2>1 DEF Continue
    <2>4. /\ m.kind = device.kind /\ m.missing = device.missing - 1 /\ m.own = device.own /\ m.intact = i
          /\ m.missing > 0 => m # Idle /\ m \in Partials(Requests)
      BY <1>7, <2>2, <2>3, PartialOf
    <2>5. m.intact => device.intact /\ ~p.first
      BY <2>1, <2>4
    <2>6. m.intact => m.missing = e.left /\ m.kind = e.kind
      <3>1. m.intact => device.missing = a.left /\ p.kind = device.kind /\ e.left = a.left - 1
        BY <1>5, <1>8, <1>9, <2>1, <2>4
      <3>2. QED
        BY <3>1, <1>5, <2>4
    <2>7. (IF m.intact THEN 0 ELSE m.missing + 1) + a.lost <= e.lost + Damage
      <3>1. CASE m.intact
        <4>1. Damage = 0
          BY <2>5, <3>1 DEF Damage
        <4>2. QED
          BY <1>5, <1>6, <3>1, <4>1, SMT
      <3>2. CASE ~m.intact /\ ~device.intact
        <4>1. Damage = device.missing
          BY <3>2 DEF Damage
        <4>2. m.missing + 1 = device.missing
          BY <1>7, <2>2, <2>4, SMT
        <4>3. device.missing + a.lost <= e.lost + device.missing
          BY <1>5, <1>6, <1>7, SMT
        <4>4. QED
          BY <3>2, <4>1, <4>2, <4>3
      <3>3. CASE ~m.intact /\ device.intact
        <4>1. p.first
          BY <1>5, <1>8, <1>9, <2>1, <2>4, <3>3
        <4>2. e.lost = a.lost + a.left /\ device.missing = a.left /\ Damage = 0
          BY <1>5, <1>8, <1>9, <3>3, <4>1 DEF Damage
        <4>3. m.missing + 1 = device.missing
          BY <1>7, <2>2, <2>4, SMT
        <4>4. a.left + a.lost <= (a.lost + a.left) + 0
          BY <1>6, SMT
        <4>5. QED
          BY <3>3, <4>2, <4>3, <4>4
      <3>4. m.intact \in BOOLEAN
        BY <2>2, <2>4
      <3>5. QED
        BY <1>7, <3>1, <3>2, <3>3, <3>4
    <2>8. Begun(m, a, e)
      <3>1. Underway /\ Later /\ NoFirst(Tail(toDevice)) /\ m.intact => m.kind # "initialize"
        BY <1>5, <1>8, <1>9, <2>4, <2>5
      <3>2. m.kind \in Requests /\ m.missing \in Nat /\ m.own \in BOOLEAN /\ m.intact \in BOOLEAN
        BY <1>7, <2>2, <2>4
      <3>3. QED
        BY <3>1, <3>2, <2>4, <2>6, <2>7 DEF Begun
    <2>9. Assemble(m)
      BY <1>9, <2>1
    <2>10. QED
      BY <1>1, <1>2, <1>4, <1>5, <2>8, <2>9, Assembled
  <1>10. CASE device = Idle /\ p.first /\ Assemble(Begin(p))
    <2>1. PICK m, n, i : m = Begin(p) /\ n = Length[p.kind] - 1 /\ i = TRUE
      OBVIOUS
    <2>2. n \in Nat /\ i \in BOOLEAN
      BY <1>5, <1>10, <2>1, SMT
    <2>3. m = Partial(p.kind, n, p.own, i)
      BY <2>1 DEF Begin
    <2>4. /\ m.kind = p.kind /\ m.missing = n /\ m.own = p.own /\ m.intact = i
          /\ m.missing > 0 => m # Idle /\ m \in Partials(Requests)
      BY <1>5, <2>2, <2>3, PartialOf
    <2>5. (IF m.intact THEN 0 ELSE m.missing + 1) + a.lost <= e.lost + Damage
      <3>1. Damage = 0
        BY <1>7, <1>10 DEF Damage
      <3>2. 0 + a.lost <= e.lost + 0
        BY <1>5, <1>6, SMT
      <3>3. QED
        BY <2>1, <2>4, <3>1, <3>2
    <2>6. Begun(m, a, e)
      <3>1. Underway /\ Later /\ NoFirst(Tail(toDevice)) /\ m.intact => m.kind # "initialize"
        BY <1>2, <1>5, <1>10, <2>4
      <3>2. QED
        BY <1>5, <1>10, <2>1, <2>2, <2>4, <2>5, <3>1 DEF Begun
    <2>7. Assemble(m)
      BY <1>10, <2>1
    <2>8. QED
      BY <1>1, <1>2, <1>4, <1>5, <2>6, <2>7, Assembled
  <1>11. CASE device = Idle /\ ~p.first /\ UNCHANGED <<device, fromDevice>>
    <2>1. /\ phase' = phase /\ legacy' = legacy /\ unwritten' = unwritten
          /\ reading' = reading /\ debt' = debt /\ spoiled' = spoiled
          /\ (Mid' <=> Mid) /\ (ReadPhase' <=> ReadPhase) /\ (Underway' <=> Underway)
          /\ (Later' <=> Later) /\ Writing'
          /\ Unfinished(b)' = Unfinished(b) /\ Replying(c)' = Replying(c)
      BY <1>2, <1>4, HostWaits
    <2>2. toDevice' \in Seq(Packets(Requests))
      BY <1>2, <1>4, TailOf DEF Types
    <2>3. Types'
      BY <1>2, <1>11, <2>1, <2>2 DEF Types
    <2>4. Asked'
      BY <1>2, <1>4, <1>11, AskedTail
    <2>5. Sending(e, b)'
      BY <1>1, <1>4, <1>5, <1>11, <2>1 DEF At, Sending
    <2>6. Answering(c, d)'
      BY <1>1, <1>11, <2>1 DEF At, Answering
    <2>7. Awaited(d)'
      BY <1>1, <1>4, <1>5, <1>11, <2>1 DEF At, Awaited
    <2>8. Afforded(e, b, c, d)'
      <3>1. Damage' = Damage /\ One(Stuck)' = One(Stuck)
        BY <1>11, OneIsNat DEF Damage, Stuck
      <3>2. e.lost = a.lost
        BY <1>5, <1>11
      <3>3. QED
        BY <1>1, <2>1, <3>1, <3>2 DEF At, Afforded
    <2>9. QED
      BY <1>5, <1>1, <2>1, <2>3, <2>4, <2>5, <2>6, <2>7, <2>8 DEF IInv, At
  <1>12. QED
    BY <1>4, <1>9, <1>10, <1>11

-----------------------------------------------------------------------------
(* The host.                                                                 *)

(* A host that neither waits nor is inside a message.                        *)
LEMMA AtRest ==
    ASSUME Types', Writing', ~Underway',
           NEW a \in Places, NEW b \in Places, NEW c \in Places, NEW d \in Places,
           Leads(a, toDevice', b, FALSE), Leads(c, fromDevice', d, TRUE), d.left = 0,
           device' # Idle /\ device'.intact => device'.missing = a.left /\ device'.kind = a.kind,
           spoiled' + b.left + c.left + Damage' + b.lost + d.failed <= debt' + a.lost + c.failed
    PROVE  IInv'
  <1>1. ~ReadPhase' /\ ~Mid' /\ reading' = Idle
    BY DEF Underway, Writing
  <1>2. Asked'
    BY DEF Asked
  <1>3. Sending(a, b)'
    BY <1>1 DEF Sending
  <1>4. Answering(c, d)' /\ Awaited(d)'
    BY <1>1 DEF Answering, Awaited
  <1>5. Unfinished(b)' = b.left /\ Replying(c)' = c.left /\ One(Stuck)' = 0
    BY <1>1, OneIsNat DEF Unfinished, Replying, Stuck
  <1>6. PICK p, x, l, f, r : /\ p = spoiled' + b.left + c.left /\ x = Damage' /\ l = b.lost
                             /\ f = d.failed /\ r = debt' + a.lost + c.failed
    OBVIOUS
  <1>7. p \in Nat /\ x \in Nat /\ l \in Nat /\ f \in Nat /\ r \in Nat
    <2>1. b.left \in Nat /\ c.left \in Nat /\ b.lost \in Nat /\ d.failed \in Nat /\ a.lost \in Nat
          /\ c.failed \in Nat
      BY PlaceFields
    <2>2. spoiled' \in Nat /\ debt' \in Nat
      BY DEF Types
    <2>3. device'.missing \in Nat
      BY PartialFields DEF Types
    <2>4. x \in Nat
      BY <1>6, <2>3, SMT DEF Damage
    <2>5. p \in Nat /\ r \in Nat
      BY <1>6, <2>1, <2>2, SMT
    <2>6. QED
      BY <1>6, <2>1, <2>4, <2>5
  <1>8. p + x + 0 + l + f <= r
    <2>1. p + x + l + f <= r
      BY <1>6
    <2>2. p + x + 0 = p + x
      BY <1>7, SMT
    <2>3. QED
      BY <2>1, <2>2
  <1>9. Afforded(a, b, c, d)'
    BY <1>5, <1>6, <1>8 DEF Afforded
  <1>10. QED
    BY <1>2, <1>3, <1>4, <1>9 DEF IInv, At

(* The account of a host at rest, or one that reads: it is inside no message.*)
LEMMA Reads ==
    ASSUME Types, Writing, NEW a \in Places, NEW b \in Places, NEW c \in Places, NEW d \in Places,
           At(a, b, c, d), ReadPhase
    PROVE  /\ unwritten = <<>> /\ ~Mid /\ b.left = 0 /\ Unfinished(b) = 0
           /\ spoiled + Replying(c) + Damage + One(Stuck) + b.lost + d.failed
                <= debt + a.lost + c.failed
  <1>1. unwritten = <<>>
    BY DEF Writing, ReadPhase
  <1>2. ~Mid
    BY <1>1 DEF Mid
  <1>3. b.left = 0 /\ Unfinished(b) = 0
    BY <1>2 DEF At, Sending, Unfinished
  <1>4. spoiled + 0 + Replying(c) + Damage + One(Stuck) + b.lost + d.failed
          <= debt + a.lost + c.failed
    BY <1>3 DEF At, Afforded
  <1>5. spoiled + 0 = spoiled
    BY SMT DEF Types
  <1>6. QED
    BY <1>1, <1>2, <1>3, <1>4, <1>5

(* A whole message, and nothing of it written.                               *)
Whole(u, kind) ==
    /\ u \in Seq(Packets(Requests)) /\ u # <<>> /\ Head(u) = u[1] /\ u[1].first
    /\ Len(u) = Length[kind]
    /\ \A i \in 1..Len(u) : u[i].kind = kind /\ (i > 1 => ~u[i].first)
    /\ u[1].kind = kind

LEMMA WholeMessage ==
    ASSUME NEW kind \in Requests
    PROVE  Whole(PacketsOf(kind, TRUE), kind)
  <1>1. PICK u, n, own : u = PacketsOf(kind, own) /\ n = Length[kind] /\ own = TRUE
    OBVIOUS
  <1>2. kind \in Kinds /\ own \in BOOLEAN
    BY <1>1, KindsOf
  <1>3. /\ n \in Nat \ {0} /\ u \in Seq(Packets({kind})) /\ Len(u) = n
        /\ \A i \in 1..n : u[i] = [kind |-> kind, first |-> i = 1, own |-> own]
    <2>1. /\ Length[kind] \in Nat \ {0}
          /\ PacketsOf(kind, own) \in Seq(Packets({kind})) /\ Len(PacketsOf(kind, own)) = Length[kind]
          /\ \A i \in 1..Length[kind] :
                PacketsOf(kind, own)[i] = [kind |-> kind, first |-> i = 1, own |-> own]
      BY <1>2, MessagePackets
    <2>2. QED
      BY <1>1, <2>1
  <1>4. Packets({kind}) \subseteq Packets(Requests)
    BY SMT DEF Packets
  <1>5. u \in Seq(Packets(Requests))
    BY <1>3, <1>4, SeqMonotonic
  <1>6. 1 \in 1..n /\ u # <<>> /\ Head(u) = u[1]
    BY <1>3, <1>5, SMT
  <1>7. u[1].kind = kind /\ u[1].first
    <2>1. \A i \in 1..n : u[i].kind = kind /\ u[i].first = (i = 1)
      BY <1>3
    <2>2. QED
      BY <1>6, <2>1
  <1>8. \A i \in 1..n : u[i].kind = kind /\ (i > 1 => ~u[i].first)
    <2>1. TAKE i \in 1..n
    <2>2. u[i].kind = kind /\ u[i].first = (i = 1)
      BY <1>3
    <2>3. i > 1 => i # 1
      BY <1>3, SMT
    <2>4. QED
      BY <2>2, <2>3
  <1>9. QED
    BY <1>1, <1>3, <1>5, <1>6, <1>7, <1>8 DEF Whole

(* A whole message is to be written next.                                    *)
LEMMA WritesWhole ==
    ASSUME NEW kind \in Requests, unwritten' = PacketsOf(kind, TRUE), reading' = Idle,
           phase' \in {"initialize", "request", "ecdh"},
           phase' # "initialize" => kind # "initialize"
    PROVE  unwritten' \in Seq(Packets(Requests)) /\ Writing' /\ ~Underway'
  <1>1. Whole(unwritten', kind)
    BY WholeMessage
  <1>2. Writing'
    BY <1>1 DEF Writing, Whole
  <1>3. ~Underway'
    BY <1>1 DEF Underway, ReadPhase, Mid, Whole
  <1>4. QED
    BY <1>1, <1>2, <1>3 DEF Whole

(* m is what the host has when the packet in front is taken; the packets     *)
(* behind it lead from g.                                                    *)
Got(m, c, g) ==
    /\ m.kind \in Replies /\ m.missing = g.left /\ m.kind = g.kind
    /\ m.missing > 0 => m \in Partials(Replies) /\ m # Idle
    /\ Replying(c) + g.failed = One(m.kind = "failure") + c.failed

LEMMA Collected ==
    ASSUME Types, Writing, Asked,
           NEW a \in Places, NEW b \in Places, NEW c \in Places, NEW d \in Places,
           At(a, b, c, d), ReadPhase, fromDevice # <<>>, fromDevice' = Tail(fromDevice),
           UNCHANGED <<legacy, toDevice, device, faults, debt>>,
           NEW g \in Places, Leads(g, Tail(fromDevice), d, TRUE),
           NEW m, Got(m, c, g), Collect(m)
    PROVE  IInv'
  <1>1. /\ unwritten = <<>> /\ ~Mid /\ b.left = 0 /\ Unfinished(b) = 0
        /\ spoiled + Replying(c) + Damage + One(Stuck) + b.lost + d.failed
             <= debt + a.lost + c.failed
    BY Reads
  <1>2. legacy' = legacy /\ toDevice' = toDevice /\ device' = device /\ debt' = debt /\ Damage' = Damage
    BY DEF Damage
  <1>3. Leads(a, toDevice, b, FALSE) /\ d.left = 0
        /\ (device # Idle /\ device.intact => device.missing = a.left /\ device.kind = a.kind)
    BY DEF At, Sending, Answering
  <1>4. fromDevice' \in Seq(Packets(Replies)) /\ Leads(g, fromDevice', d, TRUE)
    BY TailOf DEF Types
  <1>5. /\ Replying(c) \in Nat /\ Damage \in Nat /\ One(Stuck) \in Nat
        /\ spoiled \in Nat /\ debt \in Nat /\ a.lost \in Nat /\ b.lost \in Nat
        /\ c.failed \in Nat /\ d.failed \in Nat /\ g.failed \in Nat /\ g.left \in Nat
        /\ One(m.kind = "failure") \in Nat
    BY Counts, PlaceFields, OneIsNat
  <1>6. PICK u, x, y, l, f, t, w, k, n, h, o :
           /\ u = spoiled /\ x = Damage /\ y = One(Stuck) /\ l = b.lost /\ f = d.failed
           /\ t = debt /\ w = a.lost /\ k = c.failed /\ n = g.failed
           /\ h = Replying(c) /\ o = One(m.kind = "failure")
    OBVIOUS
  <1>7. /\ u \in Nat /\ x \in Nat /\ y \in Nat /\ l \in Nat /\ f \in Nat /\ t \in Nat
        /\ w \in Nat /\ k \in Nat /\ n \in Nat /\ h \in Nat /\ o \in Nat
    BY <1>5, <1>6
  <1>8. u + o + x + y + l + f <= t + w + n
    <2>1. h + n = o + k
      BY <1>6 DEF Got
    <2>2. u + h + x + y + l + f <= t + w + k
      BY <1>1, <1>6
    <2>3. QED
      BY <1>7, <2>1, <2>2, SMT
  <1>9. /\ m.kind \in Replies /\ m.missing = g.left /\ m.kind = g.kind
        /\ m.missing > 0 => m \in Partials(Replies) /\ m # Idle
    BY DEF Got
  <1>10. CASE m.missing = 0
    <2>1. Handle(m) /\ reading' = Idle
      BY <1>10 DEF Collect
    <2>2. g.left = 0 /\ reading' \in Partials(Replies)
      BY <1>9, <1>10, <2>1 DEF Partials
    <2>3. ASSUME Types', Writing', ~Underway', spoiled' = spoiled
          PROVE  IInv'
      <3>1. spoiled' + b.left + g.left + Damage' + b.lost + d.failed <= debt' + a.lost + g.failed
        <4>1. u + 0 + 0 + x + l + f <= t + w + n
          BY <1>7, <1>8, SMT
        <4>2. QED
          BY <1>1, <1>2, <1>6, <2>2, <2>3, <4>1
      <3>2. QED
        BY <1>2, <1>3, <1>4, <2>3, <3>1, AtRest
    <2>4. CASE Refused(m) /\ Spoil /\ UNCHANGED <<unwritten, result>>
      <3>1. phase' = "failed" /\ spoiled' \in Nat /\ spoiled' <= spoiled + 1
        BY <2>4, SpoilIs DEF Types
      <3>2. Types'
        BY <1>2, <1>4, <2>2, <2>4, <3>1 DEF Types
      <3>3. unwritten' = <<>> /\ Writing'
        BY <1>1, <2>1, <2>4, SMT DEF Writing
      <3>4. ~Underway'
        BY <3>1, <3>3 DEF Underway, ReadPhase, Mid
      <3>5. spoiled' + b.left + g.left + Damage' + b.lost + d.failed <= debt' + a.lost + g.failed
        <4>1. o = 1
          BY <1>6, <2>4, OneIsNat DEF Refused
        <4>2. PICK v : v = spoiled'
          OBVIOUS
        <4>3. v \in Nat /\ v <= u + 1
          BY <1>6, <3>1, <4>2
        <4>4. v + 0 + 0 + x + l + f <= t + w + n
          BY <1>7, <1>8, <4>1, <4>3, SMT
        <4>5. QED
          BY <1>1, <1>2, <1>6, <2>2, <4>2, <4>4
      <3>6. QED
        BY <1>2, <1>3, <1>4, <3>2, <3>3, <3>4, <3>5, AtRest
    <2>5. ASSUME NEW kind \in Requests, phase' \in {"request", "ecdh"}, kind # "initialize",
                 unwritten' = PacketsOf(kind, TRUE), spoiled' = spoiled
          PROVE  IInv'
      <3>1. unwritten' \in Seq(Packets(Requests)) /\ Writing' /\ ~Underway'
        BY <2>1, <2>5, WritesWhole
      <3>2. Types'
        BY <1>2, <1>4, <2>2, <2>5, <3>1 DEF Types
      <3>3. QED
        BY <2>3, <2>5, <3>1, <3>2
    <2>6. CASE /\ phase' = "request"
               /\ unwritten' = PacketsOf(IF legacy THEN "sign_identity" ELSE "get_public_key", TRUE)
               /\ UNCHANGED <<result, spoiled>>
      <3>1. PICK kind : kind = IF legacy THEN "sign_identity" ELSE "get_public_key"
        OBVIOUS
      <3>2. kind \in Requests /\ kind # "initialize"
        BY <3>1, SMT DEF Requests
      <3>3. QED
        BY <2>5, <2>6, <3>1, <3>2
    <2>7. CASE /\ phase' = "ecdh" /\ unwritten' = PacketsOf("get_ecdh_session", TRUE)
               /\ UNCHANGED <<result, spoiled>>
      <3>1. "get_ecdh_session" \in Requests
        BY SMT DEF Requests
      <3>2. QED
        BY <2>5, <2>7, <3>1
    <2>8. CASE phase' = "returned" /\ UNCHANGED <<unwritten, spoiled>>
      <3>1. Types'
        BY <1>2, <1>4, <2>2, <2>8 DEF Types
      <3>2. unwritten' = <<>> /\ Writing'
        BY <1>1, <2>1, <2>8, SMT DEF Writing
      <3>3. ~Underway'
        BY <2>8, <3>2 DEF Underway, ReadPhase, Mid
      <3>4. QED
        BY <2>3, <2>8, <3>1, <3>2, <3>3
    <2>9. CASE /\ phase # "status" /\ Empty(m)
               /\ UNCHANGED <<phase, unwritten, result, spoiled>>
      <3>1. ReadPhase' /\ Underway' /\ ~Mid' /\ (Later' <=> Later) /\ unwritten' = <<>>
        BY <1>1, <2>9 DEF ReadPhase, Underway, Mid, Later
      <3>2. Types'
        BY <1>2, <1>4, <2>2, <2>9 DEF Types
      <3>3. Writing'
        BY <2>1, <3>1, SMT DEF Writing
      <3>4. Asked'
        BY <1>2, <3>1 DEF Asked, Underway
      <3>5. Sending(a, b)'
        BY <1>1, <1>2, <1>3, <3>1 DEF Sending
      <3>6. Answering(g, d)'
        BY <1>3, <1>4, <2>1 DEF Answering
      <3>7. Awaited(d)'
        <4>1. Later
          BY <2>9 DEF Later, ReadPhase
        <4>2. device = Idle /\ NoFirst(toDevice) => d.kind # "features"
          BY <4>1 DEF At, Awaited, Underway
        <4>3. CASE fromDevice' # <<>>
          BY <1>2, <3>1, <4>2, <4>3 DEF Awaited
        <4>4. CASE fromDevice' = <<>>
          <5>1. g = d
            <6>1. PICK q0 : q0 = fromDevice'
              OBVIOUS
            <6>2. Leads(g, q0, d, TRUE) /\ Len(q0) = 0 /\ Len(q0) \in Nat /\ TRUE \in BOOLEAN
              <7>1. Len(<<>>) = 0 /\ 0 \in Nat
                BY SMT
              <7>2. QED
                BY <1>4, <4>4, <6>1, <7>1
            <6>3. QED
              BY <6>2, LeadsOn
          <5>2. d.kind = "features"
            BY <1>9, <2>9, <5>1 DEF Empty
          <5>3. QED
            BY <1>2, <4>2, <5>2 DEF Awaited
        <4>5. QED
          BY <4>3, <4>4
      <3>8. Afforded(a, b, g, d)'
        <4>1. Unfinished(b)' = 0 /\ Replying(g)' = 0
          BY <1>1, <2>1, <2>2, <3>1 DEF Unfinished, Replying
        <4>2. One(Stuck)' = y
          BY <1>2, <1>6, <3>1, OneIsNat DEF Stuck
        <4>3. u + 0 + 0 + x + y + l + f <= t + w + n
          BY <1>7, <1>8, SMT
        <4>4. QED
          BY <1>2, <1>6, <2>9, <4>1, <4>2, <4>3 DEF Afforded
      <3>9. QED
        BY <3>2, <3>3, <3>4, <3>5, <3>6, <3>7, <3>8 DEF IInv, At
    <2>10. QED
      BY <2>1, <2>4, <2>6, <2>7, <2>8, <2>9, Zenon DEF Handle
  <1>11. CASE m.missing # 0
    <2>1. reading' = m /\ phase' = phase /\ unwritten' = unwritten /\ spoiled' = spoiled
      BY <1>11 DEF Collect
    <2>2. m \in Partials(Replies) /\ m # Idle
      BY <1>5, <1>9, <1>11, SMT
    <2>3. ReadPhase' /\ Underway' /\ ~Mid' /\ (Later' <=> Later) /\ unwritten' = <<>>
      BY <1>1, <2>1 DEF ReadPhase, Underway, Mid, Later
    <2>4. Types'
      BY <1>2, <1>4, <2>1, <2>2 DEF Types
    <2>5. Writing'
      BY <2>3, SMT DEF Writing
    <2>6. Asked'
      BY <1>2, <2>3 DEF Asked, Underway
    <2>7. Sending(a, b)'
      BY <1>1, <1>2, <1>3, <2>3 DEF Sending
    <2>8. Answering(g, d)'
      BY <1>3, <1>4, <1>9, <2>1 DEF Answering
    <2>9. Awaited(d)'
      BY <1>2, <2>1, <2>2, <2>3 DEF At, Awaited, Underway
    <2>10. Afforded(a, b, g, d)'
      <3>1. Unfinished(b)' = 0 /\ Replying(g)' = o
        BY <1>1, <1>6, <2>1, <2>2, <2>3, OneIsNat DEF Unfinished, Replying
      <3>2. One(Stuck)' = y
        BY <1>2, <1>6, <2>3, OneIsNat DEF Stuck
      <3>3. u + 0 + o + x + y + l + f <= t + w + n
        BY <1>7, <1>8, SMT
      <3>4. QED
        BY <1>2, <1>6, <2>1, <3>1, <3>2, <3>3 DEF Afforded
    <2>11. QED
      BY <2>4, <2>5, <2>6, <2>7, <2>8, <2>9, <2>10 DEF IInv, At
  <1>12. QED
    BY <1>10, <1>11

(* The packet in front of the queue from the device.                         *)
LEMMA NextReply ==
    ASSUME Types, fromDevice # <<>>, NEW c \in Places, NEW d \in Places,
           Leads(c, fromDevice, d, TRUE), NEW p, p = Head(fromDevice)
    PROVE  /\ p.kind \in Replies /\ p.first \in BOOLEAN /\ p.own \in BOOLEAN
           /\ Leads(After(c, p), Tail(fromDevice), d, TRUE)
           /\ After(c, p) \in Places /\ After(c, p).kind = p.kind
           /\ p.first => /\ c.left = 0 /\ After(c, p).left = Length[p.kind] - 1
                         /\ Length[p.kind] \in Nat \ {0}
                         /\ After(c, p).failed = c.failed + One(p.kind = "failure")
           /\ ~p.first => /\ c.left > 0 /\ p.kind = c.kind
                          /\ After(c, p).left = c.left - 1 /\ After(c, p).failed = c.failed
  <1>1. PICK q : q = fromDevice
    OBVIOUS
  <1>2. q \in Seq(Packets(Replies)) /\ q # <<>> /\ Leads(c, q, d, TRUE)
    BY <1>1 DEF Types
  <1>3. Head(q) = p /\ p \in Packets(Replies)
    BY <1>1, <1>2, TailOf
  <1>4. p.kind \in Replies /\ p.first \in BOOLEAN /\ p.own \in BOOLEAN
    BY <1>3, SMT DEF Packets
  <1>5. PICK w : w = TRUE
    OBVIOUS
  <1>6. Fits(c, p, w) /\ Leads(After(c, p), Tail(q), d, w)
    <2>1. w \in BOOLEAN /\ Leads(c, q, d, w)
      BY <1>2, <1>5
    <2>2. QED
      BY <1>2, <1>3, <2>1, Taken
  <1>7. After(c, p) \in Places
    <2>1. w \in BOOLEAN /\ p \in Packets(Kinds)
      BY <1>3, <1>5, KindsOf
    <2>2. QED
      BY <1>6, <2>1, PlaceAfter
  <1>8. p.first => /\ c.left = 0 /\ After(c, p).left = Length[p.kind] - 1
                   /\ Length[p.kind] \in Nat \ {0}
                   /\ After(c, p).failed = c.failed + One(p.kind = "failure")
    <2>1. p.kind \in Kinds
      BY <1>4, KindsOf
    <2>2. Length[p.kind] \in Nat \ {0}
      BY <2>1, LengthIsPositive
    <2>3. p.first = TRUE =>
              After(c, p) = [left |-> Length[p.kind] - 1, kind |-> p.kind, lost |-> c.lost + c.left,
                             failed |-> c.failed + One(p.kind = "failure")]
      BY AfterPacket
    <2>4. p.first => c.left = 0
      BY <1>5, <1>6 DEF Fits
    <2>5. QED
      BY <1>4, <2>2, <2>3, <2>4
  <1>9. ~p.first => /\ c.left > 0 /\ p.kind = c.kind
                    /\ After(c, p).left = c.left - 1 /\ After(c, p).failed = c.failed
    <2>1. p.first = FALSE =>
              After(c, p) = [left |-> c.left - 1, kind |-> p.kind, lost |-> c.lost,
                             failed |-> c.failed]
      BY AfterPacket
    <2>2. ~p.first => c.left > 0 /\ p.kind = c.kind
      BY <1>6 DEF Fits
    <2>3. QED
      BY <1>4, <2>1, <2>2
  <1>10. After(c, p).kind = p.kind
    BY DEF After
  <1>11. QED
    BY <1>1, <1>4, <1>5, <1>6, <1>7, <1>8, <1>9, <1>10

LEMMA HostReads ==
    ASSUME IInv, ReadFirst \/ ReadRest
    PROVE  IInv'
  <1>1. PICK a, b, c, d \in Places : At(a, b, c, d)
    BY DEF IInv
  <1>2. Types /\ Writing /\ Asked
    BY DEF IInv
  <1>3. PICK p, g : p = Head(fromDevice) /\ g = After(c, p)
    OBVIOUS
  <1>4. /\ ReadPhase /\ fromDevice # <<>> /\ fromDevice' = Tail(fromDevice)
        /\ UNCHANGED <<legacy, toDevice, device, faults, debt>>
        /\ \/ reading = Idle /\ p.first /\ Collect(Begin(p))
           \/ reading = Idle /\ ~p.first /\ Spoil /\ UNCHANGED <<unwritten, reading, result>>
           \/ reading # Idle /\ Collect(Continue(reading, p))
    BY <1>3, Zenon DEF ReadFirst, ReadRest
  <1>5. /\ p.kind \in Replies /\ p.first \in BOOLEAN /\ p.own \in BOOLEAN
        /\ Leads(g, Tail(fromDevice), d, TRUE) /\ g \in Places /\ g.kind = p.kind
        /\ p.first => /\ c.left = 0 /\ g.left = Length[p.kind] - 1
                      /\ Length[p.kind] \in Nat \ {0}
                      /\ g.failed = c.failed + One(p.kind = "failure")
        /\ ~p.first => /\ c.left > 0 /\ p.kind = c.kind
                       /\ g.left = c.left - 1 /\ g.failed = c.failed
    <2>1. Leads(c, fromDevice, d, TRUE)
      BY <1>1 DEF At, Answering
    <2>2. QED
      BY <1>2, <1>3, <1>4, <2>1, NextReply
  <1>6. c.left \in Nat /\ c.failed \in Nat /\ g.left \in Nat /\ g.failed \in Nat
    BY <1>5, PlaceFields
  <1>7. CASE reading = Idle /\ p.first /\ Collect(Begin(p))
    <2>1. PICK m, n, i : m = Begin(p) /\ n = g.left /\ i = TRUE
      OBVIOUS
    <2>2. m = Partial(p.kind, n, p.own, i) /\ i \in BOOLEAN /\ n \in Nat
      BY <1>5, <1>6, <1>7, <2>1 DEF Begin
    <2>3. /\ m.kind = p.kind /\ m.missing = g.left
          /\ m.missing > 0 => m # Idle /\ m \in Partials(Replies)
      <3>1. /\ m.kind = p.kind /\ m.missing = n
            /\ m.missing > 0 => m # Idle /\ m \in Partials(Replies)
        BY <1>5, <2>2, PartialOf
      <3>2. QED
        BY <2>1, <3>1
    <2>4. Replying(c) + g.failed = One(m.kind = "failure") + c.failed
      <3>1. Replying(c) = 0 /\ g.failed = c.failed + One(m.kind = "failure")
        BY <1>5, <1>7, <2>3 DEF Replying
      <3>2. PICK o, f : o = One(m.kind = "failure") /\ f = c.failed
        OBVIOUS
      <3>3. o \in Nat /\ f \in Nat
        BY <1>6, <3>2, OneIsNat
      <3>4. 0 + (f + o) = o + f
        BY <3>3, SMT
      <3>5. QED
        BY <3>1, <3>2, <3>4
    <2>5. Got(m, c, g)
      BY <1>5, <2>3, <2>4 DEF Got
    <2>6. Collect(m)
      BY <1>7, <2>1
    <2>7. QED
      BY <1>1, <1>2, <1>4, <1>5, <2>5, <2>6, Collected
  <1>8. CASE reading # Idle /\ Collect(Continue(reading, p))
    <2>1. /\ reading.missing \in Nat /\ reading.own \in BOOLEAN /\ reading.intact \in BOOLEAN
          /\ reading.missing > 0 /\ reading.kind \in Replies
      BY <1>2, <1>8, PartialFields DEF Types
    <2>2. reading.missing = c.left /\ reading.kind = c.kind
      BY <1>1, <1>8 DEF At, Answering
    <2>3. ~p.first
      BY <1>5, <2>1, <2>2, SMT
    <2>4. PICK m, i : m = Continue(reading, p) /\ i = (reading.intact /\ ~p.first /\ p.kind = reading.kind)
      OBVIOUS
    <2>5. i \in BOOLEAN
      BY <2>1, <2>4
    <2>6. m = Partial(reading.kind, g.left, reading.own, i)
      BY <1>5, <2>2, <2>3, <2>4 DEF Continue
    <2>7. /\ m.kind = reading.kind /\ m.missing = g.left
          /\ m.missing > 0 => m # Idle /\ m \in Partials(Replies)
      BY <1>6, <2>1, <2>5, <2>6, PartialOf
    <2>8. Replying(c) + g.failed = One(m.kind = "failure") + c.failed
      BY <1>5, <1>8, <2>3, <2>7 DEF Replying
    <2>9. Got(m, c, g)
      BY <1>5, <2>1, <2>2, <2>3, <2>7, <2>8 DEF Got
    <2>10. Collect(m)
      BY <1>8, <2>4
    <2>11. QED
      BY <1>1, <1>2, <1>4, <1>5, <2>9, <2>10, Collected
  <1>9. CASE reading = Idle /\ ~p.first /\ Spoil /\ UNCHANGED <<unwritten, reading, result>>
    <2>1. phase' = "failed" /\ spoiled' \in Nat /\ spoiled' <= spoiled + 1
      BY <1>2, <1>9, SpoilIs DEF Types
    <2>2. /\ unwritten = <<>> /\ b.left = 0
          /\ spoiled + Replying(c) + Damage + One(Stuck) + b.lost + d.failed
               <= debt + a.lost + c.failed
      BY <1>1, <1>2, <1>4, Reads
    <2>3. fromDevice' \in Seq(Packets(Replies)) /\ Leads(g, fromDevice', d, TRUE)
      BY <1>2, <1>4, <1>5, TailOf DEF Types
    <2>4. Types'
      BY <1>2, <1>4, <1>9, <2>1, <2>3 DEF Types
    <2>5. Writing' /\ ~Underway'
      <3>1. unwritten' = <<>> /\ reading' = Idle
        BY <1>9, <2>2
      <3>2. Writing'
        BY <3>1, SMT DEF Writing
      <3>3. ~Underway'
        BY <2>1, <3>1 DEF Underway, ReadPhase, Mid
      <3>4. QED
        BY <3>2, <3>3
    <2>6. spoiled' + b.left + g.left + Damage' + b.lost + d.failed <= debt' + a.lost + g.failed
      <3>1. PICK u, v, x, y, l, f, t, w, k, n, h :
               /\ u = spoiled /\ v = spoiled' /\ x = Damage /\ y = One(Stuck) /\ l = b.lost
               /\ f = d.failed /\ t = debt /\ w = a.lost /\ k = c.failed /\ n = g.left
               /\ h = c.left
        OBVIOUS
      <3>2. /\ u \in Nat /\ v \in Nat /\ x \in Nat /\ y \in Nat /\ l \in Nat /\ f \in Nat
            /\ t \in Nat /\ w \in Nat /\ k \in Nat /\ n \in Nat /\ h \in Nat
        BY <1>2, <1>6, <2>1, <3>1, Counts
      <3>3. u + h + x + y + l + f <= t + w + k
        BY <1>9, <2>2, <3>1 DEF Replying
      <3>4. n = h - 1 /\ v <= u + 1
        BY <1>5, <1>9, <2>1, <3>1
      <3>5. v + 0 + n + x + l + f <= t + w + k
        BY <3>2, <3>3, <3>4, SMT
      <3>6. Damage' = Damage /\ debt' = debt /\ g.failed = c.failed
        BY <1>4, <1>5, <1>9 DEF Damage
      <3>7. QED
        BY <2>2, <3>1, <3>5, <3>6
    <2>7. /\ Leads(a, toDevice', b, FALSE) /\ d.left = 0
          /\ device' # Idle /\ device'.intact => device'.missing = a.left /\ device'.kind = a.kind
      BY <1>1, <1>4 DEF At, Sending, Answering
    <2>8. QED
      BY <1>5, <2>3, <2>4, <2>5, <2>6, <2>7, AtRest
  <1>10. QED
    BY <1>4, <1>7, <1>8, <1>9

LEMMA AfterWriteIs ==
    ASSUME phase \in {"initialize", "request", "ecdh"}, NEW next, next = AfterWrite[phase]
    PROVE  /\ next \in {"status", "peerKey", "secret"}
           /\ phase = "initialize" => next = "status"
  <1>1. CASE phase = "initialize"
    BY <1>1, SMT DEF AfterWrite
  <1>2. CASE phase = "request"
    BY <1>2, SMT DEF AfterWrite
  <1>3. CASE phase = "ecdh"
    BY <1>3, SMT DEF AfterWrite
  <1>4. QED
    BY <1>1, <1>2, <1>3

LEMMA AppendOf ==
    ASSUME NEW kinds, NEW q \in Seq(Packets(kinds)), NEW p \in Packets(kinds)
    PROVE  /\ Append(q, p) \in Seq(Packets(kinds)) /\ Append(q, p) # <<>>
           /\ Len(q) \in Nat /\ Len(Append(q, p)) = Len(q) + 1
           /\ \A i \in 1..Len(q) : Append(q, p)[i] = q[i]
           /\ Append(q, p)[Len(q) + 1] = p
           /\ NoFirst(Append(q, p)) => ~p.first /\ NoFirst(q)
           /\ \A i \in 1..Len(q) + 1 :
                 LastFirst(Append(q, p), i) =>
                    IF p.first THEN i = Len(q) + 1 ELSE i \in 1..Len(q) /\ LastFirst(q, i)
  <1>1. PICK S, r, n : S = Packets(kinds) /\ r = Append(q, p) /\ n = Len(q)
    OBVIOUS
  <1>2. q \in Seq(S) /\ p \in S
    BY <1>1
  <1>3. /\ n \in Nat /\ r \in Seq(S) /\ r # <<>> /\ Len(r) = n + 1
        /\ (\A i \in 1..n : r[i] = q[i] /\ i \in 1..n + 1) /\ r[n + 1] = p
    BY <1>1, <1>2, SMT
  <1>4. n + 1 \in 1..n + 1 /\ (\A i \in 1..n + 1 : i \in 1..n \/ i = n + 1)
        /\ \A i \in 1..n : n + 1 > i
    BY <1>3, SMT
  <1>5. ASSUME NoFirst(r)
        PROVE  ~p.first /\ NoFirst(q)
    BY <1>1, <1>3, <1>4, <1>5 DEF NoFirst
  <1>6. ASSUME NEW i \in 1..n + 1, LastFirst(r, i)
        PROVE  IF p.first THEN i = n + 1 ELSE i \in 1..n /\ LastFirst(q, i)
    <2>1. r[i].first /\ \A j \in 1..n + 1 : j > i => ~r[j].first
      BY <1>3, <1>6 DEF LastFirst
    <2>2. CASE p.first
      BY <1>3, <1>4, <2>1, <2>2
    <2>3. CASE ~p.first
      <3>1. i \in 1..n
        BY <1>3, <1>4, <2>1, <2>3
      <3>2. LastFirst(q, i)
        BY <1>1, <1>3, <2>1, <3>1 DEF LastFirst
      <3>3. QED
        BY <2>3, <3>1, <3>2
    <2>4. QED
      BY <2>2, <2>3
  <1>7. QED
    BY <1>1, <1>3, <1>5, <1>6

(* p is the next packet of the message that is being written, and prolongs   *)
(* the queue to the device by one.                                           *)
Prolongs(p, a, b) ==
    /\ p \in Packets(Requests) /\ p = unwritten[1] /\ (Mid <=> ~p.first)
    /\ Leads(a, Append(toDevice, p), After(b, p), FALSE)
    /\ After(b, p) \in Places /\ After(b, p).kind = p.kind
    /\ After(b, p).left = Len(unwritten) - 1
    /\ After(b, p).lost = b.lost + Unfinished(b)

(* The host that writes is at one of three places, and collects nothing.     *)
Writer(p) ==
    /\ reading = Idle /\ phase \in {"initialize", "request", "ecdh"}
    /\ phase # "initialize" => p.kind # "initialize"

LEMMA Written ==
    ASSUME Types, Writing, unwritten # <<>>,
           NEW a \in Places, NEW b \in Places, NEW c \in Places, NEW d \in Places,
           At(a, b, c, d), NEW p, p = Head(unwritten)
    PROVE  Prolongs(p, a, b) /\ Writer(p)
  <1>1. /\ p = unwritten[1] /\ p \in Packets(Requests) /\ Len(unwritten) \in Nat \ {0}
    BY TailOf DEF Types
  <1>2. /\ phase \in {"initialize", "request", "ecdh"}
        /\ phase # "initialize" => p.kind # "initialize"
        /\ p.first => Len(unwritten) = Length[p.kind]
    BY <1>1 DEF Writing
  <1>3. reading = Idle
    BY <1>2 DEF Writing, ReadPhase
  <1>4. Mid <=> ~p.first
    BY DEF Mid
  <1>5. p.first \in BOOLEAN /\ p.kind \in Requests
    BY <1>1, SMT DEF Packets
  <1>6. b.left \in Nat /\ b.lost \in Nat
    BY PlaceFields
  <1>7. /\ Leads(a, toDevice, b, FALSE)
        /\ Mid => b.left = Len(unwritten) /\ b.kind = p.kind
    BY DEF At, Sending
  <1>8. PICK w : w = FALSE
    OBVIOUS
  <1>9. w \in BOOLEAN /\ p \in Packets(Kinds) /\ Leads(a, toDevice, b, w)
    BY <1>1, <1>7, <1>8, KindsOf
  <1>10. Fits(b, p, w)
    <2>1. ~p.first => b.left > 0
      BY <1>1, <1>4, <1>7, SMT
    <2>2. QED
      BY <1>4, <1>7, <1>8, <2>1 DEF Fits
  <1>11. Leads(a, Append(toDevice, p), After(b, p), w) /\ After(b, p) \in Places
    <2>1. toDevice \in Seq(Packets(Requests))
      BY DEF Types
    <2>2. QED
      BY <1>9, <1>10, <2>1, Put, PlaceAfter
  <1>12. Leads(a, Append(toDevice, p), After(b, p), FALSE) /\ After(b, p).kind = p.kind
    BY <1>8, <1>11 DEF After
  <1>13. CASE p.first
    <2>1. p.first = TRUE
      BY <1>5, <1>13
    <2>2. After(b, p) = [left |-> Length[p.kind] - 1, kind |-> p.kind, lost |-> b.lost + b.left,
                         failed |-> b.failed + One(p.kind = "failure")]
      BY <2>1, AfterPacket
    <2>3. Unfinished(b) = b.left
      BY <1>4, <1>13 DEF Unfinished
    <2>4. After(b, p).left = Len(unwritten) - 1 /\ After(b, p).lost = b.lost + Unfinished(b)
      BY <1>2, <1>13, <2>2, <2>3
    <2>5. QED
      BY <1>1, <1>2, <1>3, <1>4, <1>11, <1>12, <2>4 DEF Prolongs, Writer
  <1>14. CASE ~p.first
    <2>1. p.first = FALSE
      BY <1>5, <1>14
    <2>2. After(b, p) = [left |-> b.left - 1, kind |-> p.kind, lost |-> b.lost,
                         failed |-> b.failed]
      BY <2>1, AfterPacket
    <2>3. Unfinished(b) = 0 /\ b.lost + 0 = b.lost
      BY <1>4, <1>6, <1>14, SMT DEF Unfinished
    <2>4. After(b, p).left = Len(unwritten) - 1 /\ After(b, p).lost = b.lost + Unfinished(b)
      BY <1>4, <1>7, <1>14, <2>2, <2>3
    <2>5. QED
      BY <1>1, <1>2, <1>3, <1>4, <1>11, <1>12, <2>4 DEF Prolongs, Writer
  <1>15. QED
    BY <1>13, <1>14

LEMMA WritesPacket ==
    ASSUME IInv, WritePacket
    PROVE  IInv'
  <1>1. PICK a, b, c, d \in Places : At(a, b, c, d)
    BY DEF IInv
  <1>2. Types /\ Writing /\ Asked
    BY DEF IInv
  <1>3. PICK p, e : p = Head(unwritten) /\ e = After(b, p)
    OBVIOUS
  <1>4. /\ unwritten # <<>> /\ toDevice' = Append(toDevice, p) /\ unwritten' = Tail(unwritten)
        /\ phase' = IF unwritten' = <<>> THEN AfterWrite[phase] ELSE phase
        /\ legacy' = legacy /\ reading' = reading /\ fromDevice' = fromDevice /\ device' = device
        /\ debt' = debt /\ spoiled' = spoiled
    BY <1>3 DEF WritePacket, historyVars
  <1>5. /\ p \in Packets(Requests) /\ reading = Idle /\ p = unwritten[1]
        /\ phase \in {"initialize", "request", "ecdh"}
        /\ phase # "initialize" => p.kind # "initialize"
        /\ Mid <=> ~p.first
        /\ Leads(a, toDevice', e, FALSE) /\ e \in Places /\ e.kind = p.kind
        /\ e.left = Len(unwritten) - 1 /\ e.lost = b.lost + Unfinished(b)
    <2>1. Types /\ Writing /\ unwritten # <<>> /\ p = Head(unwritten)
      BY <1>2, <1>3, <1>4
    <2>2. Prolongs(p, a, b) /\ Writer(p)
      BY <1>1, <2>1, Written
    <2>3. QED
      BY <1>3, <1>4, <2>2 DEF Prolongs, Writer
  <1>6. PICK u : u = unwritten'
    OBVIOUS
  <1>7. /\ u \in Seq(Packets(Requests)) /\ Len(u) = Len(unwritten) - 1 /\ Len(unwritten) \in Nat \ {0}
        /\ \A i \in 1..Len(u) : i + 1 \in 1..Len(unwritten) /\ u[i] = unwritten[i + 1]
    <2>1. unwritten \in Seq(Packets(Requests))
      BY <1>2 DEF Types
    <2>2. /\ Tail(unwritten) \in Seq(Packets(Requests))
          /\ Len(Tail(unwritten)) = Len(unwritten) - 1 /\ Len(unwritten) \in Nat \ {0}
          /\ \A i \in 1..Len(Tail(unwritten)) :
                i + 1 \in 1..Len(unwritten) /\ Tail(unwritten)[i] = unwritten[i + 1]
      BY <1>4, <2>1, TailOf
    <2>3. QED
      BY <1>4, <1>6, <2>2
  <1>8. \A i \in 1..Len(u) : u[i].kind = p.kind /\ ~u[i].first
    <2>1. TAKE i \in 1..Len(u)
    <2>2. i + 1 > 1
      BY <1>7, SMT
    <2>3. QED
      BY <1>2, <1>5, <1>7, <2>2 DEF Writing
  <1>9. u # <<>> => 1 \in 1..Len(u) /\ Head(u) = u[1] /\ u[1].kind = p.kind /\ ~u[1].first
    <2>1. u # <<>> => 1 \in 1..Len(u) /\ Head(u) = u[1]
      BY <1>7, SMT
    <2>2. QED
      BY <1>8, <2>1
  <1>10. Mid' <=> u # <<>>
    BY <1>6, <1>9 DEF Mid
  <1>11. /\ u # <<>> => phase' = phase
         /\ u = <<>> => /\ phase' \in {"status", "peerKey", "secret"}
                        /\ phase = "initialize" => phase' = "status"
    BY <1>4, <1>5, <1>6, AfterWriteIs
  <1>12. (ReadPhase' <=> u = <<>>) /\ (Underway /\ Later' => Later) /\ (Later' => phase # "initialize" /\ Later)
    BY <1>5, <1>11 DEF ReadPhase, Later
  <1>13. /\ toDevice \in Seq(Packets(Requests))
         /\ toDevice' \in Seq(Packets(Requests)) /\ toDevice' # <<>>
         /\ Len(toDevice) \in Nat /\ Len(toDevice') = Len(toDevice) + 1
         /\ \A i \in 1..Len(toDevice) : toDevice'[i] = toDevice[i]
         /\ toDevice'[Len(toDevice) + 1] = p
         /\ NoFirst(toDevice') => ~p.first /\ NoFirst(toDevice)
         /\ \A i \in 1..Len(toDevice) + 1 :
               LastFirst(toDevice', i) =>
                  IF p.first THEN i = Len(toDevice) + 1
                  ELSE i \in 1..Len(toDevice) /\ LastFirst(toDevice, i)
    <2>1. toDevice \in Seq(Packets(Requests))
      BY <1>2 DEF Types
    <2>2. PICK q : q = toDevice
      OBVIOUS
    <2>3. q \in Seq(Packets(Requests)) /\ toDevice' = Append(q, p)
      BY <1>4, <2>1, <2>2
    <2>4. QED
      BY <1>5, <2>2, <2>3, AppendOf
  <1>14. Types'
    <2>1. phase' \in {"initialize", "status", "request", "peerKey", "ecdh", "secret",
                      "returned", "failed"}
      BY <1>5, <1>11
    <2>2. QED
      BY <1>2, <1>4, <1>6, <1>7, <1>13, <2>1 DEF Types
  <1>15. Writing'
    BY <1>4, <1>5, <1>6, <1>8, <1>9, <1>11 DEF Writing
  <1>16. Asked'
    <2>1. ASSUME Underway', Later', NEW i \in 1..Len(toDevice'), LastFirst(toDevice', i)
          PROVE  toDevice'[i].kind # "initialize"
      <3>1. CASE p.first
        BY <1>5, <1>12, <1>13, <2>1, <3>1
      <3>2. CASE ~p.first
        <4>1. i \in 1..Len(toDevice) /\ LastFirst(toDevice, i) /\ toDevice'[i] = toDevice[i]
          BY <1>13, <2>1, <3>2
        <4>2. QED
          BY <1>2, <1>5, <1>12, <2>1, <3>2, <4>1 DEF Asked, Underway
      <3>3. QED
        BY <3>1, <3>2
    <2>2. ASSUME Later', NoFirst(toDevice'), device' # Idle, device'.intact
          PROVE  device'.kind # "initialize"
      <3>1. Mid /\ NoFirst(toDevice) /\ Later
        BY <1>5, <1>12, <1>13, <2>2
      <3>2. QED
        BY <1>2, <1>4, <2>2, <3>1 DEF Asked, Underway
    <2>3. QED
      BY <2>1, <2>2 DEF Asked
  <1>17. Sending(a, e)'
    <2>1. device' # Idle /\ device'.intact => device'.missing = a.left /\ device'.kind = a.kind
      BY <1>1, <1>4 DEF At, Sending
    <2>2. Mid' => e.left = Len(unwritten') /\ e.kind = Head(unwritten').kind
      BY <1>5, <1>6, <1>7, <1>9, <1>10
    <2>3. ReadPhase' => e.left = 0
      <3>1. u = <<>> => Len(u) = 0
        BY SMT
      <3>2. QED
        BY <1>5, <1>7, <1>12, <3>1
    <2>4. QED
      BY <1>5, <2>1, <2>2, <2>3 DEF Sending
  <1>18. Answering(c, d)'
    BY <1>1, <1>4 DEF At, Answering
  <1>19. Awaited(d)'
    <2>1. ASSUME device' = Idle, NoFirst(toDevice')
          PROVE  (fromDevice' # <<>> \/ reading' # Idle) /\ (Later' => d.kind # "features")
      <3>1. Mid /\ NoFirst(toDevice) /\ (Later' => Later)
        BY <1>5, <1>12, <1>13, <2>1
      <3>2. QED
        BY <1>1, <1>4, <2>1, <3>1 DEF At, Awaited, Underway
    <2>2. QED
      BY <2>1 DEF Awaited
  <1>20. Afforded(a, e, c, d)'
    <2>1. Unfinished(e)' = 0
      <3>1. u = <<>> => Len(u) = 0
        BY SMT
      <3>2. QED
        BY <1>5, <1>7, <1>10, <3>1 DEF Unfinished
    <2>2. Replying(c)' = Replying(c) /\ Damage' = Damage /\ One(Stuck)' = 0
      BY <1>4, <1>13, OneIsNat DEF Replying, Damage, Stuck
    <2>3. PICK s, n, r, x, y, l, f, k :
             /\ s = spoiled /\ n = Unfinished(b) /\ r = Replying(c) /\ x = Damage /\ y = One(Stuck)
             /\ l = b.lost /\ f = d.failed /\ k = debt + a.lost + c.failed
      OBVIOUS
    <2>4. /\ s \in Nat /\ n \in Nat /\ r \in Nat /\ x \in Nat /\ y \in Nat /\ l \in Nat
          /\ f \in Nat /\ k \in Nat
      <3>1. s \in Nat /\ n \in Nat /\ r \in Nat /\ x \in Nat /\ y \in Nat /\ l \in Nat /\ f \in Nat
        BY <1>2, <2>3, Counts
      <3>2. debt \in Nat /\ a.lost \in Nat /\ c.failed \in Nat
        BY <1>2, Counts
      <3>3. QED
        BY <2>3, <3>1, <3>2, SMT
    <2>5. s + n + r + x + y + l + f <= k
      BY <1>1, <2>3 DEF At, Afforded
    <2>6. s + 0 + r + x + 0 + (l + n) + f <= k
      BY <2>4, <2>5, SMT
    <2>7. QED
      BY <1>4, <1>5, <2>1, <2>2, <2>3, <2>6 DEF Afforded
  <1>21. QED
    BY <1>1, <1>5, <1>14, <1>15, <1>16, <1>17, <1>18, <1>19, <1>20 DEF IInv, At

-----------------------------------------------------------------------------
(* Faults, and the person.                                                   *)

(* What is lost never exceeds what the interrupted messages lacked.          *)
LEMMA Bounded ==
    ASSUME Types, NEW a \in Places, NEW b \in Places, NEW c \in Places, NEW d \in Places,
           At(a, b, c, d)
    PROVE  /\ spoiled <= debt /\ a.lost <= b.lost /\ c.failed <= d.failed
           /\ toDevice = <<>> => a = b
           /\ fromDevice = <<>> => c = d
  <1>1. Leads(a, toDevice, b, FALSE) /\ Leads(c, fromDevice, d, TRUE)
    BY DEF At, Sending, Answering
  <1>2. PICK q, r, t, w : q = toDevice /\ r = fromDevice /\ t = TRUE /\ w = FALSE
    OBVIOUS
  <1>3. /\ Len(q) \in Nat /\ Len(r) \in Nat /\ t \in BOOLEAN /\ w \in BOOLEAN
        /\ Leads(a, q, b, w) /\ Leads(c, r, d, t)
    BY <1>1, <1>2, LenProperties DEF Types
  <1>4. /\ a.lost <= b.lost /\ c.failed <= d.failed
        /\ Len(q) = 0 => a = b
        /\ Len(r) = 0 => c = d
    BY <1>3, LeadsOn
  <1>5. Len(<<>>) = 0
    BY SMT
  <1>6. spoiled <= debt
    <2>1. PICK s, n, r0, x, y, l, f, k, g, h :
             /\ s = spoiled /\ n = Unfinished(b) /\ r0 = Replying(c) /\ x = Damage /\ y = One(Stuck)
             /\ l = b.lost /\ f = d.failed /\ k = debt /\ g = a.lost /\ h = c.failed
      OBVIOUS
    <2>2. /\ s \in Nat /\ n \in Nat /\ r0 \in Nat /\ x \in Nat /\ y \in Nat /\ l \in Nat
          /\ f \in Nat /\ k \in Nat /\ g \in Nat /\ h \in Nat
      BY <2>1, Counts
    <2>3. s + n + r0 + x + y + l + f <= k + g + h
      BY <2>1 DEF At, Afforded
    <2>4. g <= l /\ h <= f
      BY <1>4, <2>1
    <2>5. s <= k
      BY <2>2, <2>3, <2>4, SMT
    <2>6. QED
      BY <2>1, <2>5
  <1>7. QED
    BY <1>2, <1>4, <1>5, <1>6

(* A host that hangs has collected nothing, and the device is inside a       *)
(* message another one has damaged.                                          *)
LEMMA Hanging ==
    ASSUME Types, Writing, NEW a \in Places, NEW b \in Places, NEW c \in Places, NEW d \in Places,
           At(a, b, c, d), Hangs
    PROVE  /\ device # Idle /\ ~device.intact /\ device.missing > 0 /\ reading = Idle
           /\ b.left = 0 /\ c.left = 0 /\ One(Stuck) = 1
           /\ spoiled + Damage + 1 + b.lost + d.failed <= debt + a.lost + c.failed
  <1>1. ReadPhase /\ toDevice = <<>> /\ fromDevice = <<>>
    BY DEF Hangs
  <1>2. a = b /\ c = d
    BY <1>1, Bounded
  <1>3. b.left = 0 /\ c.left = 0
    BY <1>1, <1>2 DEF At, Sending, Answering
  <1>4. reading = Idle
    <2>1. reading # Idle => reading.missing > 0 /\ reading.missing = 0
      BY <1>3, PartialFields DEF At, Answering, Types
    <2>2. QED
      BY <2>1, SMT
  <1>5. NoFirst(toDevice)
    <2>1. Len(toDevice) = 0
      BY <1>1, SMT
    <2>2. QED
      BY <2>1, SMT DEF NoFirst
  <1>6. device # Idle
    BY <1>1, <1>4, <1>5 DEF At, Awaited, Underway
  <1>7. device.missing > 0
    BY <1>6, PartialFields DEF Types
  <1>8. ~device.intact
    <2>1. device.intact => device.missing = 0
      BY <1>2, <1>3, <1>6 DEF At, Sending
    <2>2. QED
      BY <1>7, <2>1, SMT
  <1>9. One(Stuck) = 1
    BY <1>1, <1>6, <1>8, OneIsNat DEF Stuck
  <1>10. Replying(c) = 0
    BY <1>3, <1>4 DEF Replying
  <1>11. spoiled + 0 + Damage + 1 + b.lost + d.failed <= debt + a.lost + c.failed
    <2>1. spoiled + Replying(c) + Damage + One(Stuck) + b.lost + d.failed
            <= debt + a.lost + c.failed
      BY <1>1, Reads
    <2>2. QED
      BY <1>9, <1>10, <2>1
  <1>12. spoiled + 0 = spoiled
    BY SMT DEF Types
  <1>13. QED
    BY <1>3, <1>4, <1>6, <1>7, <1>8, <1>9, <1>11, <1>12

(* A run that dies writes and collects nothing any more.                     *)
LEMMA Dies ==
    ASSUME Die
    PROVE  /\ phase' = "failed" /\ unwritten' = <<>> /\ reading' = Idle
           /\ Writing' /\ ~Underway'
           /\ unwritten' \in Seq(Packets(Requests)) /\ reading' \in Partials(Replies)
  <1>1. phase' = "failed" /\ unwritten' = <<>> /\ reading' = Idle
    BY DEF Die
  <1>2. ~Underway'
    BY <1>1 DEF Underway, ReadPhase, Mid
  <1>3. Writing'
    BY <1>1, SMT DEF Writing
  <1>4. QED
    BY <1>1, <1>2, <1>3, EmptySeq DEF Partials

LEMMA Kills ==
    ASSUME IInv, Kill
    PROVE  IInv'
  <1>1. PICK a, b, c, d \in Places : At(a, b, c, d)
    BY DEF IInv
  <1>2. Types /\ Writing /\ Asked
    BY DEF IInv
  <1>3. /\ Die /\ debt' = debt + Cut + reading.missing
        /\ legacy' = legacy /\ toDevice' = toDevice /\ fromDevice' = fromDevice
        /\ device' = device /\ spoiled' = spoiled
    BY DEF Kill
  <1>4. /\ phase' = "failed" /\ Writing' /\ ~Underway'
        /\ unwritten' \in Seq(Packets(Requests)) /\ reading' \in Partials(Replies)
    BY <1>3, Dies
  <1>5. PICK s, n, r, x, y, l, f, k, g, h, u, v, m, q :
           /\ s = spoiled /\ n = Unfinished(b) /\ r = Replying(c) /\ x = Damage /\ y = One(Stuck)
           /\ l = b.lost /\ f = d.failed /\ k = debt /\ g = a.lost /\ h = c.failed
           /\ u = b.left /\ v = c.left /\ m = reading.missing /\ q = Cut
    OBVIOUS
  <1>6. /\ s \in Nat /\ n \in Nat /\ r \in Nat /\ x \in Nat /\ y \in Nat /\ l \in Nat
        /\ f \in Nat /\ k \in Nat /\ g \in Nat /\ h \in Nat /\ u \in Nat /\ v \in Nat
    BY <1>2, <1>5, Counts
  <1>7. m \in Nat
    BY <1>2, <1>5, PartialFields DEF Types
  <1>8. q \in Nat /\ u <= n + q
    <2>1. CASE Mid
      <3>1. q = u
        BY <1>1, <1>5, <2>1 DEF Cut, Mid, At, Sending
      <3>2. QED
        BY <1>6, <3>1, SMT
    <2>2. CASE ~Mid
      <3>1. q = 0 /\ n = u
        BY <1>5, <2>2 DEF Cut, Mid, Unfinished
      <3>2. QED
        BY <1>6, <3>1, SMT
    <2>3. QED
      BY <2>1, <2>2
  <1>9. v <= r + m
    <2>1. CASE reading = Idle
      <3>1. r = v
        BY <1>5, <2>1 DEF Replying
      <3>2. QED
        BY <1>6, <1>7, <3>1, SMT
    <2>2. CASE reading # Idle
      <3>1. m = v
        BY <1>1, <1>5, <2>2 DEF At, Answering
      <3>2. QED
        BY <1>6, <1>7, <3>1, SMT
    <2>3. QED
      BY <2>1, <2>2
  <1>10. s + n + r + x + y + l + f <= k + g + h
    BY <1>1, <1>5 DEF At, Afforded
  <1>11. k + q + m \in Nat /\ s + u + v + x + l + f <= (k + q + m) + g + h
    BY <1>6, <1>7, <1>8, <1>9, <1>10, SMT
  <1>12. debt' = k + q + m
    BY <1>3, <1>5
  <1>13. Types'
    BY <1>2, <1>3, <1>4, <1>11, <1>12 DEF Types
  <1>14. spoiled' + b.left + c.left + Damage' + b.lost + d.failed <= debt' + a.lost + c.failed
    BY <1>3, <1>5, <1>11, <1>12 DEF Damage
  <1>15. /\ Leads(a, toDevice', b, FALSE) /\ Leads(c, fromDevice', d, TRUE) /\ d.left = 0
         /\ device' # Idle /\ device'.intact => device'.missing = a.left /\ device'.kind = a.kind
    BY <1>1, <1>3 DEF At, Sending, Answering
  <1>16. QED
    BY <1>4, <1>13, <1>14, <1>15, AtRest

LEMMA TimesOut ==
    ASSUME IInv, WriteTimesOut
    PROVE  IInv'
  <1>1. PICK a, b, c, d \in Places : At(a, b, c, d)
    BY DEF IInv
  <1>2. Types /\ Writing /\ Asked
    BY DEF IInv
  <1>3. PICK p, e : p = Head(unwritten) /\ e = After(b, p)
    OBVIOUS
  <1>4. /\ unwritten # <<>> /\ Die /\ toDevice' = Append(toDevice, p)
        /\ debt' = debt + Len(unwritten) - 1
        /\ legacy' = legacy /\ fromDevice' = fromDevice /\ device' = device /\ spoiled' = spoiled
    BY <1>3 DEF WriteTimesOut
  <1>5. /\ phase' = "failed" /\ Writing' /\ ~Underway'
        /\ unwritten' \in Seq(Packets(Requests)) /\ reading' \in Partials(Replies)
    BY <1>4, Dies
  <1>6. Prolongs(p, a, b) /\ Writer(p)
    BY <1>1, <1>2, <1>3, <1>4, Written
  <1>7. /\ p \in Packets(Requests) /\ Leads(a, toDevice', e, FALSE) /\ e \in Places
        /\ e.left = Len(unwritten) - 1 /\ e.lost = b.lost + Unfinished(b) /\ reading = Idle
    BY <1>3, <1>4, <1>6 DEF Prolongs, Writer
  <1>8. toDevice' \in Seq(Packets(Requests))
    <2>1. PICK q : q = toDevice
      OBVIOUS
    <2>2. q \in Seq(Packets(Requests)) /\ toDevice' = Append(q, p)
      BY <1>2, <1>4, <2>1 DEF Types
    <2>3. QED
      BY <1>7, <2>2, AppendOf
  <1>9. PICK s, n, r, x, y, l, f, k, g, h, u, m :
           /\ s = spoiled /\ n = Unfinished(b) /\ r = Replying(c) /\ x = Damage /\ y = One(Stuck)
           /\ l = b.lost /\ f = d.failed /\ k = debt /\ g = a.lost /\ h = c.failed
           /\ u = e.left /\ m = Len(unwritten)
    OBVIOUS
  <1>10. /\ s \in Nat /\ n \in Nat /\ r \in Nat /\ x \in Nat /\ y \in Nat /\ l \in Nat
         /\ f \in Nat /\ k \in Nat /\ g \in Nat /\ h \in Nat /\ m \in Nat
    BY <1>2, <1>9, Counts
  <1>11. u \in Nat /\ u = m - 1
    BY <1>7, <1>9, PlaceFields
  <1>12. r = c.left
    BY <1>7, <1>9 DEF Replying
  <1>13. s + n + r + x + y + l + f <= k + g + h
    BY <1>1, <1>9 DEF At, Afforded
  <1>14. k + m - 1 \in Nat /\ s + u + r + x + (l + n) + f <= (k + m - 1) + g + h
    BY <1>10, <1>11, <1>13, SMT
  <1>15. debt' = k + m - 1
    BY <1>4, <1>9
  <1>16. Types'
    BY <1>2, <1>4, <1>5, <1>8, <1>14, <1>15 DEF Types
  <1>17. spoiled' + e.left + c.left + Damage' + e.lost + d.failed <= debt' + a.lost + c.failed
    BY <1>4, <1>7, <1>9, <1>12, <1>14, <1>15 DEF Damage
  <1>18. /\ Leads(c, fromDevice', d, TRUE) /\ d.left = 0
         /\ device' # Idle /\ device'.intact => device'.missing = a.left /\ device'.kind = a.kind
    BY <1>1, <1>4 DEF At, Sending, Answering
  <1>19. QED
    BY <1>5, <1>7, <1>16, <1>17, <1>18, AtRest

(* Nothing is on the way, and nothing begun.                                 *)
LEMMA Nowhere ==
    ASSUME Types', Writing', ~Underway', toDevice' = <<>>, fromDevice' = <<>>, device' = Idle,
           spoiled' <= debt'
    PROVE  IInv'
  <1>1. PICK z : z = [left |-> 0, kind |-> "none", lost |-> 0, failed |-> 0]
    OBVIOUS
  <1>2. z \in Places /\ z.left = 0 /\ z.lost = 0 /\ z.failed = 0
    BY <1>1, SMT DEF Places
  <1>3. PICK t, w : t = TRUE /\ w = FALSE
    OBVIOUS
  <1>4. Leads(z, <<>>, z, t) /\ Leads(z, <<>>, z, w)
    BY <1>2, <1>3, LeadsNowhere
  <1>5. Leads(z, toDevice', z, FALSE) /\ Leads(z, fromDevice', z, TRUE)
    BY <1>3, <1>4
  <1>6. Damage' = 0
    <2>1. Idle.missing = 0
      BY DEF Idle, Partial
    <2>2. QED
      BY <2>1 DEF Damage
  <1>7. spoiled' + z.left + z.left + Damage' + z.lost + z.failed <= debt' + z.lost + z.failed
    <2>1. PICK s, k : s = spoiled' /\ k = debt'
      OBVIOUS
    <2>2. s \in Nat /\ k \in Nat /\ s <= k
      BY <2>1 DEF Types
    <2>3. s + 0 + 0 + 0 + 0 + 0 <= k + 0 + 0
      BY <2>2, SMT
    <2>4. QED
      BY <1>2, <1>6, <2>1, <2>3
  <1>8. QED
    BY <1>2, <1>5, <1>7, AtRest

LEMMA Unplugs ==
    ASSUME IInv, Unplug
    PROVE  IInv'
  <1>1. PICK a, b, c, d \in Places : At(a, b, c, d)
    BY DEF IInv
  <1>2. Types /\ Writing /\ Asked
    BY DEF IInv
  <1>3. /\ toDevice' = <<>> /\ fromDevice' = <<>> /\ device' = Idle
        /\ legacy' = legacy /\ debt' = debt /\ spoiled' = spoiled
        /\ \/ Die
           \/ ~Running /\ UNCHANGED <<phase, unwritten, reading>>
    BY DEF Unplug
  <1>4. /\ toDevice' \in Seq(Packets(Requests)) /\ fromDevice' \in Seq(Packets(Replies))
        /\ device' \in Partials(Requests) /\ debt' \in Nat /\ spoiled' \in Nat /\ legacy' \in BOOLEAN
    BY <1>2, <1>3, EmptySeq DEF Types, Partials
  <1>5. spoiled' <= debt'
    BY <1>1, <1>2, <1>3, Bounded
  <1>6. CASE Die
    <2>1. /\ phase' = "failed" /\ Writing' /\ ~Underway'
          /\ unwritten' \in Seq(Packets(Requests)) /\ reading' \in Partials(Replies)
      BY <1>6, Dies
    <2>2. Types'
      BY <1>4, <2>1 DEF Types
    <2>3. QED
      BY <1>3, <1>5, <2>1, <2>2, Nowhere
  <1>7. CASE ~Running /\ UNCHANGED <<phase, unwritten, reading>>
    <2>1. Types'
      BY <1>2, <1>4, <1>7 DEF Types
    <2>2. Writing'
      BY <1>2, <1>7 DEF Writing, ReadPhase
    <2>3. unwritten = <<>>
      BY <1>2, <1>7 DEF Writing, Running
    <2>4. ~Underway'
      BY <1>7, <2>3 DEF Underway, ReadPhase, Mid, Running
    <2>5. QED
      BY <1>3, <1>5, <2>1, <2>2, <2>4, Nowhere
  <1>8. QED
    BY <1>3, <1>6, <1>7

LEMMA GivesUp ==
    ASSUME IInv, GiveUp
    PROVE  IInv'
  <1>1. PICK a, b, c, d \in Places : At(a, b, c, d)
    BY DEF IInv
  <1>2. Types /\ Writing /\ Asked
    BY DEF IInv
  <1>3. /\ Hangs /\ Spoil /\ unwritten' = <<>> /\ reading' = Idle
        /\ legacy' = legacy /\ toDevice' = toDevice /\ fromDevice' = fromDevice
        /\ device' = device /\ debt' = debt
    BY DEF GiveUp
  <1>4. phase' = "failed" /\ spoiled' \in Nat /\ spoiled' <= spoiled + 1
    BY <1>2, <1>3, SpoilIs DEF Types
  <1>5. /\ Writing' /\ ~Underway'
        /\ unwritten' \in Seq(Packets(Requests)) /\ reading' \in Partials(Replies)
    BY <1>3, <1>4, Dies DEF Die
  <1>6. Types'
    BY <1>2, <1>3, <1>4, <1>5 DEF Types
  <1>7. /\ b.left = 0 /\ c.left = 0
        /\ spoiled + Damage + 1 + b.lost + d.failed <= debt + a.lost + c.failed
    BY <1>1, <1>2, <1>3, Hanging
  <1>8. PICK s, v, x, l, f, k, g, h :
           /\ s = spoiled /\ v = spoiled' /\ x = Damage /\ l = b.lost /\ f = d.failed
           /\ k = debt /\ g = a.lost /\ h = c.failed
    OBVIOUS
  <1>9. /\ s \in Nat /\ v \in Nat /\ x \in Nat /\ l \in Nat /\ f \in Nat
        /\ k \in Nat /\ g \in Nat /\ h \in Nat /\ v <= s + 1
    BY <1>2, <1>4, <1>8, Counts
  <1>10. s + x + 1 + l + f <= k + g + h
    BY <1>7, <1>8
  <1>11. v + 0 + 0 + x + l + f <= k + g + h
    BY <1>9, <1>10, SMT
  <1>12. spoiled' + b.left + c.left + Damage' + b.lost + d.failed <= debt' + a.lost + c.failed
    BY <1>3, <1>7, <1>8, <1>11 DEF Damage
  <1>13. /\ Leads(a, toDevice', b, FALSE) /\ Leads(c, fromDevice', d, TRUE) /\ d.left = 0
         /\ device' # Idle /\ device'.intact => device'.missing = a.left /\ device'.kind = a.kind
    BY <1>1, <1>3 DEF At, Sending, Answering
  <1>14. QED
    BY <1>5, <1>6, <1>12, <1>13, AtRest

LEMMA StartsRun ==
    ASSUME IInv, StartRun
    PROVE  IInv'
  <1>1. PICK a, b, c, d \in Places : At(a, b, c, d)
    BY DEF IInv
  <1>2. Types /\ Writing /\ Asked
    BY DEF IInv
  <1>3. /\ ~Running /\ phase' = "initialize" /\ legacy' \in BOOLEAN
        /\ unwritten' = PacketsOf("initialize", TRUE)
        /\ toDevice' = Stale(toDevice) /\ fromDevice' = Stale(fromDevice)
        /\ device' = Partial(device.kind, device.missing, FALSE, device.intact)
        /\ reading' = reading /\ debt' = debt /\ spoiled' = spoiled
    BY DEF StartRun, historyVars
  <1>4. unwritten = <<>> /\ reading = Idle
    BY <1>2, <1>3 DEF Writing, Running, ReadPhase
  <1>5. unwritten' \in Seq(Packets(Requests)) /\ Writing' /\ ~Underway'
    BY <1>3, <1>4, KindsOf, WritesWhole
  <1>6. /\ Leads(a, toDevice', b, FALSE) /\ Leads(c, fromDevice', d, TRUE)
        /\ toDevice' \in Seq(Packets(Requests)) /\ fromDevice' \in Seq(Packets(Replies))
    <2>1. PICK q, r, t, w : q = toDevice /\ r = fromDevice /\ t = TRUE /\ w = FALSE
      OBVIOUS
    <2>2. /\ q \in Seq(Packets(Requests)) /\ r \in Seq(Packets(Replies)) /\ t \in BOOLEAN /\ w \in BOOLEAN
          /\ Leads(a, q, b, w) /\ Leads(c, r, d, t)
      BY <1>1, <1>2, <2>1 DEF Types, At, Sending, Answering
    <2>3. Leads(a, Stale(q), b, w) /\ Stale(q) \in Seq(Packets(Requests))
      BY <2>2, Staled
    <2>4. Leads(c, Stale(r), d, t) /\ Stale(r) \in Seq(Packets(Replies))
      BY <2>2, Staled
    <2>5. QED
      BY <1>3, <2>1, <2>3, <2>4
  <1>7. /\ device' \in Partials(Requests) /\ (device' # Idle => device # Idle)
        /\ device'.kind = device.kind /\ device'.missing = device.missing
        /\ device'.intact = device.intact
    <2>1. /\ device.missing \in Nat /\ device.intact \in BOOLEAN
          /\ device # Idle => device.missing > 0 /\ device.kind \in Requests
      BY <1>2, PartialFields DEF Types
    <2>2. CASE device = Idle
      <3>1. device' = Idle
        BY <1>3, <2>2 DEF Idle, Partial
      <3>2. QED
        BY <2>2, <3>1 DEF Partials
    <2>3. CASE device # Idle
      <3>1. PICK w : w = FALSE
        OBVIOUS
      <3>2. w \in BOOLEAN /\ device' = Partial(device.kind, device.missing, w, device.intact)
        BY <1>3, <3>1
      <3>3. QED
        BY <2>1, <2>3, <3>2, PartialOf
    <2>4. QED
      BY <2>2, <2>3
  <1>8. Types'
    BY <1>2, <1>3, <1>5, <1>6, <1>7 DEF Types
  <1>9. d.left = 0
        /\ (device' # Idle /\ device'.intact => device'.missing = a.left /\ device'.kind = a.kind)
    BY <1>1, <1>7 DEF At, Sending, Answering
  <1>10. spoiled' + b.left + c.left + Damage' + b.lost + d.failed <= debt' + a.lost + c.failed
    <2>1. Damage' = Damage
      BY <1>7 DEF Damage
    <2>2. PICK s, n, r, x, y, l, f, k, g, h :
             /\ s = spoiled /\ n = Unfinished(b) /\ r = Replying(c) /\ x = Damage /\ y = One(Stuck)
             /\ l = b.lost /\ f = d.failed /\ k = debt /\ g = a.lost /\ h = c.failed
      OBVIOUS
    <2>3. /\ s \in Nat /\ n \in Nat /\ r \in Nat /\ x \in Nat /\ y \in Nat /\ l \in Nat
          /\ f \in Nat /\ k \in Nat /\ g \in Nat /\ h \in Nat
      BY <1>2, <2>2, Counts
    <2>4. n = b.left /\ r = c.left
      BY <1>4, <2>2 DEF Unfinished, Mid, Replying
    <2>5. s + n + r + x + y + l + f <= k + g + h
      BY <1>1, <2>2 DEF At, Afforded
    <2>6. s + n + r + x + l + f <= k + g + h
      BY <2>3, <2>5, SMT
    <2>7. QED
      BY <1>3, <2>1, <2>2, <2>4, <2>6
  <1>11. QED
    BY <1>5, <1>6, <1>8, <1>9, <1>10, AtRest

-----------------------------------------------------------------------------
LEMMA InitIInv == Init => IInv
  <1> SUFFICES ASSUME Init
               PROVE  IInv
    OBVIOUS
  <1>1. PICK z : z = [left |-> 0, kind |-> "none", lost |-> 0, failed |-> 0]
    OBVIOUS
  <1>2. z \in Places /\ z.left = 0 /\ z.lost = 0 /\ z.failed = 0
    BY <1>1, SMT DEF Places
  <1>3. Whole(unwritten, "initialize")
    BY KindsOf, WholeMessage DEF Init
  <1>4. /\ unwritten \in Seq(Packets(Requests)) /\ ~Mid
        /\ \A i \in 1..Len(unwritten) : unwritten[i].kind = "initialize" /\ (i > 1 => ~unwritten[i].first)
        /\ unwritten[1].kind = "initialize" /\ Len(unwritten) = Length["initialize"]
    BY <1>3 DEF Whole, Mid
  <1>5. /\ phase = "initialize" /\ legacy \in BOOLEAN /\ reading = Idle /\ device = Idle
        /\ toDevice = <<>> /\ fromDevice = <<>> /\ debt = 0 /\ spoiled = 0
    BY DEF Init
  <1>6. ~ReadPhase /\ ~Underway /\ 0 \in Nat
    BY <1>4, <1>5 DEF ReadPhase, Underway
  <1>7. Types
    BY <1>4, <1>5, <1>6, EmptySeq DEF Types, Partials
  <1>8. Writing
    BY <1>4, <1>5 DEF Writing
  <1>9. Asked
    BY <1>6 DEF Asked
  <1>10. Leads(z, toDevice, z, FALSE) /\ Leads(z, fromDevice, z, TRUE)
    <2>1. PICK t, w : t = TRUE /\ w = FALSE
      OBVIOUS
    <2>2. Leads(z, <<>>, z, t) /\ Leads(z, <<>>, z, w)
      BY <1>2, <2>1, LeadsNowhere
    <2>3. QED
      BY <1>5, <2>1, <2>2
  <1>11. Sending(z, z) /\ Answering(z, z) /\ Awaited(z)
    BY <1>2, <1>4, <1>5, <1>6, <1>10 DEF Sending, Answering, Awaited
  <1>12. Afforded(z, z, z, z)
    <2>1. Idle.missing = 0
      BY DEF Idle, Partial
    <2>2. Unfinished(z) = 0 /\ Replying(z) = 0 /\ Damage = 0 /\ One(Stuck) = 0
      BY <1>2, <1>4, <1>5, <1>6, <2>1, OneIsNat DEF Unfinished, Replying, Damage, Stuck
    <2>3. 0 + 0 + 0 + 0 + 0 + 0 + 0 <= 0 + 0 + 0
      BY SMT
    <2>4. QED
      BY <1>2, <1>5, <2>2, <2>3 DEF Afforded
  <1>13. QED
    BY <1>2, <1>7, <1>8, <1>9, <1>11, <1>12 DEF IInv, At

LEMMA StepIInv == IInv /\ [Next]_vars => IInv'
  <1> SUFFICES ASSUME IInv, [Next]_vars
               PROVE  IInv'
    OBVIOUS
  <1>1. CASE WritePacket
    BY <1>1, WritesPacket
  <1>2. CASE ReadFirst \/ ReadRest
    BY <1>2, HostReads
  <1>3. CASE StartRun
    BY <1>3, StartsRun
  <1>4. CASE DeviceRead
    BY <1>4, DeviceReads
  <1>5. CASE Kill
    BY <1>5, Kills
  <1>6. CASE WriteTimesOut
    BY <1>6, TimesOut
  <1>7. CASE Unplug
    BY <1>7, Unplugs
  <1>8. CASE GiveUp
    BY <1>8, GivesUp
  <1>9. CASE UNCHANGED vars
    <2>1. /\ UNCHANGED <<hostVars, historyVars>> /\ UNCHANGED <<toDevice, fromDevice, device>>
      BY <1>9 DEF vars
    <2>2. /\ phase' = phase /\ legacy' = legacy /\ unwritten' = unwritten
          /\ reading' = reading /\ debt' = debt /\ spoiled' = spoiled
          /\ toDevice' = toDevice /\ fromDevice' = fromDevice /\ device' = device
      BY <2>1, HostWaits
    <2>3. (Mid' <=> Mid) /\ (ReadPhase' <=> ReadPhase) /\ (Underway' <=> Underway)
          /\ (Later' <=> Later) /\ (Writing' <=> Writing)
      BY <2>1, HostWaits
    <2>4. (Types' <=> Types) /\ (Asked' <=> Asked)
      BY <2>2, <2>3 DEF Types, Asked
    <2>5. ASSUME NEW a \in Places, NEW b \in Places, NEW c \in Places, NEW d \in Places, At(a, b, c, d)
          PROVE  At(a, b, c, d)'
      <3>1. Sending(a, b)' /\ Answering(c, d)' /\ Awaited(d)'
        BY <2>2, <2>3, <2>5 DEF At, Sending, Answering, Awaited
      <3>2. /\ Unfinished(b)' = Unfinished(b) /\ Replying(c)' = Replying(c)
            /\ Damage' = Damage /\ One(Stuck)' = One(Stuck)
        BY <2>2, <2>3, OneIsNat DEF Unfinished, Replying, Damage, Stuck
      <3>3. Afforded(a, b, c, d)'
        BY <2>2, <2>5, <3>2 DEF At, Afforded
      <3>4. QED
        BY <3>1, <3>3 DEF At
    <2>6. QED
      BY <2>3, <2>4, <2>5 DEF IInv
  <1>10. QED
    BY <1>1, <1>2, <1>3, <1>4, <1>5, <1>6, <1>7, <1>8, <1>9 DEF Next, HostStep

(* However long the messages are, and however many runs die: a read that has *)
(* no timeout (usb.cpp:65) hangs only because the device is inside a message *)
(* whose write was interrupted.                                              *)
THEOREM HangsCorrect == Spec => []HangsInsideCutMessage
  <1>1. IInv => HangsInsideCutMessage
    <2> SUFFICES ASSUME IInv, Hangs
                 PROVE  device.missing > 0 /\ debt > 0
      BY DEF HangsInsideCutMessage
    <2>1. PICK a, b, c, d \in Places : At(a, b, c, d)
      BY DEF IInv
    <2>2. Types /\ Writing
      BY DEF IInv
    <2>3. /\ device.missing > 0
          /\ spoiled + Damage + 1 + b.lost + d.failed <= debt + a.lost + c.failed
      BY <2>1, <2>2, Hanging
    <2>4. a.lost <= b.lost /\ c.failed <= d.failed
      BY <2>1, <2>2, Bounded
    <2>5. PICK s, x, l, f, k, g, h :
             /\ s = spoiled /\ x = Damage /\ l = b.lost /\ f = d.failed
             /\ k = debt /\ g = a.lost /\ h = c.failed
      OBVIOUS
    <2>6. /\ s \in Nat /\ x \in Nat /\ l \in Nat /\ f \in Nat /\ k \in Nat /\ g \in Nat /\ h \in Nat
      BY <2>1, <2>2, <2>5, Counts
    <2>7. s + x + 1 + l + f <= k + g + h /\ g <= l /\ h <= f
      BY <2>3, <2>4, <2>5
    <2>8. k > 0
      BY <2>6, <2>7, SMT
    <2>9. QED
      BY <2>3, <2>5, <2>8
  <1>2. QED
    BY InitIInv, StepIInv, <1>1, PTL DEF Spec

(* An interruption costs no more runs than the message it interrupted had    *)
(* packets left, whatever else is interrupted before or after.               *)
THEOREM DamageCorrect == Spec => []DamageIsBounded
  <1>1. IInv => DamageIsBounded
    BY Bounded DEF IInv, DamageIsBounded
  <1>2. QED
    BY InitIInv, StepIInv, <1>1, PTL DEF Spec

-----------------------------------------------------------------------------
(* What a queue tells of the messages that begin in it: they are all of      *)
(* these kinds, all but the one that begins in front, or all but the last,   *)
(* which belongs to the present run.                                         *)
AllIn(q, kinds)  == \A i \in 1..Len(q) : q[i].first => q[i].kind \in kinds
RestIn(q, kinds) == \A i \in 1..Len(q) : i > 1 /\ q[i].first => q[i].kind \in kinds

LastIs(q, kinds, kind) ==
    /\ ~NoFirst(q)
    /\ \A i \in 1..Len(q) : q[i].first =>
          IF LastFirst(q, i) THEN q[i].kind = kind /\ q[i].own ELSE q[i].kind \in kinds

(* The first packet taken away.                                              *)
LEMMA AllTail ==
    ASSUME NEW kinds, NEW q \in Seq(Packets(kinds)), q # <<>>, NEW S
    PROVE  /\ AllIn(q, S) => AllIn(Tail(q), S) /\ RestIn(q, S) /\ (Head(q).first => Head(q).kind \in S)
           /\ RestIn(q, S) => AllIn(Tail(q), S)
           /\ NoFirst(q) => NoFirst(Tail(q)) /\ ~Head(q).first
  <1>1. PICK t, n : t = Tail(q) /\ n = Len(t)
    OBVIOUS
  <1>2. /\ Head(q) = q[1] /\ n = Len(q) - 1 /\ Len(q) \in Nat \ {0}
        /\ \A i \in 1..n : i + 1 \in 1..Len(q) /\ t[i] = q[i + 1]
    BY <1>1, TailOf
  <1>3. 1 \in 1..Len(q) /\ \A i \in 1..n : i + 1 > 1
    BY <1>2, SMT
  <1>4. RestIn(q, S) => AllIn(t, S)
    BY <1>1, <1>2, <1>3 DEF RestIn, AllIn
  <1>5. AllIn(q, S) => RestIn(q, S) /\ (Head(q).first => Head(q).kind \in S)
    BY <1>2, <1>3 DEF RestIn, AllIn
  <1>6. NoFirst(q) => NoFirst(t) /\ ~Head(q).first
    BY <1>1, <1>2, <1>3 DEF NoFirst
  <1>7. QED
    BY <1>1, <1>4, <1>5, <1>6

LEMMA LastTail ==
    ASSUME NEW kinds, NEW q \in Seq(Packets(kinds)), q # <<>>, NEW S, NEW kind,
           LastIs(q, S, kind)
    PROVE  IF Head(q).first /\ NoFirst(Tail(q))
           THEN Head(q).kind = kind /\ Head(q).own
           ELSE LastIs(Tail(q), S, kind) /\ (Head(q).first => Head(q).kind \in S)
  <1>1. PICK t, n, m : t = Tail(q) /\ n = Len(t) /\ m = Len(q)
    OBVIOUS
  <1>2. /\ Head(q) = q[1] /\ n = m - 1 /\ m \in Nat \ {0}
        /\ \A i \in 1..n : i + 1 \in 1..m /\ t[i] = q[i + 1]
        /\ \A i \in 1..n : LastFirst(t, i) => LastFirst(q, i + 1)
        /\ NoFirst(t) => IF q[1].first THEN LastFirst(q, 1) ELSE NoFirst(q)
    BY <1>1, TailOf
  <1>3. 1 \in 1..m /\ (\A i \in 1..n : i + 1 > 1)
        /\ \A i \in 1..n : \A j \in 1..n : j > i => j + 1 > i + 1
    BY <1>2, SMT
  <1>4. \A i \in 1..m : q[i].first =>
          IF LastFirst(q, i) THEN q[i].kind = kind /\ q[i].own ELSE q[i].kind \in S
    BY <1>1 DEF LastIs
  <1>5. CASE NoFirst(t)
    <2>1. q[1].first
      BY <1>2, <1>5 DEF LastIs
    <2>2. QED
      BY <1>1, <1>2, <1>3, <1>4, <1>5, <2>1
  <1>6. CASE ~NoFirst(t)
    <2>1. ASSUME NEW i \in 1..n, LastFirst(q, i + 1)
          PROVE  LastFirst(t, i)
      <3>1. q[i + 1].first /\ \A j \in 1..m : j > i + 1 => ~q[j].first
        BY <1>1, <2>1 DEF LastFirst
      <3>2. \A j \in 1..n : j > i => ~t[j].first
        BY <1>2, <1>3, <3>1
      <3>3. QED
        BY <1>1, <1>2, <3>1, <3>2 DEF LastFirst
    <2>2. \A i \in 1..n : t[i].first =>
            IF LastFirst(t, i) THEN t[i].kind = kind /\ t[i].own ELSE t[i].kind \in S
      BY <1>2, <1>4, <2>1
    <2>3. LastIs(t, S, kind)
      BY <1>1, <1>6, <2>2 DEF LastIs
    <2>4. ~LastFirst(q, 1)
      <3>1. PICK i \in 1..n : t[i].first
        BY <1>1, <1>6 DEF NoFirst
      <3>2. i + 1 \in 1..m /\ q[i + 1].first /\ i + 1 > 1
        BY <1>2, <1>3, <3>1
      <3>3. QED
        BY <1>1, <3>2 DEF LastFirst
    <2>5. q[1].first => q[1].kind \in S
      BY <1>3, <1>4, <2>4
    <2>6. QED
      BY <1>1, <1>2, <1>6, <2>3, <2>5
  <1>7. QED
    BY <1>5, <1>6

(* One packet appended.                                                      *)
LEMMA AllAppend ==
    ASSUME NEW kinds, NEW q \in Seq(Packets(kinds)), NEW p \in Packets(kinds), NEW S
    PROVE  /\ AllIn(q, S) /\ (p.first => p.kind \in S) => AllIn(Append(q, p), S)
           /\ RestIn(q, S) /\ (p.first => p.kind \in S) => RestIn(Append(q, p), S)
           /\ NoFirst(q) /\ ~p.first => NoFirst(Append(q, p))
  <1>1. PICK r, n : r = Append(q, p) /\ n = Len(q)
    OBVIOUS
  <1>2. n \in Nat /\ Len(r) = n + 1 /\ (\A i \in 1..n : r[i] = q[i]) /\ r[n + 1] = p
    BY <1>1, AppendOf
  <1>3. \A i \in 1..n + 1 : i \in 1..n \/ i = n + 1
    BY <1>2, SMT
  <1>4. QED
    BY <1>1, <1>2, <1>3 DEF AllIn, RestIn, NoFirst

LEMMA LastAppend ==
    ASSUME NEW kinds, NEW q \in Seq(Packets(kinds)), NEW p \in Packets(kinds), NEW S, NEW kind
    PROVE  /\ AllIn(q, S) /\ p.first /\ p.kind = kind /\ p.own => LastIs(Append(q, p), S, kind)
           /\ LastIs(q, S, kind) /\ ~p.first => LastIs(Append(q, p), S, kind)
  <1>1. PICK r, n : r = Append(q, p) /\ n = Len(q)
    OBVIOUS
  <1>2. /\ n \in Nat /\ Len(r) = n + 1 /\ (\A i \in 1..n : r[i] = q[i]) /\ r[n + 1] = p
        /\ NoFirst(r) => ~p.first /\ NoFirst(q)
        /\ \A i \in 1..n + 1 : LastFirst(r, i) =>
              IF p.first THEN i = n + 1 ELSE i \in 1..n /\ LastFirst(q, i)
    BY <1>1, AppendOf
  <1>3. (\A i \in 1..n + 1 : i \in 1..n \/ i = n + 1) /\ (\A i \in 1..n : i \in 1..n + 1 /\ i # n + 1)
        /\ ~(n + 1 \in 1..n) /\ n + 1 \in 1..n + 1 /\ \A j \in 1..n + 1 : ~(j > n + 1)
    BY <1>2, SMT
  <1>4. ASSUME AllIn(q, S), p.first, p.kind = kind, p.own
        PROVE  LastIs(r, S, kind)
    <2>1. LastFirst(r, n + 1)
      BY <1>2, <1>3, <1>4 DEF LastFirst
    <2>2. \A i \in 1..n + 1 : r[i].first =>
            IF LastFirst(r, i) THEN r[i].kind = kind /\ r[i].own ELSE r[i].kind \in S
      BY <1>1, <1>2, <1>3, <1>4, <2>1 DEF AllIn
    <2>3. QED
      BY <1>2, <1>4, <2>2 DEF LastIs
  <1>5. ASSUME LastIs(q, S, kind), ~p.first
        PROVE  LastIs(r, S, kind)
    <2>1. \A i \in 1..n : LastFirst(q, i) => LastFirst(r, i)
      BY <1>1, <1>2, <1>3, <1>5 DEF LastFirst
    <2>2. \A i \in 1..n : q[i].first =>
            IF LastFirst(q, i) THEN q[i].kind = kind /\ q[i].own ELSE q[i].kind \in S
      BY <1>1, <1>5 DEF LastIs
    <2>3. \A i \in 1..n + 1 : r[i].first =>
            IF LastFirst(r, i) THEN r[i].kind = kind /\ r[i].own ELSE r[i].kind \in S
      BY <1>2, <1>3, <1>5, <2>1, <2>2
    <2>4. ~NoFirst(r)
      BY <1>2, <1>5 DEF LastIs
    <2>5. QED
      BY <1>2, <2>3, <2>4 DEF LastIs
  <1>6. QED
    BY <1>1, <1>4, <1>5

(* A whole message appended.                                                 *)
LEMMA MessageAt ==
    ASSUME NEW kinds, NEW q \in Seq(Packets(kinds)), NEW kind \in Kinds, NEW own \in BOOLEAN,
           kind \in kinds
    PROVE  LET r == q \o PacketsOf(kind, own)
               n == Len(q)
               m == Length[kind] IN
           /\ n \in Nat /\ m \in Nat /\ m > 0
           /\ r \in Seq(Packets(kinds)) /\ Len(r) = n + m /\ (\A i \in 1..n : r[i] = q[i])
           /\ \A j \in 1..m : r[n + j] = [kind |-> kind, first |-> j = 1, own |-> own]
  <1>1. PICK n, m, u, r : n = Len(q) /\ m = Length[kind] /\ u = PacketsOf(kind, own) /\ r = q \o u
    OBVIOUS
  <1>2. /\ m \in Nat \ {0} /\ u \in Seq(Packets({kind})) /\ Len(u) = m
        /\ \A j \in 1..m : u[j] = [kind |-> kind, first |-> j = 1, own |-> own]
    <2>1. PICK v : v = Packets({kind})
      OBVIOUS
    <2>2. /\ m \in Nat \ {0} /\ u \in Seq(v) /\ Len(u) = m
          /\ \A j \in 1..m : u[j] = [kind |-> kind, first |-> j = 1, own |-> own]
      BY <1>1, <2>1, MessagePackets
    <2>3. QED
      BY <2>1, <2>2
  <1>3. n \in Nat /\ m \in Nat /\ m > 0
    BY <1>1, <1>2, SMT
  <1>4. PICK v, w : v = Packets({kind}) /\ w = Packets(kinds)
    OBVIOUS
  <1>5. u \in Seq(v) /\ q \in Seq(w) /\ v \subseteq w
    <2>1. Packets({kind}) \subseteq Packets(kinds)
      BY SMT DEF Packets
    <2>2. QED
      BY <1>2, <1>4, <2>1
  <1>6. /\ q \o u \in Seq(w) /\ Len(q \o u) = Len(q) + Len(u)
        /\ \A i \in 1..Len(q) : (q \o u)[i] = q[i]
        /\ \A j \in 1..Len(u) : (q \o u)[Len(q) + j] = u[j]
    BY <1>5, Joined
  <1>7. QED
    BY <1>1, <1>2, <1>3, <1>4, <1>6

LEMMA AllMessage ==
    ASSUME NEW kinds, NEW q \in Seq(Packets(kinds)), NEW kind \in Kinds, NEW own \in BOOLEAN,
           kind \in kinds, NEW S
    PROVE  LET r == q \o PacketsOf(kind, own) IN
           /\ AllIn(q, S) /\ kind \in S => AllIn(r, S)
           /\ AllIn(q, S) /\ own => LastIs(r, S, kind)
           /\ RestIn(q, S) /\ (kind \in S \/ q = <<>>) => RestIn(r, S)
           /\ r # <<>>
  <1>1. PICK n, m, r : n = Len(q) /\ m = Length[kind] /\ r = q \o PacketsOf(kind, own)
    OBVIOUS
  <1>2. /\ n \in Nat /\ m \in Nat /\ m > 0 /\ Len(r) = n + m /\ (\A i \in 1..n : r[i] = q[i])
        /\ \A j \in 1..m : r[n + j] = [kind |-> kind, first |-> j = 1, own |-> own]
    BY <1>1, MessageAt
  <1>3. /\ \A i \in 1..n + m :
              i \in 1..n \/ (i - n \in 1..m /\ i = n + (i - n) /\ (i - n = 1 => i = n + 1))
        /\ n + 1 \in 1..n + m /\ 1 \in 1..m /\ \A i \in 1..n : i # n + 1 /\ i < n + 1 /\ i \in 1..n + m
        /\ \A i \in 1..n + m : i > n + 1 => i # n + 1 /\ ~(i \in 1..n)
    BY <1>2, SMT
  <1>4. /\ r[n + 1].first /\ r[n + 1].kind = kind /\ r[n + 1].own = own
        /\ \A i \in 1..n + m : ~(i \in 1..n) => (r[i].first => i = n + 1)
    <2>1. \A j \in 1..m : r[n + j].first = (j = 1) /\ r[n + j].kind = kind /\ r[n + j].own = own
      <3>1. TAKE j \in 1..m
      <3>2. r[n + j] = [kind |-> kind, first |-> j = 1, own |-> own]
        BY <1>2
      <3>3. QED
        BY <3>2
    <2>2. QED
      BY <1>3, <2>1
  <1>5. AllIn(q, S) /\ kind \in S => AllIn(r, S)
    BY <1>1, <1>2, <1>3, <1>4 DEF AllIn
  <1>6. RestIn(q, S) /\ kind \in S => RestIn(r, S)
    BY <1>1, <1>2, <1>3, <1>4 DEF RestIn
  <1>7. RestIn(q, S) /\ q = <<>> => RestIn(r, S)
    <2>1. q = <<>> => n = 0
      BY <1>1, SMT
    <2>2. n = 0 => \A i \in 1..n + m : ~(i \in 1..n) /\ (i = n + 1 => ~(i > 1))
      BY <1>2, SMT
    <2>3. QED
      BY <1>2, <1>4, <2>1, <2>2 DEF RestIn
  <1>8. ASSUME AllIn(q, S), own
        PROVE  LastIs(r, S, kind)
    <2>1. LastFirst(r, n + 1)
      BY <1>2, <1>3, <1>4 DEF LastFirst
    <2>2. \A i \in 1..n : ~LastFirst(r, i)
      <3>1. \A i \in 1..n : n + 1 > i
        BY <1>3, <1>2, SMT
      <3>2. QED
        BY <1>2, <1>3, <1>4, <3>1 DEF LastFirst
    <2>3. \A i \in 1..n + m : r[i].first =>
            IF LastFirst(r, i) THEN r[i].kind = kind /\ r[i].own ELSE r[i].kind \in S
      BY <1>1, <1>2, <1>4, <1>8, <2>1, <2>2 DEF AllIn
    <2>4. ~NoFirst(r)
      BY <1>2, <1>3, <1>4 DEF NoFirst
    <2>5. QED
      BY <1>2, <2>3, <2>4 DEF LastIs
  <1>9. r # <<>>
    BY <1>2, SMT
  <1>10. QED
    BY <1>1, <1>5, <1>6, <1>7, <1>8, <1>9

(* Where nothing is missing and nothing begins, nothing is.                  *)
LEMMA NoneLeft ==
    ASSUME NEW kinds, NEW q \in Seq(Packets(kinds)), NEW a \in Places, NEW b,
           Leads(a, q, b, TRUE), a.left = 0, NoFirst(q)
    PROVE  q = <<>> /\ a = b
  <1>1. q = <<>>
    <2> SUFFICES ASSUME q # <<>>
                 PROVE  FALSE
      OBVIOUS
    <2>1. PICK w : w = TRUE
      OBVIOUS
    <2>2. Fits(a, Head(q), w)
      <3>1. w \in BOOLEAN /\ Leads(a, q, b, w)
        BY <2>1
      <3>2. QED
        BY <3>1, Taken
    <2>3. ~Head(q).first
      BY AllTail
    <2>4. a.left > 0
      BY <2>2, <2>3 DEF Fits
    <2>5. QED
      BY <2>4, SMT
  <1>2. a = b
    <2>1. PICK w : w = TRUE
      OBVIOUS
    <2>2. Len(<<>>) = 0 /\ 0 \in Nat
      BY SMT
    <2>3. w \in BOOLEAN /\ Leads(a, q, b, w) /\ Len(q) = 0 /\ Len(q) \in Nat
      BY <1>1, <2>1, <2>2
    <2>4. QED
      BY <2>3, LeadsOn
  <1>3. QED
    BY <1>1, <1>2

(* A queue in which nothing begins is whole.                                 *)
LEMMA WholeRest ==
    ASSUME NEW a, NEW b, NEW q, Leads(a, q, b, FALSE), NoFirst(q)
    PROVE  Leads(a, q, b, TRUE)
  <1>1. PICK s : Trace(s, q, FALSE) /\ s[1] = a /\ s[Len(q) + 1] = b
    BY DEF Leads
  <1>2. \A i \in 1..Len(q) : Fits(s[i], q[i], FALSE) => Fits(s[i], q[i], TRUE)
    BY DEF NoFirst, Fits
  <1>3. Trace(s, q, TRUE)
    BY <1>1, <1>2 DEF Trace
  <1>4. QED
    BY <1>1, <1>3 DEF Leads

-----------------------------------------------------------------------------
(* With at most one fault.  The messages in the queues, in what the device   *)
(* collects and in what the host collects follow one another.  The last of   *)
(* them is what the host waits for; those before it are requests for the     *)
(* status, and their answers, of runs that came to nothing.                  *)
Early == {"initialize", "features"}
Older == IF faults = 0 THEN {} ELSE Early

Wanted ==
    IF phase \in {"initialize", "status"} THEN "initialize"
    ELSE IF legacy THEN "sign_identity"
    ELSE IF phase \in {"request", "peerKey"} THEN "get_public_key"
    ELSE "get_ecdh_session"

Answer == [initialize |-> "features", get_public_key |-> "public_key",
           get_ecdh_session |-> "ecdh_session", sign_identity |-> "signed_identity"]

(* Packets the device still needs for the message in front.                  *)
Lacking == IF device # Idle THEN device.missing ELSE Length[toDevice[1].kind]

(* Every message is whole; a device that has begun none passes over the      *)
(* packets that continue none.                                               *)
Aligned(a, b, c, d) ==
    /\ Leads(a, toDevice, b, TRUE) /\ Leads(c, fromDevice, d, TRUE)
    /\ device # Idle => device.intact /\ device.missing = a.left /\ device.kind = a.kind
    /\ reading # Idle => reading.intact /\ reading.missing = c.left /\ reading.kind = c.kind
    /\ b.left = IF Mid THEN Len(unwritten) ELSE 0
    /\ Mid => b.kind = Head(unwritten).kind
    /\ d.left = 0
    /\ faults = 0 => /\ a.left = device.missing
                     /\ Mid => Len(toDevice) + Len(unwritten) = Lacking

OlderDevice  == device # Idle => device.kind \in Older
OlderReading == reading # Idle => reading.kind \in Older

(* Where the message the host waits for is: on its way to the device, in the *)
(* device, on its way back, or with the host.                                *)
InQueue(kind) ==
    LastIs(toDevice, Older, kind) /\ OlderDevice /\ AllIn(fromDevice, Older) /\ OlderReading
InDevice(kind) ==
    /\ NoFirst(toDevice) /\ device # Idle /\ device.kind = kind /\ device.own
    /\ AllIn(fromDevice, Older) /\ OlderReading
InReply(a, kind) ==
    /\ NoFirst(toDevice) /\ device = Idle /\ a.left = 0
    /\ LastIs(fromDevice, Older, kind) /\ OlderReading
InReading(a, kind) ==
    /\ NoFirst(toDevice) /\ device = Idle /\ a.left = 0 /\ NoFirst(fromDevice)
    /\ reading # Idle /\ reading.kind = kind /\ reading.own

Latest(a) ==
    InQueue(Wanted) \/ InDevice(Wanted) \/ InReply(a, Answer[Wanted]) \/ InReading(a, Answer[Wanted])

Followed(a, c) ==
    /\ Underway /\ (faults = 0 \/ Later)
    /\ reading = Idle => c.left = 0
    /\ Latest(a)

(* The host is about to write what it will wait for.                         *)
Preceded(c) ==
    /\ phase \in {"initialize", "request", "ecdh"} /\ ~Mid /\ (faults = 0 \/ Later)
    /\ AllIn(toDevice, Older) /\ OlderDevice /\ AllIn(fromDevice, Older)
    /\ reading = Idle /\ c.left = 0

(* After the fault, up to the status: the message in front may be of any     *)
(* kind, and what there is of it may be its end.                             *)
Trailing ==
    /\ faults = 1 /\ phase \in {"initialize", "status", "failed"}
    /\ RestIn(fromDevice, Early) /\ (reading # Idle => AllIn(fromDevice, Early))
    /\ RestIn(toDevice, Early) /\ (device # Idle => AllIn(toDevice, Early))
    /\ reading # Idle \/ fromDevice # <<>> =>
          AllIn(toDevice, Early) /\ (device # Idle => device.kind \in Early)

Done ==
    /\ phase = "returned" /\ toDevice = <<>> /\ fromDevice = <<>> /\ device = Idle
    /\ result.own /\ result.intact /\ result.kind = Answer[Wanted]

Orderly(a, b, c, d) ==
    Aligned(a, b, c, d) /\ (Followed(a, c) \/ Preceded(c) \/ Trailing \/ Done)

(* The fault has cut a message, and what completes it is going to damage it. *)
CutShort(a, b) ==
    /\ faults = 1 /\ phase \in {"initialize", "status", "failed"}
    /\ fromDevice = <<>> /\ reading = Idle
    /\ Leads(a, toDevice, b, FALSE)
    /\ Mid => b.left = Len(unwritten) /\ b.kind = Head(unwritten).kind
    /\ ReadPhase => b.left = 0
    /\ device = Idle => toDevice # <<>> /\ toDevice[1].first
    /\ \A i \in 1..Len(toDevice) : i > Lacking => ~toDevice[i].first
    /\ IF Underway
       THEN \/ device # Idle /\ ~device.intact
            \/ \E i \in 1..Len(toDevice) :
                  toDevice[i].first /\ i <= Lacking /\ (i = 1 => device # Idle)
       ELSE Len(toDevice) < Lacking

Dialogue ==
    /\ phase \in {"peerKey", "ecdh"} => ~legacy
    /\ \A i \in 1..Len(unwritten) : unwritten[i].own /\ unwritten[i].kind = Wanted

OneFault ==
    /\ faults \in Nat
    /\ faults <= 1 => /\ Dialogue
                      /\ \/ \E a, b, c, d \in Places : Orderly(a, b, c, d)
                         \/ \E a, b \in Places : CutShort(a, b)

-----------------------------------------------------------------------------
LEMMA AnswerIs ==
    /\ Answer["initialize"] = "features" /\ Answer["get_public_key"] = "public_key"
    /\ Answer["get_ecdh_session"] = "ecdh_session" /\ Answer["sign_identity"] = "signed_identity"
  BY SMT DEF Answer

LEMMA AnswerOf ==
    ASSUME NEW m, m.intact = TRUE, m.kind \in Requests
    PROVE  AnswerTo(m) = Answer[m.kind] /\ Answer[m.kind] \in Replies
  <1>1. PICK k : k = m.kind
    OBVIOUS
  <1>2. AnswerTo(m) = CASE k = "initialize"       -> "features"
                        [] k = "get_public_key"   -> "public_key"
                        [] k = "get_ecdh_session" -> "ecdh_session"
                        [] k = "sign_identity"    -> "signed_identity"
    BY <1>1 DEF AnswerTo
  <1>3. k \in {"initialize", "get_public_key", "get_ecdh_session", "sign_identity"}
    BY <1>1 DEF Requests
  <1>4. AnswerTo(m) = Answer[k]
    BY <1>2, <1>3, AnswerIs, SMT
  <1>5. Answer[k] \in Replies
    BY <1>3, AnswerIs, SMT DEF Replies
  <1>6. QED
    BY <1>1, <1>4, <1>5

LEMMA OlderIs ==
    /\ faults = 0 => Older = {}
    /\ faults = 1 => Older = Early
    /\ Older \subseteq Early
    /\ \A kind \in Requests : kind \in Early => kind = "initialize" /\ Answer[kind] \in Early
    /\ \A kind \in Requests : kind \in Older => Answer[kind] \in Older
    /\ \A kind \in Replies : kind \in Early => kind = "features"
  <1>1. (faults = 0 => Older = {}) /\ (faults = 1 => Older = Early) /\ Older \subseteq Early
    BY SMT DEF Older
  <1>2. \A kind \in Requests : kind \in Early => kind = "initialize" /\ Answer[kind] \in Early
    BY AnswerIs, SMT DEF Requests, Early
  <1>3. \A kind \in Replies : kind \in Early => kind = "features"
    BY SMT DEF Replies, Early
  <1>4. \A kind \in Requests : kind \in Older => Answer[kind] \in Older
    BY <1>2 DEF Older
  <1>5. QED
    BY <1>1, <1>2, <1>3, <1>4

LEMMA WantedIs ==
    /\ Wanted \in Requests
    /\ phase \in {"initialize", "status"} => Wanted = "initialize"
    /\ phase \in {"request", "peerKey"} => Wanted = IF legacy THEN "sign_identity" ELSE "get_public_key"
    /\ phase \in {"ecdh", "secret", "returned"} =>
          Wanted = IF legacy THEN "sign_identity" ELSE "get_ecdh_session"
  <1>1. /\ phase \in {"initialize", "status"} => Wanted = "initialize"
        /\ phase \in {"request", "peerKey"} => Wanted = IF legacy THEN "sign_identity" ELSE "get_public_key"
        /\ phase \in {"ecdh", "secret", "returned"} =>
              Wanted = IF legacy THEN "sign_identity" ELSE "get_ecdh_session"
    BY SMT DEF Wanted
  <1>2. Wanted \in Requests
    BY SMT DEF Wanted, Requests
  <1>3. QED
    BY <1>1, <1>2

(* A queue nothing begins in, and from a place where nothing is missing.     *)
LEMMA NothingSent ==
    ASSUME Types, NEW a \in Places, NEW b, Leads(a, toDevice, b, TRUE), a.left = 0, NoFirst(toDevice)
    PROVE  toDevice = <<>> /\ a = b
  <1>1. PICK q : q = toDevice
    OBVIOUS
  <1>2. q \in Seq(Packets(Requests)) /\ Leads(a, q, b, TRUE) /\ NoFirst(q)
    BY <1>1 DEF Types
  <1>3. QED
    BY <1>1, <1>2, NoneLeft

LEMMA NothingAnswered ==
    ASSUME Types, NEW c \in Places, NEW d, Leads(c, fromDevice, d, TRUE), c.left = 0, NoFirst(fromDevice)
    PROVE  fromDevice = <<>> /\ c = d
  <1>1. PICK q : q = fromDevice
    OBVIOUS
  <1>2. q \in Seq(Packets(Replies)) /\ Leads(c, q, d, TRUE) /\ NoFirst(q)
    BY <1>1 DEF Types
  <1>3. QED
    BY <1>1, <1>2, NoneLeft

LEMMA EmptyQueue ==
    ASSUME NEW S, NEW q, q = <<>>
    PROVE  Len(q) = 0 /\ NoFirst(q) /\ AllIn(q, S) /\ RestIn(q, S)
  <1>1. Len(<<>>) = 0 /\ \A i \in 1..0 : FALSE
    BY SMT
  <1>2. QED
    BY <1>1 DEF NoFirst, AllIn, RestIn

LEMMA NoneIn ==
    ASSUME NEW q
    PROVE  /\ NoFirst(q) <=> AllIn(q, {})
           /\ \A S : NoFirst(q) => AllIn(q, S)
           /\ \A S, T : AllIn(q, S) /\ S \subseteq T => AllIn(q, T)
           /\ \A S : AllIn(q, S) => RestIn(q, S)
  BY DEF NoFirst, AllIn, RestIn

-----------------------------------------------------------------------------
(* The host writes.                                                          *)
LEMMA Writes ==
    ASSUME IInv, WritePacket, Dialogue, NEW p, p = Head(unwritten)
    PROVE  /\ toDevice' = Append(toDevice, p) /\ toDevice \in Seq(Packets(Requests))
           /\ p \in Packets(Requests) /\ p.kind \in Requests
           /\ p.kind = Wanted /\ p.own /\ p.first \in BOOLEAN /\ (Mid <=> ~p.first)
           /\ p.first => Len(unwritten) = Length[p.kind]
           /\ Len(unwritten) \in Nat \ {0} /\ Len(unwritten') = Len(unwritten) - 1
           /\ unwritten' = <<>> => Len(unwritten') = 0
           /\ (Mid' <=> unwritten' # <<>>) /\ (Mid' => Head(unwritten').kind = p.kind)
           /\ ReadPhase' <=> unwritten' = <<>>
           /\ Underway' /\ ~ReadPhase /\ reading = Idle
           /\ phase \in {"initialize", "request", "ecdh"}
           /\ phase = "initialize" => phase' \in {"initialize", "status"}
           /\ Wanted' = Wanted /\ (Later' <=> Later) /\ Dialogue'
           /\ reading' = reading /\ fromDevice' = fromDevice /\ device' = device /\ faults' = faults
  <1>1. PICK a, b, c, d \in Places : At(a, b, c, d)
    BY DEF IInv
  <1>2. Types /\ Writing
    BY DEF IInv
  <1>3. /\ unwritten # <<>> /\ toDevice' = Append(toDevice, p) /\ unwritten' = Tail(unwritten)
        /\ phase' = IF unwritten' = <<>> THEN AfterWrite[phase] ELSE phase
        /\ legacy' = legacy /\ reading' = reading /\ fromDevice' = fromDevice /\ device' = device
        /\ faults' = faults
    BY DEF WritePacket, historyVars
  <1>4. Prolongs(p, a, b) /\ Writer(p)
    BY <1>1, <1>2, <1>3, Written
  <1>5. /\ p \in Packets(Requests) /\ p = unwritten[1] /\ (Mid <=> ~p.first)
        /\ reading = Idle /\ phase \in {"initialize", "request", "ecdh"}
    BY <1>4 DEF Prolongs, Writer
  <1>6. p.kind \in Requests /\ p.first \in BOOLEAN /\ toDevice \in Seq(Packets(Requests))
    BY <1>2, <1>5, SMT DEF Packets, Types
  <1>7. PICK u, n : u = unwritten' /\ n = Len(unwritten)
    OBVIOUS
  <1>8. /\ u \in Seq(Packets(Requests)) /\ Len(u) = n - 1 /\ n \in Nat \ {0}
        /\ \A i \in 1..Len(u) : i + 1 \in 1..n /\ u[i] = unwritten[i + 1]
    <2>1. unwritten \in Seq(Packets(Requests))
      BY <1>2 DEF Types
    <2>2. /\ Tail(unwritten) \in Seq(Packets(Requests))
          /\ Len(Tail(unwritten)) = Len(unwritten) - 1 /\ Len(unwritten) \in Nat \ {0}
          /\ \A i \in 1..Len(Tail(unwritten)) :
                i + 1 \in 1..Len(unwritten) /\ Tail(unwritten)[i] = unwritten[i + 1]
      BY <1>3, <2>1, TailOf
    <2>3. QED
      BY <1>3, <1>7, <2>2
  <1>9. p.own /\ p.kind = Wanted /\ (p.first => n = Length[p.kind])
    <2>1. 1 \in 1..n
      BY <1>8, SMT
    <2>2. QED
      BY <1>2, <1>3, <1>5, <1>7, <2>1 DEF Dialogue, Writing
  <1>10. \A i \in 1..Len(u) : u[i].kind = Wanted /\ u[i].own /\ ~u[i].first
    <2>1. TAKE i \in 1..Len(u)
    <2>2. i + 1 > 1
      BY <1>8, SMT
    <2>3. QED
      BY <1>2, <1>7, <1>8, <2>2 DEF Writing, Dialogue
  <1>11. u # <<>> => 1 \in 1..Len(u) /\ Head(u) = u[1]
    BY <1>8, SMT
  <1>12. (Mid' <=> u # <<>>) /\ (Mid' => Head(u).kind = p.kind)
    BY <1>7, <1>9, <1>10, <1>11 DEF Mid
  <1>13. u = <<>> => Len(u) = 0
    BY SMT
  <1>14. CASE u # <<>>
    <2>1. phase' = phase
      BY <1>3, <1>7, <1>14
    <2>2. ~ReadPhase /\ ~ReadPhase' /\ (Later' <=> Later) /\ Wanted' = Wanted
      BY <1>3, <1>5, <2>1 DEF ReadPhase, Later, Wanted
    <2>3. Underway'
      BY <1>12, <1>14 DEF Underway
    <2>4. Dialogue'
      BY <1>3, <1>7, <1>10, <2>1, <2>2 DEF Dialogue
    <2>5. phase = "initialize" => phase' \in {"initialize", "status"}
      BY <2>1
    <2>6. QED
      BY <1>3, <1>5, <1>6, <1>7, <1>8, <1>9, <1>12, <1>13, <1>14, <2>2, <2>3, <2>4, <2>5
  <1>15. CASE u = <<>>
    <2>1. phase' = AfterWrite[phase]
      BY <1>3, <1>7, <1>15
    <2>2. \/ phase' = "status" /\ phase = "initialize"
          \/ phase' = "secret" /\ phase = "request" /\ legacy
          \/ phase' = "peerKey" /\ phase = "request" /\ ~legacy
          \/ phase' = "secret" /\ phase = "ecdh"
      <3>1. /\ AfterWrite["initialize"] = "status" /\ AfterWrite["ecdh"] = "secret"
            /\ AfterWrite["request"] = IF legacy THEN "secret" ELSE "peerKey"
        BY SMT DEF AfterWrite
      <3>2. QED
        BY <1>5, <2>1, <3>1
    <2>3. phase = "ecdh" => ~legacy
      BY DEF Dialogue
    <2>4. ~ReadPhase /\ ReadPhase' /\ (Later' <=> Later)
      BY <2>2 DEF ReadPhase, Later
    <2>5. Wanted' = Wanted
      BY <1>3, <2>2, <2>3 DEF Wanted
    <2>6. Dialogue'
      <3>1. phase' \in {"peerKey", "ecdh"} => ~legacy'
        BY <1>3, <2>2
      <3>2. \A i \in 1..Len(u) : u[i].own /\ u[i].kind = Wanted'
        BY <1>10, <2>5
      <3>3. QED
        BY <1>7, <3>1, <3>2 DEF Dialogue
    <2>7. Underway'
      BY <2>4 DEF Underway
    <2>8. phase = "initialize" => phase' \in {"initialize", "status"}
      BY <2>2
    <2>9. QED
      BY <1>3, <1>5, <1>6, <1>7, <1>8, <1>9, <1>12, <1>13, <1>15, <2>4, <2>5, <2>6, <2>7, <2>8
  <1>16. QED
    BY <1>14, <1>15

(* The packet prolongs the queue by one place.                               *)
LEMMA OnePlace ==
    ASSUME NEW kinds, NEW q \in Seq(Packets(kinds)), NEW p \in Packets(Kinds), NEW whole \in BOOLEAN,
           NEW a \in Places, NEW b \in Places, Leads(a, q, b, whole),
           NEW n \in Nat \ {0}, p.first \in BOOLEAN, p.kind \in Kinds,
           IF p.first THEN n = Length[p.kind] /\ (whole => b.left = 0)
           ELSE b.left = n /\ b.kind = p.kind
    PROVE  LET e == After(b, p) IN
           Leads(a, Append(q, p), e, whole) /\ e \in Places /\ e.left = n - 1 /\ e.kind = p.kind
  <1>1. PICK e : e = After(b, p)
    OBVIOUS
  <1>2. Fits(b, p, whole)
    <2>1. n > 0
      BY SMT
    <2>2. QED
      BY <2>1 DEF Fits
  <1>3. Leads(a, Append(q, p), e, whole) /\ e \in Places
    BY <1>1, <1>2, Put, PlaceAfter
  <1>4. e.left = n - 1 /\ e.kind = p.kind
    BY <1>1, AfterPacket DEF After
  <1>5. QED
    BY <1>1, <1>3, <1>4

LEMMA WritesInOrder ==
    ASSUME IInv, IInv', WritePacket, faults \in {0, 1}, Dialogue,
           NEW a \in Places, NEW b \in Places, NEW c \in Places, NEW d \in Places,
           Orderly(a, b, c, d)
    PROVE  \E e \in Places : Orderly(a, e, c, d)'
  <1>1. PICK p, q, n, e : p = Head(unwritten) /\ q = toDevice /\ n = Len(unwritten) /\ e = After(b, p)
    OBVIOUS
  <1>2. /\ toDevice' = Append(q, p) /\ q \in Seq(Packets(Requests))
        /\ p \in Packets(Requests) /\ p.kind \in Requests
        /\ p.kind = Wanted /\ p.own /\ p.first \in BOOLEAN /\ (Mid <=> ~p.first)
        /\ p.first => n = Length[p.kind]
        /\ n \in Nat \ {0} /\ Len(unwritten') = n - 1
        /\ unwritten' = <<>> => Len(unwritten') = 0
        /\ (Mid' <=> unwritten' # <<>>) /\ (Mid' => Head(unwritten').kind = p.kind)
        /\ Underway' /\ ~ReadPhase /\ reading = Idle
        /\ phase \in {"initialize", "request", "ecdh"}
        /\ phase = "initialize" => phase' \in {"initialize", "status"}
        /\ Wanted' = Wanted /\ (Later' <=> Later)
        /\ reading' = reading /\ fromDevice' = fromDevice /\ device' = device /\ faults' = faults
    BY <1>1, Writes
  <1>3. p \in Packets(Kinds) /\ p.kind \in Kinds
    BY <1>2, KindsOf
  <1>4. Types /\ Older' = Older
    BY <1>2 DEF IInv, Older
  <1>5. /\ Leads(a, q, b, TRUE) /\ Leads(c, fromDevice, d, TRUE)
        /\ device # Idle => device.intact /\ device.missing = a.left /\ device.kind = a.kind
        /\ reading # Idle => reading.intact /\ reading.missing = c.left /\ reading.kind = c.kind
        /\ b.left = IF Mid THEN n ELSE 0
        /\ Mid => b.kind = p.kind
        /\ d.left = 0
        /\ faults = 0 => /\ a.left = device.missing
                         /\ Mid => Len(q) + n = Lacking
    BY <1>1 DEF Orderly, Aligned
  <1>6. Leads(a, toDevice', e, TRUE) /\ e \in Places /\ e.left = n - 1 /\ e.kind = p.kind
    <2>1. PICK w : w = TRUE
      OBVIOUS
    <2>2. w \in BOOLEAN /\ Leads(a, q, b, w)
      BY <1>5, <2>1
    <2>3. IF p.first THEN n = Length[p.kind] /\ (w => b.left = 0) ELSE b.left = n /\ b.kind = p.kind
      BY <1>2, <1>5
    <2>4. Leads(a, Append(q, p), e, w) /\ e \in Places /\ e.left = n - 1 /\ e.kind = p.kind
      BY <1>1, <1>2, <1>3, <2>2, <2>3, OnePlace
    <2>5. QED
      BY <1>2, <2>1, <2>4
  <1>7. Followed(a, c) \/ Preceded(c) \/ Trailing
    BY <1>2 DEF Orderly, Done
  <1>8. b.left # 0 => ~(NoFirst(q) /\ device = Idle /\ a.left = 0)
    BY <1>1, <1>4, <1>5, NothingSent
  <1>9. Mid => b.left # 0
    BY <1>2, <1>5, SMT
  <1>10. Len(q) \in Nat /\ Len(toDevice') = Len(q) + 1 /\ toDevice'[Len(q) + 1] = p
         /\ (q # <<>> => toDevice'[1] = q[1]) /\ (q = <<>> => Len(q) = 0)
    <2>1. PICK S : S = Packets(Requests)
      OBVIOUS
    <2>2. q \in Seq(S) /\ p \in S /\ toDevice' = Append(q, p)
      BY <1>2, <2>1
    <2>3. QED
      BY <2>2, SMT
  <1>11. faults' = 0 => a.left = device'.missing /\ (Mid' => Len(toDevice') + Len(unwritten') = Lacking')
    <2> SUFFICES ASSUME faults = 0, Mid'
                 PROVE  Len(toDevice') + Len(unwritten') = Lacking'
      BY <1>2, <1>5
    <2>1. CASE Mid
      <3>1. Len(q) + n = Lacking
        BY <1>5, <2>1
      <3>2. device = Idle => q # <<>>
        <4>1. device = Idle /\ q = <<>> => NoFirst(q) /\ a.left = 0
          <5>1. Idle.missing = 0
            BY DEF Idle, Partial
          <5>2. QED
            BY <1>5, <5>1, EmptyQueue
        <4>2. QED
          BY <1>8, <1>9, <2>1, <4>1
      <3>3. Lacking' = Lacking
        BY <1>1, <1>2, <1>10, <3>2 DEF Lacking
      <3>4. (Len(q) + 1) + (n - 1) = Len(q) + n
        BY <1>2, <1>10, SMT
      <3>5. QED
        BY <1>2, <1>10, <3>1, <3>3, <3>4
    <2>2. CASE ~Mid
      <3>1. Preceded(c)
        BY <1>2, <1>7, <2>2 DEF Followed, Underway, Trailing
      <3>2. device = Idle /\ NoFirst(q)
        BY <1>1, <3>1, OlderIs, NoneIn DEF Preceded, OlderDevice
      <3>3. a.left = 0
        <4>1. Idle.missing = 0
          BY DEF Idle, Partial
        <4>2. QED
          BY <1>5, <3>2, <4>1
      <3>4. q = <<>>
        BY <1>1, <1>4, <1>5, <3>2, <3>3, NothingSent
      <3>5. Len(q) = 0 /\ Lacking' = n
        <4>1. 0 + 1 = 1
          BY SMT
        <4>2. toDevice'[1] = p
          BY <1>10, <3>4, <4>1
        <4>3. QED
          BY <1>2, <1>10, <2>2, <3>2, <3>4, <4>2 DEF Lacking
      <3>6. (0 + 1) + (n - 1) = n
        BY <1>2, SMT
      <3>7. QED
        BY <1>2, <1>10, <3>5, <3>6
    <2>3. QED
      BY <2>1, <2>2
  <1>12. Aligned(a, e, c, d)'
    <2>1. e.left = IF Mid' THEN Len(unwritten') ELSE 0
      BY <1>2, <1>6
    <2>2. QED
      BY <1>2, <1>5, <1>6, <1>11, <2>1 DEF Aligned
  <1>13. CASE Followed(a, c) /\ Mid
    <2>1. InQueue(Wanted) \/ InDevice(Wanted)
      BY <1>1, <1>8, <1>9, <1>13 DEF Followed, Latest, InReply, InReading
    <2>2. (InQueue(Wanted) \/ InDevice(Wanted))'
      <3>1. CASE InQueue(Wanted)
        <4>1. LastIs(q, Older, Wanted)
          BY <1>1, <3>1 DEF InQueue
        <4>2. LastIs(toDevice', Older, Wanted)
          BY <1>2, <1>13, <4>1, LastAppend
        <4>3. QED
          BY <1>2, <1>4, <3>1, <4>2 DEF InQueue, OlderDevice, OlderReading
      <3>2. CASE InDevice(Wanted)
        <4>1. NoFirst(q)
          BY <1>1, <3>2 DEF InDevice
        <4>2. NoFirst(toDevice')
          BY <1>2, <1>13, <4>1, AllAppend
        <4>3. QED
          BY <1>2, <1>4, <3>2, <4>2 DEF InDevice, OlderReading
      <3>3. QED
        BY <2>1, <3>1, <3>2
    <2>3. Followed(a, c)'
      BY <1>2, <1>13, <2>2 DEF Followed, Latest
    <2>4. QED
      BY <1>6, <1>12, <2>3 DEF Orderly
  <1>14. CASE Preceded(c)
    <2>1. AllIn(q, Older) /\ p.first
      BY <1>1, <1>2, <1>14 DEF Preceded
    <2>2. LastIs(toDevice', Older, Wanted)
      BY <1>2, <2>1, LastAppend
    <2>3. InQueue(Wanted)'
      BY <1>2, <1>4, <1>14, <2>2 DEF Preceded, InQueue, OlderDevice, OlderReading
    <2>4. Followed(a, c)'
      BY <1>2, <1>14, <2>3 DEF Followed, Latest, Preceded
    <2>5. QED
      BY <1>6, <1>12, <2>4 DEF Orderly
  <1>15. CASE Trailing
    <2>1. phase = "initialize"
      BY <1>2, <1>15 DEF Trailing
    <2>2. p.kind \in Early
      BY <1>2, <2>1, WantedIs, SMT DEF Early
    <2>3. /\ RestIn(q, Early) => RestIn(toDevice', Early)
          /\ AllIn(q, Early) => AllIn(toDevice', Early)
      BY <1>2, <2>2, AllAppend
    <2>4. Trailing'
      BY <1>1, <1>2, <1>15, <2>1, <2>3 DEF Trailing
    <2>5. QED
      BY <1>6, <1>12, <2>4 DEF Orderly
  <1>16. QED
    BY <1>2, <1>7, <1>13, <1>14, <1>15 DEF Followed, Underway

LEMMA WritesCutShort ==
    ASSUME IInv, IInv', WritePacket, faults \in {0, 1}, Dialogue,
           NEW a \in Places, NEW b \in Places, CutShort(a, b)
    PROVE  \E e \in Places : CutShort(a, e)'
  <1>1. PICK p, q, n, e : p = Head(unwritten) /\ q = toDevice /\ n = Len(unwritten) /\ e = After(b, p)
    OBVIOUS
  <1>2. /\ toDevice' = Append(q, p) /\ q \in Seq(Packets(Requests))
        /\ p \in Packets(Requests) /\ p.kind \in Requests
        /\ p.first \in BOOLEAN /\ (Mid <=> ~p.first)
        /\ p.first => n = Length[p.kind]
        /\ n \in Nat \ {0} /\ Len(unwritten') = n - 1
        /\ unwritten' = <<>> => Len(unwritten') = 0
        /\ (Mid' <=> unwritten' # <<>>) /\ (Mid' => Head(unwritten').kind = p.kind)
        /\ ReadPhase' <=> unwritten' = <<>>
        /\ Underway' /\ ~ReadPhase
        /\ phase \in {"initialize", "request", "ecdh"}
        /\ phase = "initialize" => phase' \in {"initialize", "status"}
        /\ reading' = reading /\ fromDevice' = fromDevice /\ device' = device /\ faults' = faults
    BY <1>1, Writes
  <1>3. p \in Packets(Kinds) /\ p.kind \in Kinds
    BY <1>2, KindsOf
  <1>4. /\ faults = 1 /\ phase \in {"initialize", "status", "failed"}
        /\ fromDevice = <<>> /\ reading = Idle
        /\ Leads(a, q, b, FALSE)
        /\ Mid => b.left = n /\ b.kind = p.kind
        /\ device = Idle => q # <<>> /\ q[1].first
        /\ \A i \in 1..Len(q) : i > Lacking => ~q[i].first
        /\ IF Mid
           THEN \/ device # Idle /\ ~device.intact
                \/ \E i \in 1..Len(q) : q[i].first /\ i <= Lacking /\ (i = 1 => device # Idle)
           ELSE Len(q) < Lacking
    BY <1>1, <1>2 DEF CutShort, Underway
  <1>5. Leads(a, toDevice', e, FALSE) /\ e \in Places /\ e.left = n - 1 /\ e.kind = p.kind
    <2>1. PICK w : w = FALSE
      OBVIOUS
    <2>2. w \in BOOLEAN /\ Leads(a, q, b, w)
      BY <1>4, <2>1
    <2>3. IF p.first THEN n = Length[p.kind] /\ (w => b.left = 0) ELSE b.left = n /\ b.kind = p.kind
      BY <1>2, <1>4, <2>1
    <2>4. Leads(a, Append(q, p), e, w) /\ e \in Places /\ e.left = n - 1 /\ e.kind = p.kind
      BY <1>1, <1>2, <1>3, <2>2, <2>3, OnePlace
    <2>5. QED
      BY <1>2, <2>1, <2>4
  <1>6. PICK k : k = Len(q)
    OBVIOUS
  <1>7. /\ k \in Nat /\ Len(toDevice') = k + 1 /\ toDevice'[k + 1] = p /\ toDevice' # <<>>
        /\ \A i \in 1..k : toDevice'[i] = q[i]
        /\ q # <<>> => k # 0 /\ toDevice'[1] = q[1]
    <2>1. PICK S : S = Packets(Requests)
      OBVIOUS
    <2>2. q \in Seq(S) /\ p \in S /\ toDevice' = Append(q, p)
      BY <1>2, <2>1
    <2>3. QED
      BY <1>6, <2>2, SMT
  <1>8. (\A i \in 1..k + 1 : i \in 1..k \/ i = k + 1) /\ k + 1 \in 1..k + 1
        /\ (\A i \in 1..k : i \in 1..k + 1) /\ (k + 1 = 1 => k = 0)
    BY <1>7, SMT
  <1>9. Lacking' = Lacking
    BY <1>1, <1>2, <1>4, <1>7 DEF Lacking
  <1>10. Lacking \in Nat
    <2>1. CASE device # Idle
      <3>1. device.missing \in Nat
        BY PartialFields DEF IInv, Types
      <3>2. QED
        BY <2>1, <3>1 DEF Lacking
    <2>2. CASE device = Idle
      <3>1. q # <<>>
        BY <1>4, <2>2
      <3>2. q[1] \in Packets(Requests)
        BY <1>2, <3>1, TailOf
      <3>3. q[1].kind \in Kinds
        <4>1. q[1].kind \in Requests
          BY <3>2, SMT DEF Packets
        <4>2. QED
          BY <4>1, KindsOf
      <3>4. Length[q[1].kind] \in Nat
        BY <3>3, LengthIsPositive
      <3>5. QED
        BY <1>1, <2>2, <3>4 DEF Lacking
    <2>3. QED
      BY <2>1, <2>2
  <1>11. p.first => k + 1 <= Lacking /\ ~(k + 1 > Lacking)
    <2>1. p.first => k < Lacking
      BY <1>2, <1>4, <1>6
    <2>2. QED
      BY <1>7, <1>10, <2>1, SMT
  <1>12. \A i \in 1..Len(toDevice') : i > Lacking' => ~toDevice'[i].first
    BY <1>4, <1>6, <1>7, <1>8, <1>9, <1>11
  <1>13. \/ device' # Idle /\ ~device'.intact
         \/ \E i \in 1..Len(toDevice') :
               toDevice'[i].first /\ i <= Lacking' /\ (i = 1 => device' # Idle)
    <2>1. CASE p.first
      <3>1. k + 1 = 1 => device # Idle
        BY <1>4, <1>7, <1>8
      <3>2. QED
        BY <1>2, <1>7, <1>8, <1>9, <1>11, <2>1, <3>1
    <2>2. CASE ~p.first
      <3>1. \/ device # Idle /\ ~device.intact
            \/ \E i \in 1..k : q[i].first /\ i <= Lacking /\ (i = 1 => device # Idle)
        BY <1>2, <1>4, <1>6, <2>2
      <3>2. QED
        BY <1>2, <1>7, <1>8, <1>9, <3>1
    <2>3. QED
      BY <2>1, <2>2
  <1>14. Mid' => e.left = Len(unwritten') /\ e.kind = Head(unwritten').kind
    BY <1>2, <1>5
  <1>15. ReadPhase' => e.left = 0
    BY <1>2, <1>5
  <1>16. /\ device' = Idle => toDevice' # <<>> /\ toDevice'[1].first
         /\ faults' = 1 /\ phase' \in {"initialize", "status", "failed"}
         /\ fromDevice' = <<>> /\ reading' = Idle
    BY <1>2, <1>4, <1>7
  <1>17. CutShort(a, e)'
    BY <1>2, <1>5, <1>12, <1>13, <1>14, <1>15, <1>16 DEF CutShort
  <1>18. QED
    BY <1>5, <1>17

-----------------------------------------------------------------------------
(* The device reads.                                                         *)
LEMMA FrontOf ==
    ASSUME NEW kinds, kinds \subseteq Kinds, NEW q \in Seq(Packets(kinds)), q # <<>>,
           NEW whole \in BOOLEAN, NEW a \in Places, NEW b, Leads(a, q, b, whole), NEW p, p = Head(q)
    PROVE  LET e == After(a, p) IN
           /\ p.kind \in kinds /\ p.first \in BOOLEAN /\ p.own \in BOOLEAN
           /\ Leads(e, Tail(q), b, whole) /\ e \in Places /\ e.kind = p.kind
           /\ p.first => /\ whole => a.left = 0
                         /\ e.left = Length[p.kind] - 1 /\ Length[p.kind] \in Nat \ {0}
           /\ ~p.first => a.left > 0 /\ p.kind = a.kind /\ e.left = a.left - 1
  <1>1. PICK e : e = After(a, p)
    OBVIOUS
  <1>2. p \in Packets(kinds)
    BY TailOf
  <1>3. p.kind \in kinds /\ p.first \in BOOLEAN /\ p.own \in BOOLEAN
    BY <1>2, SMT DEF Packets
  <1>4. Fits(a, p, whole) /\ Leads(e, Tail(q), b, whole)
    BY <1>1, Taken
  <1>5. e \in Places /\ e.kind = p.kind
    <2>1. p \in Packets(Kinds)
      BY <1>2, SMT DEF Packets
    <2>2. QED
      BY <1>1, <1>4, <2>1, PlaceAfter DEF After
  <1>6. Length[p.kind] \in Nat \ {0}
    <2>1. p.kind \in Kinds
      BY <1>3
    <2>2. QED
      BY <2>1, LengthIsPositive
  <1>7. (p.first => e.left = Length[p.kind] - 1) /\ (~p.first => e.left = a.left - 1)
    <2>1. /\ p.first = TRUE =>
                After(a, p) = [left |-> Length[p.kind] - 1, kind |-> p.kind, lost |-> a.lost + a.left,
                               failed |-> a.failed + One(p.kind = "failure")]
          /\ p.first = FALSE =>
                After(a, p) = [left |-> a.left - 1, kind |-> p.kind, lost |-> a.lost,
                               failed |-> a.failed]
      BY AfterPacket
    <2>2. QED
      BY <1>1, <1>3, <2>1
  <1>8. QED
    BY <1>1, <1>3, <1>4, <1>5, <1>6, <1>7 DEF Fits

LEMMA DeviceAlone ==
    ASSUME UNCHANGED <<hostVars, historyVars>>
    PROVE  /\ phase' = phase /\ legacy' = legacy /\ unwritten' = unwritten
           /\ reading' = reading /\ result' = result /\ faults' = faults
           /\ (Mid' <=> Mid) /\ (Later' <=> Later) /\ (Underway' <=> Underway)
           /\ (ReadPhase' <=> ReadPhase)
           /\ Wanted' = Wanted /\ Older' = Older /\ (Dialogue' <=> Dialogue)
           /\ (OlderReading' <=> OlderReading)
  <1>1. /\ phase' = phase /\ legacy' = legacy /\ unwritten' = unwritten
        /\ reading' = reading /\ (Mid' <=> Mid) /\ (ReadPhase' <=> ReadPhase)
        /\ (Underway' <=> Underway) /\ (Later' <=> Later)
    BY HostWaits
  <1>2. result' = result /\ faults' = faults
    BY DEF hostVars, historyVars
  <1>3. Wanted' = Wanted /\ Older' = Older
    BY <1>1, <1>2 DEF Wanted, Older
  <1>4. QED
    BY <1>1, <1>2, <1>3 DEF Dialogue, OlderReading

(* m is the whole message so far, p in it, that the device has now.          *)
Held(m, p, e) ==
    /\ m.kind \in Requests /\ m.own \in BOOLEAN /\ m.intact = TRUE
    /\ m.missing = e.left /\ m.kind = e.kind
    /\ m.missing > 0 => m # Idle
    /\ \/ /\ device # Idle /\ ~p.first /\ m.kind = device.kind /\ m.own = device.own
          /\ m.missing = device.missing - 1
       \/ /\ device = Idle /\ p.first /\ m.kind = p.kind /\ m.own = p.own
          /\ m.missing = Length[p.kind] - 1

LEMMA DeviceHolds ==
    ASSUME Types, DeviceRead, faults \in {0, 1},
           NEW a \in Places, NEW b \in Places, NEW c, NEW d, Aligned(a, b, c, d),
           NEW p, p = Head(toDevice), NEW e, e = After(a, p)
    PROVE  /\ toDevice # <<>> /\ toDevice' = Tail(toDevice) /\ UNCHANGED <<hostVars, historyVars>>
           /\ p.kind \in Requests /\ p.first \in BOOLEAN
           /\ Leads(e, toDevice', b, TRUE) /\ e \in Places
           /\ \/ \E m : Held(m, p, e) /\ Assemble(m)
              \/ /\ device = Idle /\ ~p.first /\ faults = 1
                 /\ device' = device /\ fromDevice' = fromDevice
  <1>1. /\ toDevice # <<>> /\ toDevice' = Tail(toDevice) /\ UNCHANGED <<hostVars, historyVars>>
        /\ \/ device # Idle /\ Assemble(Continue(device, p))
           \/ device = Idle /\ p.first /\ Assemble(Begin(p))
           \/ device = Idle /\ ~p.first /\ UNCHANGED <<device, fromDevice>>
    BY Zenon DEF DeviceRead
  <1>2. /\ p.kind \in Requests /\ p.first \in BOOLEAN /\ p.own \in BOOLEAN
        /\ Leads(e, toDevice', b, TRUE) /\ e \in Places /\ e.kind = p.kind
        /\ p.first => /\ a.left = 0
                      /\ e.left = Length[p.kind] - 1 /\ Length[p.kind] \in Nat \ {0}
        /\ ~p.first => a.left > 0 /\ p.kind = a.kind /\ e.left = a.left - 1
    <2>1. PICK q, w : q = toDevice /\ w = TRUE
      OBVIOUS
    <2>2. /\ q \in Seq(Packets(Requests)) /\ q # <<>> /\ w \in BOOLEAN /\ Leads(a, q, b, w) /\ p = Head(q)
          /\ Requests \subseteq Kinds
      BY <1>1, <2>1, KindsOf DEF Types, Aligned
    <2>3. /\ p.kind \in Requests /\ p.first \in BOOLEAN /\ p.own \in BOOLEAN
          /\ Leads(e, Tail(q), b, w) /\ e \in Places /\ e.kind = p.kind
          /\ p.first => /\ w => a.left = 0
                        /\ e.left = Length[p.kind] - 1 /\ Length[p.kind] \in Nat \ {0}
          /\ ~p.first => a.left > 0 /\ p.kind = a.kind /\ e.left = a.left - 1
      BY <2>2, FrontOf
    <2>4. QED
      BY <1>1, <2>1, <2>3
  <1>3. /\ device.missing \in Nat /\ device.own \in BOOLEAN
        /\ device = Idle => device.missing = 0
        /\ device # Idle => device.missing > 0 /\ device.kind \in Requests
    BY PartialFields DEF Types
  <1>4. device # Idle => device.intact /\ device.missing = a.left /\ device.kind = a.kind
    BY DEF Aligned
  <1>5. e.left \in Nat
    BY <1>2, PlaceFields
  <1>6. CASE device # Idle /\ Assemble(Continue(device, p))
    <2>1. ~p.first
      BY <1>2, <1>3, <1>4, <1>6, SMT
    <2>2. PICK m, i : m = Continue(device, p) /\ i = (device.intact /\ ~p.first /\ p.kind = device.kind)
      OBVIOUS
    <2>3. i = TRUE
      BY <1>2, <1>4, <1>6, <2>1, <2>2
    <2>4. m = Partial(device.kind, e.left, device.own, i) /\ i \in BOOLEAN
      BY <1>2, <1>4, <1>6, <2>1, <2>2, <2>3 DEF Continue
    <2>5. /\ m.kind = device.kind /\ m.missing = e.left /\ m.own = device.own /\ m.intact = i
          /\ m.missing > 0 => m # Idle
      BY <1>3, <1>5, <2>4, PartialOf
    <2>6. Held(m, p, e)
      BY <1>2, <1>3, <1>4, <1>6, <2>1, <2>3, <2>5 DEF Held
    <2>7. QED
      BY <1>1, <1>2, <1>6, <2>2, <2>6
  <1>7. CASE device = Idle /\ p.first /\ Assemble(Begin(p))
    <2>1. PICK m, i, k, n, o : m = Begin(p) /\ i = TRUE /\ k = p.kind /\ n = e.left /\ o = p.own
      OBVIOUS
    <2>2. m = Partial(k, n, o, i) /\ i \in BOOLEAN /\ n \in Nat /\ o \in BOOLEAN
      BY <1>2, <1>5, <1>7, <2>1 DEF Begin
    <2>3. /\ m.kind = k /\ m.missing = n /\ m.own = o /\ m.intact = i
          /\ m.missing > 0 => m # Idle
      BY <2>2, PartialOf
    <2>4. Held(m, p, e)
      BY <1>2, <1>7, <2>1, <2>3 DEF Held
    <2>5. QED
      BY <1>1, <1>2, <1>7, <2>1, <2>4
  <1>8. CASE device = Idle /\ ~p.first /\ UNCHANGED <<device, fromDevice>>
    <2>1. a.left # 0
      BY <1>2, <1>8, SMT
    <2>2. faults # 0
      BY <1>3, <1>8, <2>1 DEF Aligned
    <2>3. QED
      BY <1>1, <1>2, <1>8, <2>2
  <1>9. QED
    BY <1>1, <1>6, <1>7, <1>8

(* What the queue from the device is when the device is done with a message. *)
LEMMA Answered ==
    ASSUME Types, NEW m, NEW p, NEW e \in Places, Held(m, p, e), Assemble(m)
    PROVE  /\ m.missing > 0 => device' = m /\ m # Idle /\ fromDevice' = fromDevice
           /\ m.missing = 0 =>
                 /\ device' = Idle /\ Answer[m.kind] \in Replies
                 /\ fromDevice' = fromDevice \o PacketsOf(Answer[m.kind], m.own)
                 /\ fromDevice' # <<>>
                 /\ \A S : /\ AllIn(fromDevice, S) /\ Answer[m.kind] \in S => AllIn(fromDevice', S)
                           /\ AllIn(fromDevice, S) /\ m.own => LastIs(fromDevice', S, Answer[m.kind])
                           /\ RestIn(fromDevice, S) /\ (Answer[m.kind] \in S \/ fromDevice = <<>>)
                                => RestIn(fromDevice', S)
           /\ m.missing \in Nat /\ (m.missing = 0 \/ m.missing > 0)
           /\ m.kind \in Early => Answer[m.kind] \in Early
           /\ m.kind \in Older => Answer[m.kind] \in Older
  <1>1. m.missing \in Nat /\ (m.missing = 0 \/ m.missing > 0)
    <2>1. e.left \in Nat
      BY PlaceFields
    <2>2. PICK n : n = m.missing
      OBVIOUS
    <2>3. n \in Nat
      BY <2>1, <2>2 DEF Held
    <2>4. n = 0 \/ n > 0
      BY <2>3, SMT
    <2>5. QED
      BY <2>2, <2>3, <2>4
  <1>2. m.missing > 0 => device' = m /\ m # Idle /\ fromDevice' = fromDevice
    <2>1. m.missing > 0 => m.missing # 0
      BY SMT
    <2>2. QED
      BY <2>1 DEF Assemble, Held
  <1>3. AnswerTo(m) = Answer[m.kind] /\ Answer[m.kind] \in Replies
    BY AnswerOf DEF Held
  <1>4. ASSUME m.missing = 0
        PROVE  /\ device' = Idle
               /\ fromDevice' = fromDevice \o PacketsOf(Answer[m.kind], m.own)
    BY <1>3, <1>4 DEF Assemble
  <1>5. ASSUME m.missing = 0, NEW S
        PROVE  /\ AllIn(fromDevice, S) /\ Answer[m.kind] \in S => AllIn(fromDevice', S)
               /\ AllIn(fromDevice, S) /\ m.own => LastIs(fromDevice', S, Answer[m.kind])
               /\ RestIn(fromDevice, S) /\ (Answer[m.kind] \in S \/ fromDevice = <<>>)
                    => RestIn(fromDevice', S)
               /\ fromDevice' # <<>>
    <2>1. PICK q, kind, own : q = fromDevice /\ kind = Answer[m.kind] /\ own = m.own
      OBVIOUS
    <2>2. q \in Seq(Packets(Replies)) /\ kind \in Kinds /\ kind \in Replies /\ own \in BOOLEAN
      BY <1>3, <2>1, KindsOf DEF Types, Held
    <2>3. LET r == q \o PacketsOf(kind, own) IN
          /\ AllIn(q, S) /\ kind \in S => AllIn(r, S)
          /\ AllIn(q, S) /\ own => LastIs(r, S, kind)
          /\ RestIn(q, S) /\ (kind \in S \/ q = <<>>) => RestIn(r, S)
          /\ r # <<>>
      BY <2>2, AllMessage
    <2>4. QED
      BY <1>4, <1>5, <2>1, <2>3
  <1>6. (m.kind \in Early => Answer[m.kind] \in Early) /\ (m.kind \in Older => Answer[m.kind] \in Older)
    BY OlderIs DEF Held
  <1>7. QED
    BY <1>1, <1>2, <1>3, <1>4, <1>5, <1>6

(* The message the host waits for moves on; the others make room for it.     *)
LEMMA StageReads ==
    ASSUME Types, faults \in {0, 1}, toDevice # <<>>, toDevice' = Tail(toDevice),
           UNCHANGED <<hostVars, historyVars>>,
           NEW a \in Places, NEW b, NEW c, Leads(a, toDevice, b, TRUE),
           NEW p, p = Head(toDevice), NEW e \in Places, NEW m, Held(m, p, e), Assemble(m),
           Followed(a, c) \/ Preceded(c) \/ Trailing \/ Done
    PROVE  (Followed(e, c) \/ Preceded(c) \/ Trailing)'
  <1>1. PICK q : q = toDevice
    OBVIOUS
  <1>2. q \in Seq(Packets(Requests)) /\ q # <<>> /\ toDevice' = Tail(q) /\ p = Head(q)
    BY <1>1 DEF Types
  <1>3. \A S : /\ AllIn(q, S) => AllIn(toDevice', S) /\ RestIn(q, S) /\ (p.first => p.kind \in S)
               /\ RestIn(q, S) => AllIn(toDevice', S) /\ RestIn(toDevice', S)
               /\ NoFirst(q) => NoFirst(toDevice') /\ ~p.first
    <2>1. TAKE S
    <2>2. AllIn(toDevice', S) => RestIn(toDevice', S)
      BY NoneIn
    <2>3. QED
      BY <1>2, <2>2, AllTail
  <1>4. /\ phase' = phase /\ reading' = reading /\ faults' = faults
        /\ (Mid' <=> Mid) /\ (Later' <=> Later) /\ (Underway' <=> Underway)
        /\ Wanted' = Wanted /\ Older' = Older /\ (OlderReading' <=> OlderReading)
    BY DeviceAlone
  <1>5. /\ m.missing > 0 => device' = m /\ m # Idle /\ fromDevice' = fromDevice
        /\ m.missing = 0 =>
              /\ device' = Idle
              /\ fromDevice' # <<>>
              /\ \A S : /\ AllIn(fromDevice, S) /\ Answer[m.kind] \in S => AllIn(fromDevice', S)
                        /\ AllIn(fromDevice, S) /\ m.own => LastIs(fromDevice', S, Answer[m.kind])
                        /\ RestIn(fromDevice, S) /\ (Answer[m.kind] \in S \/ fromDevice = <<>>)
                             => RestIn(fromDevice', S)
        /\ m.missing = 0 \/ m.missing > 0
        /\ m.kind \in Early => Answer[m.kind] \in Early
        /\ m.kind \in Older => Answer[m.kind] \in Older
    BY Answered
  <1>6. /\ \/ device # Idle /\ ~p.first /\ m.kind = device.kind /\ m.own = device.own
           \/ device = Idle /\ p.first /\ m.kind = p.kind /\ m.own = p.own
        /\ m.missing = e.left
    BY DEF Held
  <1>7. CASE Followed(a, c)
    <2>1. ~(NoFirst(q) /\ device = Idle /\ a.left = 0)
      BY <1>1, NothingSent
    <2>2. InQueue(Wanted) \/ InDevice(Wanted)
      BY <1>1, <1>7, <2>1 DEF Followed, Latest, InReply, InReading
    <2>3. ASSUME NoFirst(toDevice'), m.kind = Wanted, m.own, AllIn(fromDevice, Older), OlderReading
          PROVE  (InDevice(Wanted) \/ InReply(e, Answer[Wanted]))'
      <3>1. CASE m.missing > 0
        <4>1. InDevice(Wanted)'
          BY <1>4, <1>5, <2>3, <3>1 DEF InDevice
        <4>2. QED
          BY <4>1
      <3>2. CASE m.missing = 0
        <4>1. LastIs(fromDevice', Older, Answer[Wanted])
          BY <1>5, <2>3, <3>2
        <4>2. Answer' = Answer
          BY DEF Answer
        <4>3. InReply(e, Answer[Wanted])'
          BY <1>4, <1>5, <1>6, <2>3, <3>2, <4>1, <4>2 DEF InReply
        <4>4. QED
          BY <4>3
      <3>3. QED
        BY <1>5, <3>1, <3>2
    <2>4. CASE InQueue(Wanted)
      <3>1. LastIs(q, Older, Wanted) /\ OlderDevice /\ AllIn(fromDevice, Older) /\ OlderReading
        BY <1>1, <2>4 DEF InQueue
      <3>2. IF p.first /\ NoFirst(toDevice')
            THEN p.kind = Wanted /\ p.own
            ELSE LastIs(toDevice', Older, Wanted) /\ (p.first => p.kind \in Older)
        BY <1>2, <3>1, LastTail
      <3>3. (InQueue(Wanted) \/ InDevice(Wanted) \/ InReply(e, Answer[Wanted]))'
        <4>1. CASE p.first /\ NoFirst(toDevice')
          <5>1. m.kind = Wanted /\ m.own
            BY <1>6, <3>2, <4>1
          <5>2. (InDevice(Wanted) \/ InReply(e, Answer[Wanted]))'
            BY <2>3, <3>1, <4>1, <5>1
          <5>3. QED
            BY <5>2
        <4>2. CASE ~(p.first /\ NoFirst(toDevice'))
          <5>1. m.kind \in Older
            BY <1>6, <3>1, <3>2, <4>2 DEF OlderDevice
          <5>2. AllIn(fromDevice', Older)
            BY <1>5, <3>1, <5>1
          <5>3. OlderDevice'
            BY <1>4, <1>5, <5>1 DEF OlderDevice
          <5>4. LastIs(toDevice', Older, Wanted)
            BY <3>2, <4>2
          <5>5. InQueue(Wanted)'
            BY <1>4, <3>1, <5>2, <5>3, <5>4 DEF InQueue
          <5>6. QED
            BY <5>5
        <4>3. QED
          BY <4>1, <4>2
      <3>4. QED
        BY <1>4, <1>7, <3>3 DEF Followed, Latest
    <2>5. CASE InDevice(Wanted)
      <3>1. /\ NoFirst(toDevice') /\ m.kind = Wanted /\ m.own
            /\ AllIn(fromDevice, Older) /\ OlderReading
        BY <1>1, <1>3, <1>6, <2>5 DEF InDevice
      <3>2. (InDevice(Wanted) \/ InReply(e, Answer[Wanted]))'
        BY <2>3, <3>1
      <3>3. QED
        BY <1>4, <1>7, <3>2 DEF Followed, Latest
    <2>6. QED
      BY <2>2, <2>4, <2>5
  <1>8. CASE Preceded(c)
    <2>1. /\ AllIn(q, Older) /\ OlderDevice /\ AllIn(fromDevice, Older)
      BY <1>1, <1>8 DEF Preceded
    <2>2. m.kind \in Older /\ AllIn(toDevice', Older)
      BY <1>3, <1>6, <2>1 DEF OlderDevice
    <2>3. AllIn(fromDevice', Older) /\ OlderDevice'
      BY <1>4, <1>5, <2>1, <2>2 DEF OlderDevice
    <2>4. Preceded(c)'
      BY <1>4, <1>8, <2>2, <2>3 DEF Preceded
    <2>5. QED
      BY <2>4
  <1>9. CASE Trailing
    <2>1. /\ RestIn(fromDevice, Early) /\ (reading # Idle => AllIn(fromDevice, Early))
          /\ RestIn(q, Early) /\ (device # Idle => AllIn(q, Early))
          /\ reading # Idle \/ fromDevice # <<>> =>
                AllIn(q, Early) /\ (device # Idle => device.kind \in Early)
      BY <1>1, <1>9 DEF Trailing
    <2>2. AllIn(toDevice', Early) /\ RestIn(toDevice', Early)
      BY <1>3, <2>1
    <2>3. reading # Idle \/ fromDevice # <<>> => m.kind \in Early
      BY <1>3, <1>6, <2>1
    <2>4. RestIn(fromDevice', Early) /\ (reading # Idle => AllIn(fromDevice', Early))
      BY <1>5, <2>1, <2>3
    <2>5. reading # Idle \/ fromDevice' # <<>> => (device' # Idle => device'.kind \in Early)
      BY <1>5, <2>3
    <2>6. Trailing'
      BY <1>4, <1>9, <2>2, <2>4, <2>5 DEF Trailing
    <2>7. QED
      BY <2>6
  <1>10. CASE Done
    BY <1>10 DEF Done
  <1>11. QED
    BY <1>7, <1>8, <1>9, <1>10

(* A packet that continues nothing passes by.                                *)
LEMMA StagePasses ==
    ASSUME Types, faults \in {0, 1}, toDevice # <<>>, toDevice' = Tail(toDevice),
           UNCHANGED <<hostVars, historyVars>>,
           NEW a \in Places, NEW b, NEW c, Leads(a, toDevice, b, TRUE),
           NEW p, p = Head(toDevice), NEW e,
           device = Idle, ~p.first, device' = device, fromDevice' = fromDevice,
           Followed(a, c) \/ Preceded(c) \/ Trailing \/ Done
    PROVE  (Followed(e, c) \/ Preceded(c) \/ Trailing)'
  <1>1. PICK q : q = toDevice
    OBVIOUS
  <1>2. q \in Seq(Packets(Requests)) /\ q # <<>> /\ toDevice' = Tail(q) /\ p = Head(q)
    BY <1>1 DEF Types
  <1>3. \A S : /\ AllIn(q, S) => AllIn(toDevice', S) /\ RestIn(q, S)
               /\ RestIn(q, S) => AllIn(toDevice', S) /\ RestIn(toDevice', S)
    BY <1>2, AllTail, NoneIn
  <1>4. /\ phase' = phase /\ reading' = reading /\ faults' = faults
        /\ (Mid' <=> Mid) /\ (Later' <=> Later) /\ (Underway' <=> Underway)
        /\ Wanted' = Wanted /\ Older' = Older /\ (OlderReading' <=> OlderReading)
    BY DeviceAlone
  <1>5. CASE Followed(a, c)
    <2>1. ~(NoFirst(q) /\ a.left = 0)
      BY <1>1, NothingSent
    <2>2. LastIs(q, Older, Wanted) /\ AllIn(fromDevice, Older) /\ OlderReading
      BY <1>1, <1>5, <2>1 DEF Followed, Latest, InQueue, InDevice, InReply, InReading
    <2>3. LastIs(toDevice', Older, Wanted)
      BY <1>2, <2>2, LastTail
    <2>4. InQueue(Wanted)'
      BY <1>4, <2>2, <2>3 DEF InQueue, OlderDevice
    <2>5. QED
      BY <1>4, <1>5, <2>4 DEF Followed, Latest
  <1>6. CASE Preceded(c)
    BY <1>1, <1>3, <1>4, <1>6 DEF Preceded, OlderDevice
  <1>7. CASE Trailing
    BY <1>1, <1>3, <1>4, <1>7 DEF Trailing
  <1>8. CASE Done
    BY <1>8 DEF Done
  <1>9. QED
    BY <1>5, <1>6, <1>7, <1>8

LEMMA DeviceReadsInOrder ==
    ASSUME IInv, IInv', DeviceRead, faults \in {0, 1},
           NEW a \in Places, NEW b \in Places, NEW c \in Places, NEW d \in Places,
           Orderly(a, b, c, d)
    PROVE  \E e, f \in Places : Orderly(e, b, c, f)'
  <1>1. PICK p, e : p = Head(toDevice) /\ e = After(a, p)
    OBVIOUS
  <1>2. Types /\ Aligned(a, b, c, d) /\ (Followed(a, c) \/ Preceded(c) \/ Trailing \/ Done)
    BY DEF IInv, Orderly
  <1>3. /\ toDevice # <<>> /\ toDevice' = Tail(toDevice) /\ UNCHANGED <<hostVars, historyVars>>
        /\ p.kind \in Requests /\ p.first \in BOOLEAN
        /\ Leads(e, toDevice', b, TRUE) /\ e \in Places
        /\ \/ \E m : Held(m, p, e) /\ Assemble(m)
           \/ /\ device = Idle /\ ~p.first /\ faults = 1
              /\ device' = device /\ fromDevice' = fromDevice
    BY <1>1, <1>2, DeviceHolds
  <1>4. /\ unwritten' = unwritten /\ reading' = reading /\ faults' = faults /\ (Mid' <=> Mid)
    BY <1>3, DeviceAlone
  <1>5. /\ Leads(a, toDevice, b, TRUE) /\ Leads(c, fromDevice, d, TRUE)
        /\ reading # Idle => reading.intact /\ reading.missing = c.left /\ reading.kind = c.kind
        /\ b.left = IF Mid THEN Len(unwritten) ELSE 0
        /\ Mid => b.kind = Head(unwritten).kind
        /\ d.left = 0
        /\ faults = 0 /\ Mid => Len(toDevice) + Len(unwritten) = Lacking
    BY <1>2 DEF Aligned
  <1>6. CASE device = Idle /\ ~p.first /\ faults = 1 /\ device' = device /\ fromDevice' = fromDevice
    <2>1. (Followed(e, c) \/ Preceded(c) \/ Trailing)'
      BY <1>1, <1>2, <1>3, <1>5, <1>6, StagePasses
    <2>2. faults' # 0
      BY <1>4, <1>6
    <2>3. Aligned(e, b, c, d)'
      BY <1>3, <1>4, <1>5, <1>6, <2>2 DEF Aligned
    <2>4. QED
      BY <1>3, <2>1, <2>3 DEF Orderly
  <1>7. ASSUME NEW m, Held(m, p, e), Assemble(m)
        PROVE  \E f \in Places : Orderly(e, b, c, f)'
    <2>1. (Followed(e, c) \/ Preceded(c) \/ Trailing)'
      BY <1>1, <1>2, <1>3, <1>5, <1>7, StageReads
    <2>2. /\ m.missing > 0 => device' = m /\ m # Idle /\ fromDevice' = fromDevice
          /\ m.missing = 0 =>
                /\ device' = Idle /\ Answer[m.kind] \in Replies
                /\ fromDevice' = fromDevice \o PacketsOf(Answer[m.kind], m.own)
          /\ m.missing \in Nat /\ (m.missing = 0 \/ m.missing > 0)
      BY <1>2, <1>3, <1>7, Answered
    <2>3. /\ m.kind = e.kind /\ m.missing = e.left /\ m.intact /\ m.own \in BOOLEAN
          /\ \/ device # Idle /\ m.missing = device.missing - 1
             \/ device = Idle /\ m.missing = Length[p.kind] - 1
      BY <1>7 DEF Held
    <2>4. /\ device' # Idle => device'.intact /\ device'.missing = e.left /\ device'.kind = e.kind
          /\ e.left = device'.missing
      <3>1. Idle.missing = 0
        BY DEF Idle, Partial
      <3>2. QED
        BY <2>2, <2>3, <3>1
    <2>5. \E f \in Places : Leads(c, fromDevice', f, TRUE) /\ f.left = 0
      <3>1. CASE m.missing > 0
        BY <1>5, <2>2, <3>1
      <3>2. CASE m.missing = 0
        <4>1. PICK q, kind, own, f : q = fromDevice /\ kind = Answer[m.kind] /\ own = m.own
                                     /\ f = Behind(d, kind)
          OBVIOUS
        <4>2. /\ q \in Seq(Packets(Replies)) /\ kind \in Kinds /\ kind \in Replies /\ own \in BOOLEAN
              /\ Leads(c, q, d, TRUE) /\ d.left = 0
          BY <1>2, <1>5, <2>2, <2>3, <3>2, <4>1, KindsOf DEF Types
        <4>3. /\ q \o PacketsOf(kind, own) \in Seq(Packets(Replies))
              /\ Leads(c, q \o PacketsOf(kind, own), f, TRUE)
          BY <4>1, <4>2, MessagePut
        <4>4. PICK r, w : r = q \o PacketsOf(kind, own) /\ w = TRUE
          OBVIOUS
        <4>5. r \in Seq(Packets(Replies)) /\ Leads(c, r, f, w) /\ w \in BOOLEAN
          BY <4>3, <4>4
        <4>6. f \in Places
          <5>1. Len(r) \in Nat
            BY <4>5, LenProperties
          <5>2. QED
            BY <4>5, <5>1, LeadsOn
        <4>7. f.left = 0
          BY <4>1 DEF Behind
        <4>8. fromDevice' = r
          BY <2>2, <3>2, <4>1, <4>4
        <4>9. QED
          BY <4>3, <4>4, <4>6, <4>7, <4>8
      <3>3. QED
        BY <2>2, <3>1, <3>2
    <2>6. ASSUME faults = 0, Mid
          PROVE  Len(toDevice') + Len(unwritten') = Lacking'
      <3>1. PICK q, u, k : q = toDevice /\ u = unwritten /\ k = Lacking
        OBVIOUS
      <3>2. /\ q \in Seq(Packets(Requests)) /\ q # <<>> /\ u \in Seq(Packets(Requests)) /\ u # <<>>
        BY <1>2, <1>3, <2>6, <3>1 DEF Types, Mid
      <3>3. Len(q) \in Nat \ {0} /\ Len(Tail(q)) = Len(q) - 1 /\ Len(u) \in Nat \ {0} /\ p = q[1]
        <4>1. Len(q) \in Nat \ {0} /\ Len(Tail(q)) = Len(q) - 1 /\ Head(q) = q[1]
          BY <3>2, TailOf
        <4>2. Len(u) \in Nat \ {0}
          BY <3>2, TailOf
        <4>3. QED
          BY <1>1, <3>1, <4>1, <4>2
      <3>4. Len(q) + Len(u) = k
        BY <1>5, <2>6, <3>1
      <3>5. m.missing = k - 1
        BY <2>3, <3>1, <3>3 DEF Lacking
      <3>6. m.missing > 0 /\ (Len(q) - 1) + Len(u) = m.missing
        BY <3>3, <3>4, <3>5, SMT
      <3>7. Lacking' = m.missing
        BY <2>2, <3>6 DEF Lacking
      <3>8. QED
        BY <1>3, <1>4, <3>1, <3>3, <3>6, <3>7
    <2>7. PICK f \in Places : Leads(c, fromDevice', f, TRUE) /\ f.left = 0
      BY <2>5
    <2>8. Aligned(e, b, c, f)'
      BY <1>3, <1>4, <1>5, <2>4, <2>6, <2>7 DEF Aligned
    <2>9. QED
      BY <2>1, <2>7, <2>8 DEF Orderly
  <1>8. QED
    BY <1>3, <1>6, <1>7

(* A damaged message is answered by a failure, and that is all there is.     *)
LEMMA Fails ==
    ASSUME Types, Types', UNCHANGED <<hostVars, historyVars>>, faults = 1,
           NEW a \in Places, NEW b \in Places, CutShort(a, b), Underway,
           NEW e \in Places, Leads(e, toDevice', b, FALSE), NoFirst(toDevice'), device' = Idle,
           NEW m, m.intact = FALSE, m.own \in BOOLEAN, fromDevice' = fromDevice \o PacketsOf(AnswerTo(m), m.own)
    PROVE  \E c, d \in Places : Orderly(e, b, c, d)'
  <1>1. /\ phase' = phase /\ unwritten' = unwritten /\ reading' = reading /\ faults' = faults
        /\ (Mid' <=> Mid)
    BY DeviceAlone
  <1>2. PICK z, q, kind, own, t, f :
           /\ z = [left |-> 0, kind |-> "none", lost |-> 0, failed |-> 0]
           /\ q = fromDevice /\ kind = AnswerTo(m) /\ own = m.own /\ t = TRUE /\ f = Behind(z, kind)
    OBVIOUS
  <1>3. z \in Places /\ z.left = 0
    BY <1>2, SMT DEF Places
  <1>4. phase \in {"initialize", "status", "failed"} /\ q = <<>> /\ reading = Idle
    BY <1>2 DEF CutShort
  <1>5. kind = "failure" /\ kind \in Replies /\ kind \in Kinds
    BY <1>2, KindsOf DEF AnswerTo
  <1>6. Leads(z, q, z, TRUE)
    <2>1. Leads(z, <<>>, z, t)
      BY <1>2, <1>3, LeadsNowhere
    <2>2. QED
      BY <1>2, <1>4, <2>1
  <1>7. q \in Seq(Packets(Replies)) /\ own \in BOOLEAN /\ fromDevice' = q \o PacketsOf(kind, own)
    BY <1>2 DEF Types
  <1>8. Leads(z, fromDevice', f, TRUE)
    <2>1. Leads(z, q \o PacketsOf(kind, own), Behind(z, kind), TRUE)
      BY <1>3, <1>5, <1>6, <1>7, MessagePut
    <2>2. QED
      BY <1>2, <1>7, <2>1
  <1>9. f \in Places /\ f.left = 0
    <2>1. PICK r : r = fromDevice'
      OBVIOUS
    <2>2. Leads(z, r, f, t) /\ t \in BOOLEAN /\ Len(r) \in Nat
      BY <1>2, <1>8, <2>1, LenProperties DEF Types
    <2>3. f \in Places
      BY <2>2, LeadsOn
    <2>4. QED
      BY <1>2, <2>3 DEF Behind
  <1>10. RestIn(fromDevice', Early)
    <2>1. RestIn(q, Early)
      BY <1>4, EmptyQueue
    <2>2. RestIn(q \o PacketsOf(kind, own), Early)
      BY <1>4, <1>5, <1>7, <2>1, AllMessage
    <2>3. QED
      BY <1>7, <2>2
  <1>11. Leads(e, toDevice', b, TRUE) /\ AllIn(toDevice', Early) /\ RestIn(toDevice', Early)
    BY WholeRest, NoneIn
  <1>12. Trailing'
    BY <1>1, <1>4, <1>10, <1>11 DEF Trailing
  <1>13. /\ b.left = IF Mid THEN Len(unwritten) ELSE 0
         /\ Mid => b.kind = Head(unwritten).kind
    BY DEF CutShort, Underway
  <1>14. Aligned(e, b, z, f)'
    <2>1. faults' # 0
      BY <1>1
    <2>2. QED
      BY <1>1, <1>4, <1>8, <1>9, <1>11, <1>13, <2>1 DEF Aligned
  <1>15. QED
    BY <1>3, <1>9, <1>12, <1>14 DEF Orderly

LEMMA DeviceReadsCutShort ==
    ASSUME IInv, IInv', DeviceRead, faults \in {0, 1},
           NEW a \in Places, NEW b \in Places, CutShort(a, b)
    PROVE  \/ \E e \in Places : CutShort(e, b)'
           \/ \E e, c, d \in Places : Orderly(e, b, c, d)'
  <1>1. PICK p, q, e, w : p = Head(toDevice) /\ q = toDevice /\ e = After(a, p) /\ w = FALSE
    OBVIOUS
  <1>2. Types /\ Types'
    BY DEF IInv
  <1>3. /\ q # <<>> /\ toDevice' = Tail(q) /\ UNCHANGED <<hostVars, historyVars>>
        /\ \/ device # Idle /\ Assemble(Continue(device, p))
           \/ device = Idle /\ p.first /\ Assemble(Begin(p))
           \/ device = Idle /\ ~p.first /\ UNCHANGED <<device, fromDevice>>
    BY <1>1, Zenon DEF DeviceRead
  <1>4. /\ faults = 1 /\ phase \in {"initialize", "status", "failed"}
        /\ fromDevice = <<>> /\ reading = Idle
        /\ Leads(a, q, b, w)
        /\ Mid => b.left = Len(unwritten) /\ b.kind = Head(unwritten).kind
        /\ ReadPhase => b.left = 0
        /\ device = Idle => q # <<>> /\ q[1].first
        /\ \A i \in 1..Len(q) : i > Lacking => ~q[i].first
        /\ IF Underway
           THEN \/ device # Idle /\ ~device.intact
                \/ \E i \in 1..Len(q) : q[i].first /\ i <= Lacking /\ (i = 1 => device # Idle)
           ELSE Len(q) < Lacking
    BY <1>1 DEF CutShort
  <1>5. q \in Seq(Packets(Requests)) /\ w \in BOOLEAN /\ Requests \subseteq Kinds
    BY <1>1, <1>2, KindsOf DEF Types
  <1>6. /\ p.kind \in Requests /\ p.first \in BOOLEAN /\ p.own \in BOOLEAN
        /\ Leads(e, toDevice', b, w) /\ e \in Places
        /\ p.first => Length[p.kind] \in Nat \ {0}
    BY <1>1, <1>3, <1>4, <1>5, FrontOf
  <1>7. PICK n : n = Len(q)
    OBVIOUS
  <1>8. /\ n \in Nat \ {0} /\ Len(toDevice') = n - 1 /\ p = q[1]
        /\ \A i \in 1..n - 1 : i + 1 \in 1..n /\ toDevice'[i] = q[i + 1]
    BY <1>1, <1>3, <1>5, <1>7, TailOf
  <1>9. /\ phase' = phase /\ unwritten' = unwritten /\ reading' = reading /\ faults' = faults
        /\ (Mid' <=> Mid) /\ (Underway' <=> Underway) /\ (ReadPhase' <=> ReadPhase)
    BY <1>3, DeviceAlone
  <1>10. /\ device.missing \in Nat /\ device.own \in BOOLEAN /\ device.intact \in BOOLEAN
         /\ device # Idle => device.missing > 0 /\ device.kind \in Requests
    BY <1>2, PartialFields DEF Types
  <1>11. \E m : /\ Assemble(m) /\ m.own \in BOOLEAN /\ m.intact \in BOOLEAN /\ m.missing = Lacking - 1
                /\ m.missing > 0 => m # Idle
                /\ m.intact => (device # Idle => device.intact /\ ~p.first)
    <2>1. CASE device # Idle /\ Assemble(Continue(device, p))
      <3>1. PICK m, i, k, h, o : /\ m = Continue(device, p)
                                 /\ i = (device.intact /\ ~p.first /\ p.kind = device.kind)
                                 /\ k = device.kind /\ h = device.missing - 1 /\ o = device.own
        OBVIOUS
      <3>2. m = Partial(k, h, o, i)
        BY <3>1 DEF Continue
      <3>3. i \in BOOLEAN /\ h \in Nat /\ o \in BOOLEAN
        BY <1>10, <2>1, <3>1, SMT
      <3>4. /\ m.missing = h /\ m.own = o /\ m.intact = i
            /\ m.missing > 0 => m # Idle
        BY <3>2, <3>3, PartialOf
      <3>5. h = Lacking - 1
        BY <2>1, <3>1 DEF Lacking
      <3>6. m.intact => device.intact /\ ~p.first
        BY <3>1, <3>4
      <3>7. QED
        BY <2>1, <3>1, <3>3, <3>4, <3>5, <3>6
    <2>2. CASE device = Idle /\ p.first /\ Assemble(Begin(p))
      <3>1. PICK m, i, k, h, o : /\ m = Begin(p) /\ i = TRUE /\ k = p.kind
                                 /\ h = Length[p.kind] - 1 /\ o = p.own
        OBVIOUS
      <3>2. m = Partial(k, h, o, i) /\ i \in BOOLEAN /\ o \in BOOLEAN
        BY <1>6, <3>1 DEF Begin
      <3>3. h \in Nat
        BY <1>6, <2>2, <3>1, SMT
      <3>4. /\ m.missing = h /\ m.own = o /\ m.intact = i
            /\ m.missing > 0 => m # Idle
        BY <3>2, <3>3, PartialOf
      <3>5. h = Lacking - 1
        BY <1>1, <1>8, <2>2, <3>1 DEF Lacking
      <3>6. QED
        BY <2>2, <3>1, <3>2, <3>4, <3>5
    <2>3. CASE device = Idle /\ ~p.first
      BY <1>4, <1>8, <2>3
    <2>4. QED
      BY <1>3, <2>1, <2>2, <2>3
  <1>12. PICK m : /\ Assemble(m) /\ m.own \in BOOLEAN /\ m.intact \in BOOLEAN /\ m.missing = Lacking - 1
                  /\ m.missing > 0 => m # Idle
                  /\ m.intact => (device # Idle => device.intact /\ ~p.first)
    BY <1>11
  <1>13. Lacking \in Nat \ {0}
    <2>1. CASE device # Idle
      <3>1. device.missing \in Nat \ {0}
        BY <1>10, <2>1, SMT
      <3>2. QED
        BY <2>1, <3>1 DEF Lacking
    <2>2. CASE device = Idle
      BY <1>1, <1>4, <1>6, <1>8, <2>2 DEF Lacking
    <2>3. QED
      BY <2>1, <2>2
  <1>14. PICK k : k = Lacking
    OBVIOUS
  <1>15. CASE k = 1
    <2>1. m.missing = 0
      BY <1>12, <1>14, <1>15, SMT
    <2>2. Underway
      <3>1. ~(n < k)
        BY <1>8, <1>15, SMT
      <3>2. QED
        BY <1>4, <1>7, <1>14, <3>1
    <2>3. m.intact = FALSE
      <3>1. \A i \in 1..n : i <= k => i = 1
        BY <1>8, <1>15, SMT
      <3>2. (device # Idle /\ ~device.intact) \/ (device # Idle /\ p.first)
        BY <1>4, <1>7, <1>8, <1>14, <2>2, <3>1
      <3>3. QED
        BY <1>12, <3>2
    <2>4. device' = Idle /\ fromDevice' = fromDevice \o PacketsOf(AnswerTo(m), m.own)
      BY <1>12, <2>1 DEF Assemble
    <2>5. NoFirst(toDevice')
      <3>1. \A i \in 1..n - 1 : i + 1 > k
        BY <1>8, <1>15, SMT
      <3>2. QED
        BY <1>4, <1>7, <1>8, <1>14, <3>1 DEF NoFirst
    <2>6. \E c, d \in Places : Orderly(e, b, c, d)'
      BY <1>1, <1>2, <1>3, <1>4, <1>6, <1>12, <2>2, <2>3, <2>4, <2>5, Fails
    <2>7. QED
      BY <1>6, <2>6
  <1>16. CASE k # 1
    <2>1. m.missing > 0 /\ m.missing # 0 /\ m.missing = k - 1 /\ k \in Nat
      BY <1>12, <1>13, <1>14, <1>16, SMT
    <2>2. device' = m /\ m # Idle /\ fromDevice' = <<>>
      BY <1>4, <1>12, <2>1 DEF Assemble
    <2>3. Lacking' = k - 1
      BY <2>1, <2>2 DEF Lacking
    <2>4. \A i \in 1..n - 1 : i > k - 1 => ~toDevice'[i].first
      <3>1. \A i \in 1..n - 1 : i > k - 1 => i + 1 > k
        BY <1>8, <2>1, SMT
      <3>2. QED
        BY <1>4, <1>7, <1>8, <1>14, <3>1
    <2>5. Underway => \/ ~m.intact
                      \/ \E i \in 1..n - 1 : toDevice'[i].first /\ i <= k - 1
      <3> SUFFICES ASSUME Underway, m.intact
                   PROVE  \E i \in 1..n - 1 : toDevice'[i].first /\ i <= k - 1
        BY <1>12
      <3>1. PICK i \in 1..n : q[i].first /\ i <= k /\ (i = 1 => device # Idle)
        BY <1>4, <1>7, <1>12, <1>14
      <3>2. i # 1
        BY <1>8, <1>12, <3>1
      <3>3. i - 1 \in 1..n - 1 /\ (i - 1) + 1 = i /\ i - 1 <= k - 1
        BY <1>8, <2>1, <3>1, <3>2, SMT
      <3>4. toDevice'[i - 1] = q[i]
        BY <1>8, <3>3
      <3>5. QED
        BY <3>1, <3>3, <3>4
    <2>6. ~Underway => n - 1 < k - 1
      <3>1. ~Underway => n < k
        BY <1>4, <1>7, <1>14
      <3>2. QED
        BY <1>8, <2>1, <3>1, SMT
    <2>7. Leads(e, toDevice', b, FALSE)
      BY <1>1, <1>6
    <2>8. CutShort(e, b)'
      <3>1. IF Underway'
            THEN \/ device' # Idle /\ ~device'.intact
                 \/ \E i \in 1..Len(toDevice') :
                       toDevice'[i].first /\ i <= Lacking' /\ (i = 1 => device' # Idle)
            ELSE Len(toDevice') < Lacking'
        BY <1>8, <1>9, <2>2, <2>3, <2>5, <2>6
      <3>2. QED
        BY <1>4, <1>8, <1>9, <2>2, <2>3, <2>4, <2>7, <3>1 DEF CutShort
    <2>9. QED
      BY <1>6, <2>8
  <1>17. QED
    BY <1>15, <1>16

-----------------------------------------------------------------------------
(* The host reads.                                                           *)
LEMMA SamePhase ==
    ASSUME phase' = phase, legacy' = legacy, unwritten' = unwritten, faults' = faults
    PROVE  /\ (Mid' <=> Mid) /\ (ReadPhase' <=> ReadPhase) /\ (Later' <=> Later)
           /\ (Underway' <=> Underway)
           /\ Wanted' = Wanted /\ Older' = Older /\ (Dialogue' <=> Dialogue)
  <1>1. (Mid' <=> Mid) /\ (ReadPhase' <=> ReadPhase) /\ (Later' <=> Later)
    BY DEF Mid, ReadPhase, Later
  <1>2. Wanted' = Wanted /\ Older' = Older
    BY DEF Wanted, Older
  <1>3. QED
    BY <1>1, <1>2 DEF Underway, Dialogue

(* m is the whole message so far, p in it, that the host has now.            *)
Has(m, p, g) ==
    /\ m.kind \in Replies /\ m.own \in BOOLEAN /\ m.intact = TRUE
    /\ m.missing = g.left /\ m.kind = g.kind
    /\ m.missing > 0 => m # Idle
    /\ \/ reading # Idle /\ ~p.first /\ m.kind = reading.kind /\ m.own = reading.own
       \/ reading = Idle /\ p.first /\ m.kind = p.kind /\ m.own = p.own

LEMMA HostHas ==
    ASSUME Types, Writing, ReadFirst \/ ReadRest,
           NEW a, NEW b, NEW c \in Places, NEW d \in Places, Aligned(a, b, c, d),
           NEW p, p = Head(fromDevice), NEW g, g = After(c, p)
    PROVE  /\ ReadPhase /\ fromDevice # <<>> /\ fromDevice' = Tail(fromDevice)
           /\ legacy' = legacy /\ toDevice' = toDevice /\ device' = device /\ faults' = faults
           /\ unwritten = <<>> /\ ~Mid
           /\ p.kind \in Replies /\ p.first \in BOOLEAN
           /\ Leads(g, fromDevice', d, TRUE) /\ g \in Places /\ (~p.first => c.left > 0)
           /\ \/ \E m : Has(m, p, g) /\ Collect(m)
              \/ /\ reading = Idle /\ ~p.first /\ phase' = "failed" /\ unwritten' = unwritten
                 /\ reading' = reading
  <1>1. /\ ReadPhase /\ fromDevice # <<>> /\ fromDevice' = Tail(fromDevice)
        /\ UNCHANGED <<legacy, toDevice, device, faults, debt>>
        /\ \/ reading = Idle /\ p.first /\ Collect(Begin(p))
           \/ reading = Idle /\ ~p.first /\ Spoil /\ UNCHANGED <<unwritten, reading, result>>
           \/ reading # Idle /\ Collect(Continue(reading, p))
    BY Zenon DEF ReadFirst, ReadRest
  <1>2. /\ p.kind \in Replies /\ p.first \in BOOLEAN /\ p.own \in BOOLEAN
        /\ Leads(g, fromDevice', d, TRUE) /\ g \in Places /\ g.kind = p.kind
        /\ p.first => /\ c.left = 0
                      /\ g.left = Length[p.kind] - 1 /\ Length[p.kind] \in Nat \ {0}
        /\ ~p.first => c.left > 0 /\ p.kind = c.kind /\ g.left = c.left - 1
    <2>1. PICK q, w : q = fromDevice /\ w = TRUE
      OBVIOUS
    <2>2. /\ q \in Seq(Packets(Replies)) /\ q # <<>> /\ w \in BOOLEAN /\ Leads(c, q, d, w) /\ p = Head(q)
          /\ Replies \subseteq Kinds
      BY <1>1, <2>1, KindsOf DEF Types, Aligned
    <2>3. /\ p.kind \in Replies /\ p.first \in BOOLEAN /\ p.own \in BOOLEAN
          /\ Leads(g, Tail(q), d, w) /\ g \in Places /\ g.kind = p.kind
          /\ p.first => /\ w => c.left = 0
                        /\ g.left = Length[p.kind] - 1 /\ Length[p.kind] \in Nat \ {0}
          /\ ~p.first => c.left > 0 /\ p.kind = c.kind /\ g.left = c.left - 1
      BY <2>2, FrontOf
    <2>4. QED
      BY <1>1, <2>1, <2>3
  <1>3. unwritten = <<>> /\ ~Mid
    BY <1>1 DEF Writing, ReadPhase, Mid
  <1>4. /\ reading.missing \in Nat /\ reading.own \in BOOLEAN
        /\ reading # Idle => reading.missing > 0 /\ reading.kind \in Replies
    BY PartialFields DEF Types
  <1>5. reading # Idle => reading.intact /\ reading.missing = c.left /\ reading.kind = c.kind
    BY DEF Aligned
  <1>6. g.left \in Nat
    BY <1>2, PlaceFields
  <1>7. CASE reading # Idle /\ Collect(Continue(reading, p))
    <2>1. ~p.first
      BY <1>2, <1>4, <1>5, <1>7, SMT
    <2>2. PICK m, i : m = Continue(reading, p) /\ i = (reading.intact /\ ~p.first /\ p.kind = reading.kind)
      OBVIOUS
    <2>3. i = TRUE
      BY <1>2, <1>5, <1>7, <2>1, <2>2
    <2>4. m = Partial(reading.kind, g.left, reading.own, i) /\ i \in BOOLEAN
      BY <1>2, <1>5, <1>7, <2>1, <2>2, <2>3 DEF Continue
    <2>5. /\ m.kind = reading.kind /\ m.missing = g.left /\ m.own = reading.own /\ m.intact = i
          /\ m.missing > 0 => m # Idle
      BY <1>4, <1>6, <2>4, PartialOf
    <2>6. Has(m, p, g)
      BY <1>2, <1>4, <1>5, <1>7, <2>1, <2>3, <2>5 DEF Has
    <2>7. QED
      BY <1>1, <1>2, <1>3, <1>7, <2>2, <2>6
  <1>8. CASE reading = Idle /\ p.first /\ Collect(Begin(p))
    <2>1. PICK m, i, k, n, o : m = Begin(p) /\ i = TRUE /\ k = p.kind /\ n = g.left /\ o = p.own
      OBVIOUS
    <2>2. m = Partial(k, n, o, i) /\ i \in BOOLEAN /\ n \in Nat /\ o \in BOOLEAN
      BY <1>2, <1>6, <1>8, <2>1 DEF Begin
    <2>3. /\ m.kind = k /\ m.missing = n /\ m.own = o /\ m.intact = i
          /\ m.missing > 0 => m # Idle
      BY <2>2, PartialOf
    <2>4. Has(m, p, g)
      BY <1>2, <1>8, <2>1, <2>3 DEF Has
    <2>5. QED
      BY <1>1, <1>2, <1>3, <1>8, <2>1, <2>4
  <1>9. CASE reading = Idle /\ ~p.first /\ Spoil /\ UNCHANGED <<unwritten, reading, result>>
    <2>1. phase' = "failed"
      BY <1>9 DEF Spoil
    <2>2. QED
      BY <1>1, <1>2, <1>3, <1>9, <2>1
  <1>10. QED
    BY <1>1, <1>7, <1>8, <1>9

(* The host has begun or continued a message, or has done with one.          *)
LEMMA HasOrHandles ==
    ASSUME NEW m, NEW p, NEW g \in Places, Has(m, p, g), Collect(m)
    PROVE  /\ m.missing \in Nat /\ g.left = m.missing /\ (m.missing = 0 \/ m.missing > 0)
           /\ m.missing > 0 => /\ reading' = m /\ m # Idle
                               /\ phase' = phase /\ unwritten' = unwritten /\ result' = result
           /\ m.missing = 0 => reading' = Idle /\ Handle(m)
           /\ reading' # Idle => reading'.intact /\ reading'.missing = g.left /\ reading'.kind = g.kind
           /\ reading' = Idle => g.left = 0
  <1>1. PICK n : n = m.missing
    OBVIOUS
  <1>2. n \in Nat /\ g.left = n
    BY <1>1, PlaceFields DEF Has
  <1>3. n = 0 \/ (n > 0 /\ n # 0)
    BY <1>2, SMT
  <1>4. n = 0 => reading' = Idle /\ Handle(m)
    BY <1>1 DEF Collect
  <1>5. n > 0 => /\ reading' = m /\ m # Idle
                 /\ phase' = phase /\ unwritten' = unwritten /\ result' = result
    <2>1. n > 0 => n # 0
      BY <1>2, SMT
    <2>2. QED
      BY <1>1, <2>1 DEF Collect, Has
  <1>6. m.intact /\ m.missing = g.left /\ m.kind = g.kind
    BY DEF Has
  <1>7. reading' # Idle => reading'.intact /\ reading'.missing = g.left /\ reading'.kind = g.kind
    BY <1>1, <1>3, <1>4, <1>5, <1>6
  <1>8. reading' = Idle => g.left = 0
    BY <1>1, <1>2, <1>3, <1>5
  <1>9. QED
    BY <1>1, <1>2, <1>3, <1>4, <1>5, <1>7, <1>8

(* A whole request, as the run begins to write it.                           *)
LEMMA OwnRequest ==
    ASSUME NEW kind \in Requests, NEW own, own = TRUE
    PROVE  LET u == PacketsOf(kind, own) IN
           /\ u # <<>> /\ Head(u).first
           /\ \A i \in 1..Len(u) : u[i].own /\ u[i].kind = kind
  <1>1. PICK u, n : u = PacketsOf(kind, own) /\ n = Length[kind]
    OBVIOUS
  <1>2. u # <<>> /\ Head(u).first
    <2>1. Whole(u, kind)
      BY <1>1, WholeMessage
    <2>2. QED
      BY <2>1 DEF Whole
  <1>3. kind \in Kinds /\ own \in BOOLEAN
    BY KindsOf
  <1>4. Len(u) = n /\ \A i \in 1..n : u[i] = [kind |-> kind, first |-> i = 1, own |-> own]
    <2>1. /\ Len(PacketsOf(kind, own)) = Length[kind]
          /\ \A i \in 1..Length[kind] :
                PacketsOf(kind, own)[i] = [kind |-> kind, first |-> i = 1, own |-> own]
      BY <1>3, MessagePackets
    <2>2. QED
      BY <1>1, <2>1
  <1>5. \A i \in 1..n : u[i].own /\ u[i].kind = kind
    <2>1. TAKE i \in 1..n
    <2>2. u[i] = [kind |-> kind, first |-> i = 1, own |-> own]
      BY <1>4
    <2>3. QED
      BY <2>2
  <1>6. QED
    BY <1>1, <1>2, <1>4, <1>5

LEMMA Asking ==
    ASSUME NEW kind \in Requests, unwritten = PacketsOf(kind, TRUE)
    PROVE  /\ ~Mid /\ unwritten # <<>>
           /\ \A i \in 1..Len(unwritten) : unwritten[i].own /\ unwritten[i].kind = kind
  <1>1. PICK own : own = TRUE
    OBVIOUS
  <1>2. PICK u : u = PacketsOf(kind, own)
    OBVIOUS
  <1>3. u # <<>> /\ Head(u).first /\ \A i \in 1..Len(u) : u[i].own /\ u[i].kind = kind
    BY <1>1, <1>2, OwnRequest
  <1>4. unwritten = u
    BY <1>1, <1>2
  <1>5. QED
    BY <1>3, <1>4 DEF Mid

LEMMA Asks ==
    ASSUME NEW kind \in Requests, unwritten' = PacketsOf(kind, TRUE)
    PROVE  /\ ~Mid' /\ unwritten' # <<>>
           /\ \A i \in 1..Len(unwritten') : unwritten'[i].own /\ unwritten'[i].kind = kind
  <1>1. PICK own : own = TRUE
    OBVIOUS
  <1>2. PICK u : u = PacketsOf(kind, own)
    OBVIOUS
  <1>3. u # <<>> /\ Head(u).first /\ \A i \in 1..Len(u) : u[i].own /\ u[i].kind = kind
    BY <1>1, <1>2, OwnRequest
  <1>4. unwritten' = u
    BY <1>1, <1>2
  <1>5. QED
    BY <1>3, <1>4 DEF Mid

(* The host has the answer it waited for, and there is nothing else.         *)
LEMMA HandlesAnswer ==
    ASSUME Types, ReadPhase, Dialogue, unwritten = <<>>, legacy' = legacy, faults' = faults,
           NEW m, Handle(m), m.kind = Answer[Wanted], m.own, m.intact, reading' = Idle,
           toDevice' = <<>>, fromDevice' = <<>>, device' = Idle, NEW g, g.left = 0
    PROVE  Dialogue' /\ ~Mid' /\ (Preceded(g) \/ Done)'
  <1>1. Answer' = Answer
    BY DEF Answer
  <1>2. \/ phase = "status" /\ Wanted = "initialize"
        \/ phase = "peerKey" /\ Wanted = "get_public_key" /\ ~legacy
        \/ phase = "secret" /\ Wanted = IF legacy THEN "sign_identity" ELSE "get_ecdh_session"
    <2>1. (phase = "peerKey" => ~legacy) /\ phase \in {"status", "peerKey", "secret"}
      BY DEF ReadPhase, Dialogue
    <2>2. QED
      BY <2>1, WantedIs
  <1>3. \/ phase = "status" /\ m.kind = "features"
        \/ phase = "peerKey" /\ m.kind = "public_key" /\ ~legacy
        \/ phase = "secret" /\ m.kind = IF legacy THEN "signed_identity" ELSE "ecdh_session"
    BY <1>2, AnswerIs
  <1>4. ~Refused(m) /\ (phase # "status" => ~Empty(m))
    BY <1>3, SMT DEF Refused, Empty
  <1>5. \/ /\ phase = "status" /\ phase' = "request"
           /\ unwritten' = PacketsOf(IF legacy THEN "sign_identity" ELSE "get_public_key", TRUE)
        \/ /\ phase = "peerKey" /\ phase' = "ecdh"
           /\ unwritten' = PacketsOf("get_ecdh_session", TRUE)
        \/ /\ phase = "secret" /\ phase' = "returned" /\ result' = m
           /\ unwritten' = unwritten
    BY <1>3, <1>4 DEF Handle
  <1>6. ASSUME phase' \in {"request", "ecdh"}, phase' = "ecdh" => ~legacy', unwritten' = PacketsOf(Wanted', TRUE)
        PROVE  Dialogue' /\ ~Mid' /\ Preceded(g)'
    <2>1. Wanted' \in Requests
      <3>1. \/ phase' = "request" /\ Wanted' = IF legacy' THEN "sign_identity" ELSE "get_public_key"
            \/ phase' = "ecdh" /\ Wanted' = "get_ecdh_session"
        BY <1>6 DEF Wanted
      <3>2. QED
        BY <3>1, SMT DEF Requests
    <2>2. /\ ~Mid'
          /\ \A i \in 1..Len(unwritten') : unwritten'[i].own /\ unwritten'[i].kind = Wanted'
      BY <1>6, <2>1, Asks
    <2>3. Dialogue'
      BY <1>6, <2>2 DEF Dialogue
    <2>4. Preceded(g)'
      BY <1>6, <2>2, EmptyQueue DEF Preceded, Later, OlderDevice
    <2>5. QED
      BY <2>2, <2>3, <2>4
  <1>7. CASE phase = "status"
    <2>1. /\ phase' = "request"
          /\ unwritten' = PacketsOf(IF legacy THEN "sign_identity" ELSE "get_public_key", TRUE)
      BY <1>5, <1>7
    <2>2. Wanted' = IF legacy THEN "sign_identity" ELSE "get_public_key"
      BY <2>1 DEF Wanted
    <2>3. unwritten' = PacketsOf(Wanted', TRUE)
      BY <2>1, <2>2
    <2>4. QED
      BY <1>6, <2>1, <2>3
  <1>8. CASE phase = "peerKey"
    <2>1. phase' = "ecdh" /\ unwritten' = PacketsOf("get_ecdh_session", TRUE) /\ ~legacy'
      BY <1>3, <1>5, <1>8
    <2>2. Wanted' = "get_ecdh_session"
      BY <2>1 DEF Wanted
    <2>3. unwritten' = PacketsOf(Wanted', TRUE)
      BY <2>1, <2>2
    <2>4. QED
      BY <1>6, <2>1, <2>3
  <1>9. CASE phase = "secret"
    <2>1. phase' = "returned" /\ result' = m /\ unwritten' = <<>>
      BY <1>5, <1>9
    <2>2. Wanted' = IF legacy THEN "sign_identity" ELSE "get_ecdh_session"
      BY <2>1 DEF Wanted
    <2>3. Wanted' = Wanted
      BY <1>2, <1>9, <2>2
    <2>4. Done'
      BY <1>1, <2>1, <2>3 DEF Done
    <2>5. Dialogue' /\ ~Mid'
      <3>1. Len(unwritten') = 0 /\ \A i \in 1..0 : FALSE
        BY <2>1, SMT
      <3>2. QED
        BY <2>1, <3>1 DEF Dialogue, Mid
    <2>6. QED
      BY <2>4, <2>5
  <1>10. QED
    BY <1>2, <1>7, <1>8, <1>9

(* A status that answers an earlier run: no bytes, and passed over.          *)
LEMMA HandlesOlder ==
    ASSUME faults \in {0, 1}, ReadPhase, faults = 0 \/ Later, NEW m, m.kind \in Replies, m.kind \in Older,
           Handle(m)
    PROVE  phase' = phase /\ unwritten' = unwritten
  <1>1. m.kind = "features" /\ faults # 0
    BY OlderIs
  <1>2. phase # "status"
    BY <1>1 DEF Later
  <1>3. ~Refused(m) /\ Empty(m)
    BY <1>1, SMT DEF Refused, Empty
  <1>4. QED
    BY <1>2, <1>3 DEF Handle

LEMMA HostReadsFollowed ==
    ASSUME Types, ReadPhase, faults \in {0, 1}, Dialogue, fromDevice # <<>>, fromDevice' = Tail(fromDevice),
           legacy' = legacy, toDevice' = toDevice, device' = device, faults' = faults,
           unwritten = <<>>, ~Mid,
           NEW a \in Places, NEW b \in Places, NEW d \in Places, Leads(a, toDevice, b, TRUE),
           NEW p, p = Head(fromDevice), NEW g \in Places, Leads(g, fromDevice', d, TRUE), Types',
           NEW m, Has(m, p, g), Collect(m), NEW c, Followed(a, c)
    PROVE  Dialogue' /\ ~Mid' /\ (Followed(a, g) \/ Preceded(g) \/ Done)'
  <1>1. PICK q : q = fromDevice
    OBVIOUS
  <1>2. q \in Seq(Packets(Replies)) /\ q # <<>> /\ fromDevice' = Tail(q) /\ p = Head(q)
    BY <1>1 DEF Types
  <1>3. /\ \A S : AllIn(q, S) => AllIn(fromDevice', S) /\ (p.first => p.kind \in S)
        /\ NoFirst(q) => NoFirst(fromDevice') /\ ~p.first
    BY <1>2, AllTail
  <1>4. /\ m.missing = 0 \/ m.missing > 0
        /\ m.missing > 0 => /\ reading' = m /\ m # Idle
                            /\ phase' = phase /\ unwritten' = unwritten
        /\ m.missing = 0 => reading' = Idle /\ Handle(m)
        /\ reading' = Idle => g.left = 0
    BY HasOrHandles
  <1>5. /\ m.kind \in Replies /\ m.own \in BOOLEAN /\ m.intact
        /\ \/ reading # Idle /\ ~p.first /\ m.kind = reading.kind /\ m.own = reading.own
           \/ reading = Idle /\ p.first /\ m.kind = p.kind /\ m.own = p.own
    BY DEF Has
  <1>6. Underway /\ (faults = 0 \/ Later) /\ Latest(a) /\ Answer' = Answer
    BY DEF Followed, Answer
  <1>7. ASSUME phase' = phase, unwritten' = unwritten, Latest(a)'
        PROVE  Dialogue' /\ ~Mid' /\ Followed(a, g)'
    <2>1. (Mid' <=> Mid) /\ (Later' <=> Later) /\ (Underway' <=> Underway) /\ (Dialogue' <=> Dialogue)
      BY <1>7, SamePhase
    <2>2. QED
      BY <1>4, <1>6, <1>7, <2>1 DEF Followed
  (* One of those before the last.                                           *)
  <1>8. ASSUME m.kind \in Older, \/ InQueue(Wanted) /\ AllIn(fromDevice', Older)
                                 \/ InDevice(Wanted) /\ AllIn(fromDevice', Older)
                                 \/ /\ NoFirst(toDevice) /\ device = Idle /\ a.left = 0
                                    /\ LastIs(fromDevice', Older, Answer[Wanted])
        PROVE  Dialogue' /\ ~Mid' /\ Followed(a, g)'
    <2>1. phase' = phase /\ unwritten' = unwritten
      BY <1>4, <1>5, <1>6, <1>8, HandlesOlder
    <2>2. Wanted' = Wanted /\ Older' = Older
      BY <2>1, SamePhase
    <2>3. OlderReading'
      BY <1>4, <1>8, <2>2 DEF OlderReading
    <2>4. CASE InQueue(Wanted) /\ AllIn(fromDevice', Older)
      <3>1. InQueue(Wanted)'
        BY <2>2, <2>3, <2>4 DEF InQueue, OlderDevice
      <3>2. QED
        BY <1>7, <2>1, <3>1 DEF Latest
    <2>5. CASE InDevice(Wanted) /\ AllIn(fromDevice', Older)
      <3>1. InDevice(Wanted)'
        BY <2>2, <2>3, <2>5 DEF InDevice
      <3>2. QED
        BY <1>7, <2>1, <3>1 DEF Latest
    <2>6. CASE /\ NoFirst(toDevice) /\ device = Idle /\ a.left = 0
               /\ LastIs(fromDevice', Older, Answer[Wanted])
      <3>1. InReply(a, Answer[Wanted])'
        BY <1>6, <2>2, <2>3, <2>6 DEF InReply
      <3>2. QED
        BY <1>7, <2>1, <3>1 DEF Latest
    <2>7. QED
      BY <1>8, <2>4, <2>5, <2>6
  (* The last one.                                                           *)
  <1>9. ASSUME m.kind = Answer[Wanted], m.own, NoFirst(fromDevice'),
               NoFirst(toDevice), device = Idle, a.left = 0
        PROVE  Dialogue' /\ ~Mid' /\ (Followed(a, g) \/ Preceded(g) \/ Done)'
    <2>1. CASE m.missing > 0
      <3>1. phase' = phase /\ unwritten' = unwritten /\ reading' = m /\ m # Idle
        BY <1>4, <2>1
      <3>2. Wanted' = Wanted
        BY <3>1, SamePhase
      <3>3. InReading(a, Answer[Wanted])'
        BY <1>6, <1>9, <3>1, <3>2 DEF InReading
      <3>4. QED
        BY <1>7, <3>1, <3>3 DEF Latest
    <2>2. CASE m.missing = 0
      <3>1. reading' = Idle /\ Handle(m) /\ g.left = 0
        BY <1>4, <2>2
      <3>2. toDevice' = <<>>
        BY <1>9, NothingSent
      <3>3. fromDevice' = <<>>
        <4>1. PICK r : r = fromDevice'
          OBVIOUS
        <4>2. r \in Seq(Packets(Replies)) /\ Leads(g, r, d, TRUE) /\ NoFirst(r)
          BY <1>9, <4>1 DEF Types
        <4>3. QED
          BY <3>1, <4>1, <4>2, NoneLeft
      <3>4. QED
        BY <1>5, <1>9, <3>1, <3>2, <3>3, HandlesAnswer
    <2>3. QED
      BY <1>4, <2>1, <2>2
  <1>10. CASE InQueue(Wanted)
    <2>1. AllIn(q, Older) /\ OlderReading
      BY <1>1, <1>10 DEF InQueue
    <2>2. AllIn(fromDevice', Older) /\ m.kind \in Older
      BY <1>3, <1>5, <2>1 DEF OlderReading
    <2>3. QED
      BY <1>8, <1>10, <2>2
  <1>11. CASE InDevice(Wanted)
    <2>1. AllIn(q, Older) /\ OlderReading
      BY <1>1, <1>11 DEF InDevice
    <2>2. AllIn(fromDevice', Older) /\ m.kind \in Older
      BY <1>3, <1>5, <2>1 DEF OlderReading
    <2>3. QED
      BY <1>8, <1>11, <2>2
  <1>12. CASE InReply(a, Answer[Wanted])
    <2>1. /\ LastIs(q, Older, Answer[Wanted]) /\ OlderReading
          /\ NoFirst(toDevice) /\ device = Idle /\ a.left = 0
      BY <1>1, <1>12 DEF InReply
    <2>2. IF p.first /\ NoFirst(fromDevice')
          THEN p.kind = Answer[Wanted] /\ p.own
          ELSE LastIs(fromDevice', Older, Answer[Wanted]) /\ (p.first => p.kind \in Older)
      BY <1>2, <2>1, LastTail
    <2>3. CASE p.first /\ NoFirst(fromDevice')
      <3>1. m.kind = Answer[Wanted] /\ m.own
        BY <1>5, <2>2, <2>3
      <3>2. QED
        BY <1>9, <2>1, <2>3, <3>1
    <2>4. CASE ~(p.first /\ NoFirst(fromDevice'))
      <3>1. m.kind \in Older
        BY <1>5, <2>1, <2>2, <2>4 DEF OlderReading
      <3>2. QED
        BY <1>8, <2>1, <2>2, <2>4, <3>1
    <2>5. QED
      BY <2>3, <2>4
  <1>13. CASE InReading(a, Answer[Wanted])
    <2>1. /\ NoFirst(toDevice) /\ device = Idle /\ a.left = 0 /\ NoFirst(q)
          /\ reading # Idle /\ reading.kind = Answer[Wanted] /\ reading.own
      BY <1>1, <1>13 DEF InReading
    <2>2. NoFirst(fromDevice') /\ m.kind = Answer[Wanted] /\ m.own
      BY <1>3, <1>5, <2>1
    <2>3. QED
      BY <1>9, <2>1, <2>2
  <1>14. QED
    BY <1>6, <1>10, <1>11, <1>12, <1>13 DEF Latest

(* The end of what an earlier run asked for, up to the status.               *)
LEMMA HostReadsTrailing ==
    ASSUME Types, ReadPhase, fromDevice # <<>>, fromDevice' = Tail(fromDevice),
           legacy' = legacy, toDevice' = toDevice, device' = device, faults' = faults,
           unwritten = <<>>,
           NEW p, p = Head(fromDevice), NEW g \in Places, Trailing,
           \/ \E m : Has(m, p, g) /\ Collect(m)
           \/ reading = Idle /\ phase' = "failed" /\ unwritten' = unwritten /\ reading' = reading
    PROVE  Dialogue' /\ ~Mid' /\ (Trailing \/ Preceded(g))'
  <1>1. PICK q : q = fromDevice
    OBVIOUS
  <1>2. q \in Seq(Packets(Replies)) /\ q # <<>> /\ fromDevice' = Tail(q)
    BY <1>1 DEF Types
  <1>3. /\ faults = 1 /\ phase = "status"
        /\ AllIn(fromDevice', Early) /\ RestIn(fromDevice', Early)
        /\ RestIn(toDevice, Early) /\ (device # Idle => AllIn(toDevice, Early))
        /\ AllIn(toDevice, Early) /\ (device # Idle => device.kind \in Early)
    <2>1. AllIn(fromDevice', Early)
      BY <1>1, <1>2, AllTail DEF Trailing
    <2>2. QED
      BY <2>1, NoneIn DEF Trailing, ReadPhase
  <1>4. Len(<<>>) = 0 /\ \A i \in 1..0 : FALSE
    BY SMT
  <1>5. ASSUME phase' \in {"status", "failed"}, unwritten' = <<>>
        PROVE  Dialogue' /\ ~Mid' /\ Trailing'
    <2>1. Dialogue' /\ ~Mid'
      BY <1>4, <1>5 DEF Dialogue, Mid
    <2>2. Trailing'
      BY <1>3, <1>5 DEF Trailing
    <2>3. QED
      BY <2>1, <2>2
  <1>6. ASSUME NEW m, Has(m, p, g), Collect(m)
        PROVE  Dialogue' /\ ~Mid' /\ (Trailing \/ Preceded(g))'
    <2>1. /\ m.missing = 0 \/ m.missing > 0
          /\ m.missing > 0 => phase' = phase /\ unwritten' = unwritten
          /\ m.missing = 0 => reading' = Idle /\ Handle(m)
          /\ reading' = Idle => g.left = 0
      BY <1>6, HasOrHandles
    <2>2. CASE m.missing > 0
      BY <1>3, <1>5, <2>1, <2>2
    <2>3. CASE m.missing = 0
      <3>1. \/ phase' = "failed" /\ unwritten' = <<>>
            \/ /\ phase' = "request"
               /\ unwritten' = PacketsOf(IF legacy THEN "sign_identity" ELSE "get_public_key", TRUE)
        BY <1>3, <2>1, <2>3 DEF Handle, Spoil
      <3>2. CASE phase' = "failed" /\ unwritten' = <<>>
        BY <1>5, <3>2
      <3>3. CASE /\ phase' = "request"
                 /\ unwritten' = PacketsOf(IF legacy THEN "sign_identity" ELSE "get_public_key", TRUE)
        <4>1. Wanted' = IF legacy THEN "sign_identity" ELSE "get_public_key"
          BY <3>3 DEF Wanted
        <4>2. Wanted' \in Requests /\ unwritten' = PacketsOf(Wanted', TRUE)
          <5>1. Wanted' \in Requests
            BY <4>1, SMT DEF Requests
          <5>2. QED
            BY <3>3, <4>1, <5>1
        <4>3. /\ ~Mid'
              /\ \A i \in 1..Len(unwritten') : unwritten'[i].own /\ unwritten'[i].kind = Wanted'
          BY <4>2, Asks
        <4>4. Dialogue'
          BY <3>3, <4>3 DEF Dialogue
        <4>5. Older' = Early
          BY <1>3 DEF Older, Early
        <4>6. Preceded(g)'
          BY <1>3, <2>1, <2>3, <3>3, <4>3, <4>5 DEF Preceded, Later, OlderDevice
        <4>7. QED
          BY <4>3, <4>4, <4>6
      <3>4. QED
        BY <3>1, <3>2, <3>3
    <2>4. QED
      BY <2>1, <2>2, <2>3
  <1>7. CASE reading = Idle /\ phase' = "failed" /\ unwritten' = unwritten /\ reading' = reading
    BY <1>5, <1>7
  <1>8. QED
    BY <1>6, <1>7

LEMMA HostReadsInOrder ==
    ASSUME IInv, IInv', ReadFirst \/ ReadRest, faults \in {0, 1}, Dialogue,
           NEW a \in Places, NEW b \in Places, NEW c \in Places, NEW d \in Places,
           Orderly(a, b, c, d)
    PROVE  Dialogue' /\ \E g \in Places : Orderly(a, b, g, d)'
  <1>1. PICK p, g : p = Head(fromDevice) /\ g = After(c, p)
    OBVIOUS
  <1>2. Types /\ Types' /\ Writing
    BY DEF IInv
  <1>3. Aligned(a, b, c, d) /\ (Followed(a, c) \/ Preceded(c) \/ Trailing \/ Done)
    BY DEF Orderly
  <1>4. /\ ReadPhase /\ fromDevice # <<>> /\ fromDevice' = Tail(fromDevice)
        /\ legacy' = legacy /\ toDevice' = toDevice /\ device' = device /\ faults' = faults
        /\ unwritten = <<>> /\ ~Mid
        /\ Leads(g, fromDevice', d, TRUE) /\ g \in Places /\ (~p.first => c.left > 0)
        /\ \/ \E m : Has(m, p, g) /\ Collect(m)
           \/ /\ reading = Idle /\ ~p.first /\ phase' = "failed" /\ unwritten' = unwritten
              /\ reading' = reading
    BY <1>1, <1>2, <1>3, HostHas
  <1>5. Leads(a, toDevice, b, TRUE)
    BY <1>3 DEF Aligned
  <1>6. Followed(a, c) \/ Trailing
    BY <1>3, <1>4 DEF Preceded, Done, ReadPhase
  <1>7. Dialogue' /\ ~Mid' /\ (Followed(a, g) \/ Preceded(g) \/ Trailing \/ Done)'
    <2>1. CASE Trailing
      BY <1>1, <1>2, <1>4, <2>1, HostReadsTrailing
    <2>2. CASE Followed(a, c)
      <3>1. reading = Idle => p.first
        <4>1. reading = Idle => ~(c.left > 0)
          BY <2>2, SMT DEF Followed
        <4>2. QED
          BY <1>4, <4>1
      <3>2. PICK m : Has(m, p, g) /\ Collect(m)
        BY <1>4, <3>1
      <3>3. QED
        BY <1>1, <1>2, <1>4, <1>5, <2>2, <3>2, HostReadsFollowed
    <2>3. QED
      BY <1>6, <2>1, <2>2
  <1>8. Aligned(a, b, g, d)'
    <2>1. reading' # Idle => reading'.intact /\ reading'.missing = g.left /\ reading'.kind = g.kind
      BY <1>4, HasOrHandles
    <2>2. QED
      BY <1>3, <1>4, <1>7, <2>1 DEF Aligned
  <1>9. QED
    BY <1>4, <1>7, <1>8 DEF Orderly

LEMMA ReadsNotCutShort ==
    ASSUME ReadFirst \/ ReadRest, NEW a, NEW b, CutShort(a, b)
    PROVE  FALSE
  BY DEF ReadFirst, ReadRest, CutShort

-----------------------------------------------------------------------------
(* The next run.                                                             *)
LEMMA SameFirsts ==
    ASSUME NEW q, NEW r, Len(r) = Len(q),
           \A i \in 1..Len(q) : r[i].first = q[i].first /\ r[i].kind = q[i].kind, NEW S
    PROVE  /\ AllIn(q, S) => AllIn(r, S)
           /\ RestIn(q, S) => RestIn(r, S)
  BY DEF AllIn, RestIn

LEMMA StaledQueue ==
    ASSUME NEW kinds, NEW q \in Seq(Packets(kinds)), NEW r, r = Stale(q)
    PROVE  /\ Len(r) = Len(q) /\ r \in Seq(Packets(kinds))
           /\ \A i \in 1..Len(q) : r[i].first = q[i].first /\ r[i].kind = q[i].kind
  <1>1. DOMAIN q = 1..Len(q) /\ Len(q) \in Nat /\ \A i \in 1..Len(q) : q[i] \in Packets(kinds)
    BY SMT
  <1>2. r = [i \in 1..Len(q) |-> [kind |-> q[i].kind, first |-> q[i].first, own |-> FALSE]]
    BY <1>1 DEF Stale, Packet
  <1>3. \A i \in 1..Len(q) : r[i].first = q[i].first /\ r[i].kind = q[i].kind
    <2>1. TAKE i \in 1..Len(q)
    <2>2. r[i] = [kind |-> q[i].kind, first |-> q[i].first, own |-> FALSE]
      BY <1>2
    <2>3. QED
      BY <2>2
  <1>4. \A i \in 1..Len(q) : r[i] \in Packets(kinds)
    <2>1. TAKE i \in 1..Len(q)
    <2>2. r[i] = [kind |-> q[i].kind, first |-> q[i].first, own |-> FALSE]
      BY <1>2
    <2>3. q[i] \in Packets(kinds)
      BY <1>1
    <2>4. QED
      BY <2>2, <2>3, SMT DEF Packets
  <1>5. Len(r) = Len(q) /\ r \in Seq(Packets(kinds))
    BY <1>1, <1>2, <1>4, SMT
  <1>6. QED
    BY <1>3, <1>5

LEMMA Restarts ==
    ASSUME Types, Writing, StartRun
    PROVE  /\ phase \in {"returned", "failed"} /\ phase' = "initialize" /\ faults' = faults
           /\ reading = Idle /\ reading' = Idle /\ ~Mid /\ ~Mid' /\ ~Underway /\ ~Underway' /\ ~ReadPhase'
           /\ Dialogue'
           /\ (device' = Idle <=> device = Idle) /\ device'.kind = device.kind
           /\ device'.missing = device.missing /\ device'.intact = device.intact
           /\ toDevice' = Stale(toDevice) /\ fromDevice' = Stale(fromDevice)
  <1>1. /\ ~Running /\ phase' = "initialize"
        /\ unwritten' = PacketsOf("initialize", TRUE)
        /\ toDevice' = Stale(toDevice) /\ fromDevice' = Stale(fromDevice)
        /\ device' = Partial(device.kind, device.missing, FALSE, device.intact)
        /\ reading' = reading /\ faults' = faults
    BY DEF StartRun, historyVars
  <1>2. unwritten = <<>> /\ reading = Idle /\ phase \in {"returned", "failed"}
    BY <1>1 DEF Writing, Running, ReadPhase
  <1>3. ~Mid /\ ~Underway /\ ~ReadPhase'
    BY <1>1, <1>2 DEF Mid, Underway, ReadPhase
  <1>4. /\ ~Mid'
        /\ \A i \in 1..Len(unwritten') : unwritten'[i].own /\ unwritten'[i].kind = "initialize"
    BY <1>1, KindsOf, Asks
  <1>5. ~Underway' /\ Dialogue'
    <2>1. Wanted' = "initialize"
      BY <1>1 DEF Wanted
    <2>2. QED
      BY <1>1, <1>3, <1>4, <2>1 DEF Underway, Dialogue
  <1>6. /\ (device' = Idle <=> device = Idle)
        /\ device'.kind = device.kind /\ device'.missing = device.missing /\ device'.intact = device.intact
    <2>1. /\ device.missing \in Nat /\ device.intact \in BOOLEAN
          /\ device # Idle => device.missing > 0
      BY PartialFields DEF Types
    <2>2. CASE device = Idle
      BY <1>1, <2>2 DEF Idle, Partial
    <2>3. CASE device # Idle
      <3>1. PICK w : w = FALSE
        OBVIOUS
      <3>2. w \in BOOLEAN /\ device' = Partial(device.kind, device.missing, w, device.intact)
        BY <1>1, <3>1
      <3>3. QED
        BY <2>1, <2>3, <3>2, PartialOf
    <2>4. QED
      BY <2>2, <2>3
  <1>7. QED
    BY <1>1, <1>2, <1>3, <1>4, <1>5, <1>6

LEMMA StartsInOrder ==
    ASSUME IInv, IInv', StartRun, faults \in {0, 1},
           NEW a \in Places, NEW b \in Places, NEW c \in Places, NEW d \in Places,
           Orderly(a, b, c, d)
    PROVE  Dialogue' /\ Orderly(a, b, c, d)'
  <1>1. Types /\ Writing
    BY DEF IInv
  <1>2. /\ phase \in {"returned", "failed"} /\ phase' = "initialize" /\ faults' = faults
        /\ reading = Idle /\ reading' = Idle /\ ~Mid /\ ~Mid' /\ ~Underway
        /\ Dialogue'
        /\ (device' = Idle <=> device = Idle) /\ device'.kind = device.kind
        /\ device'.missing = device.missing /\ device'.intact = device.intact
        /\ toDevice' = Stale(toDevice) /\ fromDevice' = Stale(fromDevice)
    BY <1>1, Restarts
  <1>3. PICK q, r, w : q = toDevice /\ r = fromDevice /\ w = TRUE
    OBVIOUS
  <1>4. /\ q \in Seq(Packets(Requests)) /\ r \in Seq(Packets(Replies)) /\ w \in BOOLEAN
        /\ Leads(a, q, b, w) /\ Leads(c, r, d, w) /\ toDevice' = Stale(q) /\ fromDevice' = Stale(r)
        /\ b.left = 0 /\ d.left = 0
        /\ device # Idle => device.intact /\ device.missing = a.left /\ device.kind = a.kind
        /\ faults = 0 => a.left = device.missing
    BY <1>1, <1>2, <1>3 DEF Types, Orderly, Aligned
  <1>5. /\ Leads(a, toDevice', b, w) /\ Len(toDevice') = Len(q)
        /\ \A i \in 1..Len(q) : toDevice'[i].first = q[i].first /\ toDevice'[i].kind = q[i].kind
    <2>1. Leads(a, Stale(q), b, w)
      BY <1>4, Staled
    <2>2. PICK t : t = Stale(q)
      OBVIOUS
    <2>3. /\ Len(t) = Len(q) /\ t \in Seq(Packets(Requests))
          /\ \A i \in 1..Len(q) : t[i].first = q[i].first /\ t[i].kind = q[i].kind
      BY <1>4, <2>2, StaledQueue
    <2>4. QED
      BY <1>4, <2>1, <2>2, <2>3
  <1>6. /\ Leads(c, fromDevice', d, w) /\ Len(fromDevice') = Len(r)
        /\ \A i \in 1..Len(r) : fromDevice'[i].first = r[i].first /\ fromDevice'[i].kind = r[i].kind
        /\ fromDevice' \in Seq(Packets(Replies))
    <2>1. Leads(c, Stale(r), d, w)
      BY <1>4, Staled
    <2>2. PICK t : t = Stale(r)
      OBVIOUS
    <2>3. /\ Len(t) = Len(r) /\ t \in Seq(Packets(Replies))
          /\ \A i \in 1..Len(r) : t[i].first = r[i].first /\ t[i].kind = r[i].kind
      BY <1>4, <2>2, StaledQueue
    <2>4. QED
      BY <1>4, <2>1, <2>2, <2>3
  <1>7. fromDevice' # <<>> => r # <<>>
    <2>1. Len(fromDevice') = 0 => fromDevice' = <<>>
      BY <1>6, EmptySeq
    <2>2. Len(<<>>) = 0
      BY SMT
    <2>3. QED
      BY <1>6, <2>1, <2>2
  <1>8. \A S : /\ AllIn(q, S) => AllIn(toDevice', S)
               /\ RestIn(q, S) => RestIn(toDevice', S)
               /\ RestIn(r, S) => RestIn(fromDevice', S)
               /\ AllIn(r, S) => AllIn(fromDevice', S)
    BY <1>5, <1>6, SameFirsts
  <1>9. Aligned(a, b, c, d)'
    BY <1>2, <1>3, <1>4, <1>5, <1>6 DEF Aligned
  <1>10. CASE Trailing
    <2>1. Trailing'
      BY <1>2, <1>3, <1>7, <1>8, <1>10 DEF Trailing
    <2>2. QED
      BY <1>2, <1>9, <2>1 DEF Orderly
  <1>11. CASE Done
    <2>1. q = <<>> /\ r = <<>> /\ device = Idle
      BY <1>3, <1>11 DEF Done
    <2>2. \A S : AllIn(toDevice', S) /\ RestIn(toDevice', S) /\ AllIn(fromDevice', S) /\ RestIn(fromDevice', S)
      BY <1>8, <2>1, EmptyQueue
    <2>3. c.left = 0
      <3>1. Len(r) = 0 /\ Len(r) \in Nat
        BY <2>1, SMT
      <3>2. c = d
        BY <1>4, <3>1, LeadsOn
      <3>3. QED
        BY <1>4, <3>2
    <2>4. CASE faults = 0
      <3>1. Preceded(c)'
        BY <1>2, <2>1, <2>2, <2>3, <2>4 DEF Preceded, OlderDevice
      <3>2. QED
        BY <1>2, <1>9, <3>1 DEF Orderly
    <2>5. CASE faults = 1
      <3>1. Trailing'
        BY <1>2, <2>1, <2>2, <2>5 DEF Trailing
      <3>2. QED
        BY <1>2, <1>9, <3>1 DEF Orderly
    <2>6. QED
      BY <2>4, <2>5
  <1>12. QED
    BY <1>2, <1>10, <1>11 DEF Orderly, Followed, Preceded

LEMMA StartsCutShort ==
    ASSUME IInv, IInv', StartRun, NEW a \in Places, NEW b \in Places, CutShort(a, b)
    PROVE  Dialogue' /\ CutShort(a, b)'
  <1>1. Types /\ Writing
    BY DEF IInv
  <1>2. /\ phase' = "initialize" /\ faults' = faults
        /\ reading' = Idle /\ ~Mid' /\ ~Underway /\ ~Underway' /\ ~ReadPhase'
        /\ Dialogue'
        /\ (device' = Idle <=> device = Idle) /\ device'.missing = device.missing
        /\ toDevice' = Stale(toDevice) /\ fromDevice' = Stale(fromDevice)
    BY <1>1, Restarts
  <1>3. PICK q, w : q = toDevice /\ w = FALSE
    OBVIOUS
  <1>4. /\ q \in Seq(Packets(Requests)) /\ w \in BOOLEAN /\ Leads(a, q, b, w) /\ toDevice' = Stale(q)
        /\ faults = 1 /\ fromDevice = <<>>
        /\ device = Idle => q # <<>> /\ q[1].first
        /\ \A i \in 1..Len(q) : i > Lacking => ~q[i].first
        /\ Len(q) < Lacking
    BY <1>1, <1>2, <1>3 DEF Types, CutShort
  <1>5. /\ Leads(a, toDevice', b, w) /\ Len(toDevice') = Len(q) /\ toDevice' \in Seq(Packets(Requests))
        /\ \A i \in 1..Len(q) : toDevice'[i].first = q[i].first /\ toDevice'[i].kind = q[i].kind
    <2>1. Leads(a, Stale(q), b, w)
      BY <1>4, Staled
    <2>2. PICK t : t = Stale(q)
      OBVIOUS
    <2>3. /\ Len(t) = Len(q) /\ t \in Seq(Packets(Requests))
          /\ \A i \in 1..Len(q) : t[i].first = q[i].first /\ t[i].kind = q[i].kind
      BY <1>4, <2>2, StaledQueue
    <2>4. QED
      BY <1>4, <2>1, <2>2, <2>3
  <1>6. fromDevice' = <<>>
    <2>1. PICK r, v, k : r = fromDevice /\ v = TRUE /\ k = Len(r)
      OBVIOUS
    <2>2. PICK z : z = [left |-> 0, kind |-> "none", lost |-> 0, failed |-> 0]
      OBVIOUS
    <2>3. z \in Places /\ v \in BOOLEAN
      BY <2>1, <2>2, SMT DEF Places
    <2>4. r \in Seq(Packets(Replies)) /\ Leads(z, r, z, v)
      BY <1>1, <1>4, <2>1, <2>3, LeadsNowhere DEF Types
    <2>5. Len(Stale(r)) = Len(r) /\ Stale(r) \in Seq(Packets(Replies))
      BY <2>3, <2>4, Staled
    <2>6. Len(r) = 0
      BY <1>4, <2>1, SMT
    <2>7. QED
      BY <1>2, <2>1, <2>5, <2>6, EmptySeq
  <1>7. q # <<>> => 1 \in 1..Len(q) /\ toDevice' # <<>>
    <2>1. q # <<>> => Len(q) \in Nat \ {0}
      BY <1>4, TailOf
    <2>2. q # <<>> => 1 \in 1..Len(q) /\ Len(q) # 0
      BY <2>1, SMT
    <2>3. Len(<<>>) = 0
      BY SMT
    <2>4. QED
      BY <1>5, <2>2, <2>3
  <1>8. Lacking' = Lacking
    BY <1>2, <1>3, <1>4, <1>5, <1>7 DEF Lacking
  <1>9. CutShort(a, b)'
    BY <1>2, <1>3, <1>4, <1>5, <1>6, <1>7, <1>8 DEF CutShort
  <1>10. QED
    BY <1>2, <1>9

-----------------------------------------------------------------------------
(* The fault.                                                                *)

(* What there is in the queues before the first fault, and one packet later: *)
(* at most one message, or what the device has not yet read of it.           *)
Clean(q) ==
    /\ \A i \in 1..Len(q) : q[i].first => i = 1 /\ device = Idle
    /\ q # <<>> /\ device = Idle => q[1].first
    /\ fromDevice # <<>> => q = <<>> /\ device = Idle
    /\ \A i \in 1..Len(fromDevice) : fromDevice[i].first => i = 1

LEMMA OneMessage ==
    ASSUME NEW kinds, kinds \subseteq Kinds, NEW q \in Seq(Packets(kinds)), NEW a \in Places, NEW b,
           Leads(a, q, b, TRUE), a.left = 0, NEW kind, LastIs(q, {}, kind)
    PROVE  q # <<>> /\ q[1].first /\ \A i \in 1..Len(q) : q[i].first => i = 1
  <1>1. PICK j \in 1..Len(q) : q[j].first
    BY DEF LastIs, NoFirst
  <1>2. Len(q) \in Nat /\ (\A i, k \in 1..Len(q) : i > k \/ k > i \/ i = k)
        /\ (\A i \in 1..Len(q) : i > 1 \/ i = 1) /\ 1 \in 1..Len(q)
    BY <1>1, SMT
  <1>3. \A i \in 1..Len(q) : q[i].first => LastFirst(q, i)
    BY DEF LastIs
  <1>4. q # <<>>
    <2>1. q = <<>> => Len(q) = 0
      BY SMT
    <2>2. ~(1 \in 1..0)
      BY SMT
    <2>3. QED
      BY <1>2, <2>1, <2>2
  <1>5. q[1].first
    <2>1. PICK w, p : w = TRUE /\ p = Head(q)
      OBVIOUS
    <2>2. w \in BOOLEAN /\ Leads(a, q, b, w)
      BY <2>1
    <2>3. p.first \in BOOLEAN /\ (~p.first => a.left > 0)
      BY <1>4, <2>1, <2>2, FrontOf
    <2>4. p = q[1]
      BY <1>4, <2>1, TailOf
    <2>5. ~(0 > 0)
      BY SMT
    <2>6. QED
      BY <2>3, <2>4, <2>5
  <1>6. \A i \in 1..Len(q) : q[i].first => i = 1
    BY <1>2, <1>3, <1>5 DEF LastFirst
  <1>7. QED
    BY <1>4, <1>5, <1>6

LEMMA CleanBefore ==
    ASSUME Types, faults = 0,
           NEW a \in Places, NEW b \in Places, NEW c \in Places, NEW d \in Places,
           Orderly(a, b, c, d)
    PROVE  /\ Clean(toDevice)
           /\ Mid => fromDevice = <<>> /\ (device = Idle => toDevice # <<>>)
           /\ Preceded(c) => toDevice = <<>> /\ fromDevice = <<>> /\ device = Idle
  <1>1. /\ Leads(a, toDevice, b, TRUE) /\ Leads(c, fromDevice, d, TRUE)
        /\ a.left = device.missing /\ b.left = IF Mid THEN Len(unwritten) ELSE 0
    BY DEF Orderly, Aligned
  <1>2. /\ toDevice \in Seq(Packets(Requests)) /\ fromDevice \in Seq(Packets(Replies))
        /\ Requests \subseteq Kinds /\ Replies \subseteq Kinds
    BY KindsOf DEF Types
  <1>3. Older = {} /\ (OlderDevice <=> device = Idle) /\ (OlderReading <=> reading = Idle)
    BY OlderIs DEF OlderDevice, OlderReading
  <1>4. device = Idle => a.left = 0
    BY <1>1 DEF Idle, Partial
  <1>5. Followed(a, c) \/ Preceded(c) \/ Done
    BY DEF Orderly, Trailing
  <1>6. \A q : q = <<>> => Len(q) = 0 /\ NoFirst(q)
    BY EmptyQueue
  <1>7. Preceded(c) => toDevice = <<>> /\ fromDevice = <<>> /\ device = Idle
    <2> SUFFICES ASSUME Preceded(c)
                 PROVE  toDevice = <<>> /\ fromDevice = <<>> /\ device = Idle
      OBVIOUS
    <2>1. device = Idle /\ NoFirst(toDevice) /\ NoFirst(fromDevice) /\ c.left = 0
      BY <1>3, NoneIn DEF Preceded
    <2>2. toDevice = <<>>
      BY <1>1, <1>4, <2>1, NothingSent
    <2>3. fromDevice = <<>>
      BY <1>1, <2>1, NothingAnswered
    <2>4. QED
      BY <2>1, <2>2, <2>3
  <1>8. toDevice = <<>> /\ fromDevice = <<>> => Clean(toDevice)
    BY <1>6 DEF Clean, NoFirst
  <1>9. Clean(toDevice)
    <2>1. CASE Followed(a, c)
      <3>1. reading = Idle => c.left = 0
        BY <2>1 DEF Followed
      <3>2. reading = Idle /\ AllIn(fromDevice, {}) => fromDevice = <<>>
        BY <1>1, <3>1, NothingAnswered, NoneIn
      <3>3. device = Idle /\ NoFirst(toDevice) => toDevice = <<>>
        BY <1>1, <1>4, NothingSent
      <3>4. CASE InQueue(Wanted)
        <4>1. LastIs(toDevice, {}, Wanted) /\ device = Idle /\ fromDevice = <<>>
          BY <1>3, <3>2, <3>4 DEF InQueue
        <4>2. /\ toDevice # <<>> /\ toDevice[1].first
              /\ \A i \in 1..Len(toDevice) : toDevice[i].first => i = 1
          <5>1. PICK q : q = toDevice
            OBVIOUS
          <5>2. q \in Seq(Packets(Requests)) /\ Leads(a, q, b, TRUE) /\ LastIs(q, {}, Wanted)
            BY <1>1, <1>2, <4>1, <5>1
          <5>3. q # <<>> /\ q[1].first /\ \A i \in 1..Len(q) : q[i].first => i = 1
            BY <1>2, <1>4, <4>1, <5>2, OneMessage
          <5>4. QED
            BY <5>1, <5>3
        <4>3. QED
          BY <1>6, <4>1, <4>2 DEF Clean, NoFirst
      <3>5. CASE InDevice(Wanted)
        <4>1. NoFirst(toDevice) /\ device # Idle /\ fromDevice = <<>>
          BY <1>3, <3>2, <3>5 DEF InDevice
        <4>2. QED
          BY <1>6, <4>1 DEF Clean, NoFirst
      <3>6. CASE InReply(a, Answer[Wanted])
        <4>1. toDevice = <<>> /\ device = Idle /\ LastIs(fromDevice, {}, Answer[Wanted]) /\ c.left = 0
          BY <1>3, <3>1, <3>3, <3>6 DEF InReply
        <4>2. \A i \in 1..Len(fromDevice) : fromDevice[i].first => i = 1
          <5>1. PICK q : q = fromDevice
            OBVIOUS
          <5>2. q \in Seq(Packets(Replies)) /\ Leads(c, q, d, TRUE) /\ LastIs(q, {}, Answer[Wanted])
            BY <1>1, <1>2, <4>1, <5>1
          <5>3. \A i \in 1..Len(q) : q[i].first => i = 1
            BY <1>2, <4>1, <5>2, OneMessage
          <5>4. QED
            BY <5>1, <5>3
        <4>3. QED
          BY <1>6, <4>1, <4>2 DEF Clean, NoFirst
      <3>7. CASE InReading(a, Answer[Wanted])
        <4>1. toDevice = <<>> /\ device = Idle /\ NoFirst(fromDevice)
          BY <3>3, <3>7 DEF InReading
        <4>2. QED
          BY <1>6, <4>1 DEF Clean, NoFirst
      <3>8. QED
        BY <2>1, <3>4, <3>5, <3>6, <3>7 DEF Followed, Latest
    <2>2. CASE Preceded(c)
      BY <1>7, <1>8, <2>2
    <2>3. CASE Done
      BY <1>8, <2>3 DEF Done
    <2>4. QED
      BY <1>5, <2>1, <2>2, <2>3
  <1>10. Mid => ~(toDevice = <<>> /\ device = Idle)
    <2> SUFFICES ASSUME Mid, toDevice = <<>>, device = Idle
                 PROVE  FALSE
      OBVIOUS
    <2>1. a = b /\ a.left = 0
      BY <1>1, <1>4, <1>6, NothingSent
    <2>2. Len(unwritten) = 0
      BY <1>1, <2>1
    <2>3. unwritten = <<>>
      BY <2>2, EmptySeq DEF Types
    <2>4. QED
      BY <2>3 DEF Mid
  <1>11. Mid => fromDevice = <<>> /\ (device = Idle => toDevice # <<>>)
    BY <1>9, <1>10 DEF Clean
  <1>12. QED
    BY <1>7, <1>9, <1>11

LEMMA LeadsAnyway ==
    ASSUME NEW a, NEW b, NEW q, Leads(a, q, b, TRUE)
    PROVE  Leads(a, q, b, FALSE)
  <1>1. PICK s : Trace(s, q, TRUE) /\ s[1] = a /\ s[Len(q) + 1] = b
    BY DEF Leads
  <1>2. \A t, p : Fits(t, p, TRUE) => Fits(t, p, FALSE)
    BY DEF Fits
  <1>3. Trace(s, q, FALSE)
    BY <1>1, <1>2 DEF Trace
  <1>4. QED
    BY <1>1, <1>3 DEF Leads

(* The run dies; the message it was writing, if any, has come to its end, or *)
(* else the device cannot have had its end.                                  *)
LEMMA Interrupted ==
    ASSUME Die, faults' = 1, device' = device, fromDevice' = fromDevice, Clean(toDevice'),
           NEW a \in Places, NEW e \in Places, NEW c \in Places, NEW d \in Places,
           Leads(a, toDevice', e, TRUE), Leads(c, fromDevice, d, TRUE), d.left = 0,
           device # Idle => device.intact /\ device.missing = a.left /\ device.kind = a.kind,
           \/ e.left = 0
           \/ /\ fromDevice = <<>> /\ (device = Idle => toDevice' # <<>>)
              /\ Len(toDevice') \in Nat /\ Lacking' \in Nat /\ Len(toDevice') < Lacking'
    PROVE  Dialogue' /\ (Orderly(a, e, c, d) \/ CutShort(a, e))'
  <1>1. phase' = "failed" /\ unwritten' = <<>> /\ reading' = Idle
    BY DEF Die
  <1>2. ~Mid' /\ ~ReadPhase' /\ ~Underway'
    BY <1>1 DEF Mid, ReadPhase, Underway
  <1>3. Dialogue'
    <2>1. Len(<<>>) = 0 /\ \A i \in 1..0 : FALSE
      BY SMT
    <2>2. QED
      BY <1>1, <2>1 DEF Dialogue
  <1>4. CASE e.left = 0
    <2>1. Aligned(a, e, c, d)'
      <3>1. 1 # 0
        BY SMT
      <3>2. QED
        BY <1>1, <1>2, <1>4, <3>1 DEF Aligned
    <2>2. ~(1 > 1)
      BY SMT
    <2>3. RestIn(fromDevice', Early) /\ RestIn(toDevice', Early)
      BY <2>2 DEF RestIn, Clean
    <2>4. device # Idle => AllIn(toDevice', Early)
      BY DEF AllIn, Clean
    <2>5. fromDevice # <<>> => AllIn(toDevice', Early) /\ device = Idle
      BY EmptyQueue DEF Clean
    <2>6. Trailing'
      BY <1>1, <2>3, <2>4, <2>5 DEF Trailing
    <2>7. QED
      BY <1>3, <2>1, <2>6 DEF Orderly
  <1>5. CASE /\ fromDevice = <<>> /\ (device = Idle => toDevice' # <<>>)
             /\ Len(toDevice') \in Nat /\ Lacking' \in Nat /\ Len(toDevice') < Lacking'
    <2>1. \A i \in 1..Len(toDevice') : ~(i > Lacking')
      BY <1>5, SMT
    <2>2. device = Idle => toDevice'[1].first
      BY <1>5 DEF Clean
    <2>3. Leads(a, toDevice', e, FALSE)
      BY LeadsAnyway
    <2>4. CutShort(a, e)'
      BY <1>1, <1>2, <1>5, <2>1, <2>2, <2>3 DEF CutShort
    <2>5. QED
      BY <1>3, <2>4
  <1>6. QED
    BY <1>4, <1>5

LEMMA KilledInOrder ==
    ASSUME IInv, Kill, faults = 0,
           NEW a \in Places, NEW b \in Places, NEW c \in Places, NEW d \in Places,
           Orderly(a, b, c, d)
    PROVE  Dialogue' /\ (Orderly(a, b, c, d) \/ CutShort(a, b))'
  <1>1. /\ Die /\ faults' = faults + 1 /\ toDevice' = toDevice /\ fromDevice' = fromDevice
        /\ device' = device
    BY DEF Kill, Fault
  <1>2. Types
    BY DEF IInv
  <1>3. faults' = 1
    BY <1>1, SMT
  <1>4. Clean(toDevice) /\ (Mid => fromDevice = <<>> /\ (device = Idle => toDevice # <<>>))
    BY <1>2, CleanBefore
  <1>5. /\ Leads(a, toDevice, b, TRUE) /\ Leads(c, fromDevice, d, TRUE) /\ d.left = 0
        /\ device # Idle => device.intact /\ device.missing = a.left /\ device.kind = a.kind
        /\ b.left = IF Mid THEN Len(unwritten) ELSE 0
        /\ Mid => Len(toDevice) + Len(unwritten) = Lacking
    BY DEF Orderly, Aligned
  <1>6. Lacking' = Lacking
    BY <1>1 DEF Lacking
  <1>7. Mid => Len(toDevice) \in Nat /\ Lacking \in Nat /\ Len(toDevice) < Lacking
    <2> SUFFICES ASSUME Mid
                 PROVE  Len(toDevice) \in Nat /\ Lacking \in Nat /\ Len(toDevice) < Lacking
      OBVIOUS
    <2>1. PICK k, n, l : k = Len(toDevice) /\ n = Len(unwritten) /\ l = Lacking
      OBVIOUS
    <2>2. n \in Nat \ {0} /\ k \in Nat
      <3>1. unwritten # <<>> /\ unwritten \in Seq(Packets(Requests)) /\ toDevice \in Seq(Packets(Requests))
        BY <1>2 DEF Mid, Types
      <3>2. Len(unwritten) \in Nat \ {0}
        BY <3>1, TailOf
      <3>3. Len(toDevice) \in Nat
        BY <3>1, LenProperties
      <3>4. QED
        BY <2>1, <3>2, <3>3
    <2>3. k + n = l
      BY <1>5, <2>1
    <2>4. l \in Nat /\ k < l
      BY <2>2, <2>3, SMT
    <2>5. QED
      BY <2>1, <2>2, <2>4
  <1>8. QED
    BY <1>1, <1>3, <1>4, <1>5, <1>6, <1>7, Interrupted

(* The device has the packet, and the host does not know.                    *)
LEMMA TimedOutInOrder ==
    ASSUME IInv, WriteTimesOut, faults = 0,
           NEW a \in Places, NEW b \in Places, NEW c \in Places, NEW d \in Places,
           Orderly(a, b, c, d)
    PROVE  Dialogue' /\ \E e \in Places : (Orderly(a, e, c, d) \/ CutShort(a, e))'
  <1>1. PICK p, q, n, k, e :
           /\ p = Head(unwritten) /\ q = toDevice /\ n = Len(unwritten) /\ k = Len(toDevice)
           /\ e = After(b, p)
    OBVIOUS
  <1>2. /\ unwritten # <<>> /\ Die /\ faults' = faults + 1 /\ toDevice' = Append(q, p)
        /\ fromDevice' = fromDevice /\ device' = device
    BY <1>1 DEF WriteTimesOut, Fault
  <1>3. Types /\ Writing
    BY DEF IInv
  <1>4. /\ p \in Packets(Requests) /\ p = unwritten[1] /\ (Mid <=> ~p.first)
        /\ phase \in {"initialize", "request", "ecdh"}
    <2>1. PICK g, h, i, j \in Places : At(g, h, i, j)
      BY DEF IInv
    <2>2. Prolongs(p, g, h) /\ Writer(p)
      BY <1>1, <1>2, <1>3, <2>1, Written
    <2>3. QED
      BY <2>2 DEF Prolongs, Writer
  <1>5. /\ p.kind \in Requests /\ p.first \in BOOLEAN /\ q \in Seq(Packets(Requests))
        /\ p \in Packets(Kinds) /\ p.kind \in Kinds
    <2>1. p.kind \in Requests /\ p.first \in BOOLEAN
      BY <1>4, SMT DEF Packets
    <2>2. QED
      BY <1>1, <1>3, <1>4, <2>1, KindsOf DEF Types
  <1>6. n \in Nat \ {0} /\ (p.first => n = Length[p.kind])
    <2>1. unwritten \in Seq(Packets(Requests))
      BY <1>3 DEF Types
    <2>2. Len(unwritten) \in Nat \ {0}
      BY <1>2, <2>1, TailOf
    <2>3. QED
      BY <1>1, <1>2, <1>3, <1>4, <2>2 DEF Writing
  <1>7. /\ Clean(q) /\ (Mid => fromDevice = <<>> /\ (device = Idle => q # <<>>))
        /\ Preceded(c) => q = <<>> /\ fromDevice = <<>> /\ device = Idle
    BY <1>1, <1>3, CleanBefore
  <1>8. /\ Leads(a, q, b, TRUE) /\ Leads(c, fromDevice, d, TRUE) /\ d.left = 0
        /\ device # Idle => device.intact /\ device.missing = a.left /\ device.kind = a.kind
        /\ b.left = IF Mid THEN n ELSE 0
        /\ Mid => b.kind = p.kind
        /\ Mid => k + n = Lacking
    BY <1>1 DEF Orderly, Aligned
  <1>9. ~Mid => Preceded(c)
    <2>1. ~ReadPhase /\ phase # "returned"
      BY <1>4 DEF ReadPhase
    <2>2. QED
      BY <2>1 DEF Orderly, Followed, Underway, Trailing, Done
  <1>10. /\ k \in Nat /\ Len(toDevice') = k + 1 /\ toDevice'[k + 1] = p /\ toDevice' # <<>>
         /\ \A i \in 1..k : toDevice'[i] = q[i]
         /\ (q # <<>> => 1 \in 1..k) /\ (q = <<>> => k = 0)
    <2>1. PICK S : S = Packets(Requests)
      OBVIOUS
    <2>2. q \in Seq(S) /\ p \in S /\ toDevice' = Append(q, p) /\ k = Len(q)
      BY <1>1, <1>2, <1>4, <1>5, <2>1
    <2>3. QED
      BY <2>2, SMT
  <1>11. Leads(a, toDevice', e, TRUE) /\ e \in Places /\ e.left = n - 1
    <2>1. PICK w : w = TRUE
      OBVIOUS
    <2>2. w \in BOOLEAN /\ Leads(a, q, b, w)
      BY <1>8, <2>1
    <2>3. IF p.first THEN n = Length[p.kind] /\ (w => b.left = 0) ELSE b.left = n /\ b.kind = p.kind
      BY <1>4, <1>6, <1>8
    <2>4. Leads(a, Append(q, p), e, w) /\ e \in Places /\ e.left = n - 1 /\ e.kind = p.kind
      BY <1>1, <1>5, <1>6, <2>2, <2>3, OnePlace
    <2>5. QED
      BY <1>2, <2>1, <2>4
  <1>12. fromDevice = <<>>
    BY <1>7, <1>9
  <1>13. (\A i \in 1..k + 1 : i \in 1..k \/ i = k + 1) /\ 0 + 1 = 1
    BY <1>10, SMT
  <1>14. Clean(toDevice')
    <2>1. CASE Mid
      <3>1. \A i \in 1..k + 1 : toDevice'[i].first => i = 1 /\ device = Idle
        BY <1>1, <1>4, <1>7, <1>10, <1>13, <2>1 DEF Clean
      <3>2. device = Idle => toDevice'[1].first
        BY <1>1, <1>7, <1>10, <2>1 DEF Clean
      <3>3. QED
        BY <1>10, <1>12, <3>1, <3>2, EmptyQueue DEF Clean, NoFirst
    <2>2. CASE ~Mid
      <3>1. k = 0 /\ device = Idle
        BY <1>7, <1>9, <1>10, <2>2
      <3>2. Len(toDevice') = 1 /\ toDevice'[1].first /\ \A i \in 1..1 : i = 1
        BY <1>4, <1>10, <1>13, <2>2, <3>1, SMT
      <3>3. QED
        BY <1>12, <3>1, <3>2, EmptyQueue DEF Clean, NoFirst
    <2>3. QED
      BY <2>1, <2>2
  <1>15. Lacking' = k + n
    <2>1. CASE Mid
      <3>1. device = Idle => toDevice'[1] = toDevice[1]
        BY <1>1, <1>7, <1>10, <2>1
      <3>2. QED
        BY <1>2, <1>8, <2>1, <3>1 DEF Lacking
    <2>2. CASE ~Mid
      <3>1. k = 0 /\ device = Idle
        BY <1>7, <1>9, <1>10, <2>2
      <3>2. toDevice'[1] = p
        BY <1>10, <1>13, <3>1
      <3>3. 0 + n = n
        BY <1>6, SMT
      <3>4. QED
        BY <1>2, <1>4, <1>6, <2>2, <3>1, <3>2, <3>3 DEF Lacking
    <2>3. QED
      BY <2>1, <2>2
  <1>16. k + 1 \in Nat /\ k + n \in Nat /\ (n - 1 = 0 \/ k + 1 < k + n)
    BY <1>6, <1>10, SMT
  <1>17. faults' = 1
    BY <1>2, SMT
  <1>18. Dialogue' /\ (Orderly(a, e, c, d) \/ CutShort(a, e))'
    BY <1>2, <1>8, <1>10, <1>11, <1>12, <1>14, <1>15, <1>16, <1>17, Interrupted
  <1>19. QED
    BY <1>11, <1>18

LEMMA UnpluggedInOrder ==
    ASSUME IInv, Unplug, faults = 0, Dialogue,
           NEW a \in Places, NEW b \in Places, NEW c \in Places, NEW d \in Places,
           Orderly(a, b, c, d)
    PROVE  Dialogue' /\ \E z \in Places : Orderly(z, z, z, z)'
  <1>1. /\ faults' = faults + 1 /\ toDevice' = <<>> /\ fromDevice' = <<>> /\ device' = Idle
        /\ legacy' = legacy /\ result' = result
        /\ \/ Die
           \/ ~Running /\ UNCHANGED <<phase, unwritten, reading>>
    BY DEF Unplug, Fault
  <1>2. faults' = 1 /\ 1 # 0
    BY <1>1, SMT
  <1>3. PICK z : z = [left |-> 0, kind |-> "none", lost |-> 0, failed |-> 0]
    OBVIOUS
  <1>4. z \in Places /\ z.left = 0
    BY <1>3, SMT DEF Places
  <1>5. Leads(z, toDevice', z, TRUE) /\ Leads(z, fromDevice', z, TRUE)
    <2>1. PICK w : w = TRUE
      OBVIOUS
    <2>2. Leads(z, <<>>, z, w)
      BY <1>4, <2>1, LeadsNowhere
    <2>3. QED
      BY <1>1, <2>1, <2>2
  <1>6. \A S : /\ RestIn(toDevice', S) /\ RestIn(fromDevice', S)
               /\ AllIn(toDevice', S) /\ AllIn(fromDevice', S)
    BY <1>1, EmptyQueue
  <1>7. Types /\ Writing
    BY DEF IInv
  <1>8. /\ unwritten' = <<>> /\ reading' = Idle
        /\ \/ phase' = "failed"
           \/ phase' = "returned" /\ phase = "returned"
    <2>1. CASE Die
      BY <2>1 DEF Die
    <2>2. CASE ~Running /\ UNCHANGED <<phase, unwritten, reading>>
      BY <1>7, <2>2 DEF Running, ReadPhase, Writing
    <2>3. QED
      BY <1>1, <2>1, <2>2
  <1>9. ~Mid'
    BY <1>8 DEF Mid
  <1>10. Aligned(z, z, z, z)'
    BY <1>1, <1>2, <1>4, <1>5, <1>8, <1>9 DEF Aligned
  <1>11. Dialogue'
    <2>1. Len(<<>>) = 0 /\ \A i \in 1..0 : FALSE
      BY SMT
    <2>2. QED
      BY <1>8, <2>1 DEF Dialogue
  <1>12. CASE phase' = "failed"
    <2>1. Trailing'
      BY <1>1, <1>2, <1>6, <1>8, <1>12 DEF Trailing
    <2>2. QED
      BY <1>4, <1>10, <1>11, <2>1 DEF Orderly
  <1>13. CASE phase' = "returned" /\ phase = "returned"
    <2>1. Done
      <3>1. ~Mid /\ ~Underway
        <4>1. unwritten = <<>>
          BY <1>7, <1>13 DEF Writing
        <4>2. QED
          BY <1>13, <4>1 DEF Mid, Underway, ReadPhase
      <3>2. QED
        BY <1>13, <3>1 DEF Orderly, Followed, Preceded, Trailing
    <2>2. Wanted' = Wanted
      BY <1>1, <1>13 DEF Wanted
    <2>3. Done'
      BY <1>1, <1>13, <2>1, <2>2 DEF Done
    <2>4. QED
      BY <1>4, <1>10, <1>11, <2>3 DEF Orderly
  <1>14. QED
    BY <1>8, <1>12, <1>13

-----------------------------------------------------------------------------
(* A read that hangs: the device is inside the message that was cut.         *)
LEMMA GivesUpCutShort ==
    ASSUME IInv, GiveUp, faults \in {0, 1}
    PROVE  /\ \A a, b, c, d \in Places : ~Orderly(a, b, c, d)
           /\ \A a, b \in Places : CutShort(a, b) => Dialogue' /\ CutShort(a, b)'
  <1>1. /\ ReadPhase /\ toDevice = <<>> /\ fromDevice = <<>>
        /\ phase' = "failed" /\ unwritten' = <<>> /\ reading' = Idle
        /\ toDevice' = toDevice /\ fromDevice' = fromDevice /\ device' = device /\ faults' = faults
    BY DEF GiveUp, Hangs, Spoil
  <1>2. Types /\ Writing
    BY DEF IInv
  <1>3. device # Idle /\ ~device.intact /\ device.missing > 0
    <2>1. PICK g, h, i, j \in Places : At(g, h, i, j)
      BY DEF IInv
    <2>2. Hangs
      BY DEF GiveUp
    <2>3. QED
      BY <1>2, <2>1, <2>2, Hanging
  <1>4. \A a, b, c, d \in Places : ~Orderly(a, b, c, d)
    BY <1>3 DEF Orderly, Aligned
  <1>5. ASSUME NEW a \in Places, NEW b \in Places, CutShort(a, b)
        PROVE  Dialogue' /\ CutShort(a, b)'
    <2>1. ~Mid' /\ ~ReadPhase' /\ ~Underway'
      BY <1>1 DEF Mid, ReadPhase, Underway
    <2>2. Len(<<>>) = 0 /\ \A i \in 1..0 : FALSE
      BY SMT
    <2>3. Dialogue'
      BY <1>1, <2>2 DEF Dialogue
    <2>4. Len(toDevice') < Lacking'
      <3>1. 0 < device.missing
        <4>1. device.missing \in Nat
          BY <1>2, PartialFields DEF Types
        <4>2. QED
          BY <1>3, <4>1, SMT
      <3>2. QED
        BY <1>1, <1>3, <2>2, <3>1 DEF Lacking
    <2>5. CutShort(a, b)'
      BY <1>1, <1>3, <1>5, <2>1, <2>2, <2>4 DEF CutShort
    <2>6. QED
      BY <2>3, <2>5
  <1>6. QED
    BY <1>4, <1>5

-----------------------------------------------------------------------------
LEMMA InitOneFault == Init => OneFault
  <1> SUFFICES ASSUME Init
               PROVE  OneFault
    OBVIOUS
  <1>1. PICK z : z = [left |-> 0, kind |-> "none", lost |-> 0, failed |-> 0]
    OBVIOUS
  <1>2. z \in Places /\ z.left = 0
    BY <1>1, SMT DEF Places
  <1>3. /\ phase = "initialize" /\ reading = Idle /\ device = Idle
        /\ toDevice = <<>> /\ fromDevice = <<>> /\ faults = 0 /\ unwritten = PacketsOf("initialize", TRUE)
    BY DEF Init
  <1>4. ~Mid /\ \A i \in 1..Len(unwritten) : unwritten[i].own /\ unwritten[i].kind = "initialize"
    <2>1. PICK kind \in Requests : kind = "initialize"
      BY KindsOf
    <2>2. unwritten = PacketsOf(kind, TRUE)
      BY <1>3, <2>1
    <2>3. ~Mid /\ \A i \in 1..Len(unwritten) : unwritten[i].own /\ unwritten[i].kind = kind
      BY <2>2, Asking
    <2>4. QED
      BY <2>1, <2>3
  <1>5. Dialogue
    <2>1. Wanted = "initialize"
      BY <1>3 DEF Wanted
    <2>2. QED
      BY <1>3, <1>4, <2>1 DEF Dialogue
  <1>6. Leads(z, toDevice, z, TRUE) /\ Leads(z, fromDevice, z, TRUE)
    <2>1. PICK w : w = TRUE
      OBVIOUS
    <2>2. Leads(z, <<>>, z, w)
      BY <1>2, <2>1, LeadsNowhere
    <2>3. QED
      BY <1>3, <2>1, <2>2
  <1>7. Idle.missing = 0
    BY DEF Idle, Partial
  <1>8. Aligned(z, z, z, z)
    BY <1>2, <1>3, <1>4, <1>6, <1>7 DEF Aligned
  <1>9. Preceded(z)
    BY <1>2, <1>3, <1>4, EmptyQueue DEF Preceded, OlderDevice
  <1>10. Orderly(z, z, z, z) /\ 0 \in Nat
    BY <1>8, <1>9 DEF Orderly
  <1>11. QED
    BY <1>2, <1>3, <1>5, <1>10 DEF OneFault

(* What stays as it is.                                                      *)
LEMMA Stutters ==
    ASSUME UNCHANGED vars, NEW a, NEW b, NEW c, NEW d
    PROVE  /\ Dialogue => Dialogue'
           /\ Orderly(a, b, c, d) => Orderly(a, b, c, d)'
           /\ CutShort(a, b) => CutShort(a, b)'
  <1>1. /\ phase' = phase /\ legacy' = legacy /\ unwritten' = unwritten /\ reading' = reading
        /\ result' = result /\ toDevice' = toDevice /\ fromDevice' = fromDevice
        /\ device' = device /\ faults' = faults
    BY DEF vars, hostVars, historyVars
  <1>2. /\ (Mid' <=> Mid) /\ (ReadPhase' <=> ReadPhase) /\ (Later' <=> Later)
        /\ (Underway' <=> Underway)
        /\ Wanted' = Wanted /\ Older' = Older /\ (Dialogue' <=> Dialogue)
    BY <1>1, SamePhase
  <1>3. Lacking' = Lacking
    BY <1>1 DEF Lacking
  <1>4. Aligned(a, b, c, d) => Aligned(a, b, c, d)'
    BY <1>1, <1>2, <1>3 DEF Aligned
  <1>5. (OlderDevice' <=> OlderDevice) /\ (OlderReading' <=> OlderReading)
    BY <1>1, <1>2 DEF OlderDevice, OlderReading
  <1>6. Latest(a) => Latest(a)'
    <2>1. InQueue(Wanted) => InQueue(Wanted)'
      BY <1>1, <1>2, <1>5 DEF InQueue
    <2>2. InDevice(Wanted) => InDevice(Wanted)'
      BY <1>1, <1>2, <1>5 DEF InDevice
    <2>3. InReply(a, Answer[Wanted]) => InReply(a, Answer[Wanted])'
      BY <1>1, <1>2, <1>5 DEF InReply
    <2>4. InReading(a, Answer[Wanted]) => InReading(a, Answer[Wanted])'
      BY <1>1, <1>2 DEF InReading
    <2>5. QED
      BY <2>1, <2>2, <2>3, <2>4 DEF Latest
  <1>7. /\ Followed(a, c) => Followed(a, c)'
        /\ Preceded(c) => Preceded(c)'
        /\ Trailing => Trailing'
        /\ Done => Done'
    BY <1>1, <1>2, <1>5, <1>6 DEF Followed, Preceded, Trailing, Done
  <1>8. CutShort(a, b) => CutShort(a, b)'
    BY <1>1, <1>2, <1>3 DEF CutShort
  <1>9. QED
    BY <1>2, <1>4, <1>7, <1>8 DEF Orderly

LEMMA StepOneFault == IInv /\ IInv' /\ OneFault /\ [Next]_vars => OneFault'
  <1> SUFFICES ASSUME IInv, IInv', OneFault, [Next]_vars
               PROVE  OneFault'
    OBVIOUS
  <1>1. faults' = faults \/ (faults' = faults + 1 /\ (Kill \/ WriteTimesOut \/ Unplug))
    <2>1. CASE WritePacket \/ ReadFirst \/ ReadRest \/ StartRun \/ DeviceRead \/ GiveUp \/ UNCHANGED vars
      BY <2>1 DEF WritePacket, ReadFirst, ReadRest, StartRun, DeviceRead, GiveUp, historyVars, vars
    <2>2. CASE Kill \/ WriteTimesOut \/ Unplug
      BY <2>2 DEF Kill, WriteTimesOut, Unplug, Fault
    <2>3. QED
      BY <2>1, <2>2 DEF Next, HostStep
  <1>2. PICK f, g : f = faults /\ g = faults'
    OBVIOUS
  <1>3. f \in Nat /\ (g = f \/ g = f + 1)
    BY <1>1, <1>2 DEF OneFault
  <1>4. g \in Nat /\ (g <= 1 => f \in {0, 1} /\ f <= 1) /\ (g = f + 1 /\ g <= 1 => f = 0)
        /\ (f = 0 => f # f + 1)
    BY <1>3, SMT
  <1> SUFFICES ASSUME g <= 1
               PROVE  /\ Dialogue'
                      /\ \/ \E a, b, c, d \in Places : Orderly(a, b, c, d)'
                         \/ \E a, b \in Places : CutShort(a, b)'
    BY <1>2, <1>4 DEF OneFault
  <1>5. /\ faults \in {0, 1} /\ Dialogue
        /\ \/ \E a, b, c, d \in Places : Orderly(a, b, c, d)
           \/ \E a, b \in Places : CutShort(a, b)
    BY <1>2, <1>4 DEF OneFault
  <1>6. CASE WritePacket
    <2>1. Dialogue'
      <3>1. PICK p : p = Head(unwritten)
        OBVIOUS
      <3>2. QED
        BY <1>5, <1>6, <3>1, Writes
    <2>2. QED
      BY <1>5, <1>6, <2>1, WritesInOrder, WritesCutShort
  <1>7. CASE ReadFirst \/ ReadRest
    BY <1>5, <1>7, HostReadsInOrder, ReadsNotCutShort
  <1>8. CASE StartRun
    BY <1>5, <1>8, StartsInOrder, StartsCutShort
  <1>9. CASE DeviceRead
    <2>1. Dialogue'
      BY <1>5, <1>9, DeviceAlone DEF DeviceRead
    <2>2. QED
      BY <1>5, <1>9, <2>1, DeviceReadsInOrder, DeviceReadsCutShort
  <1>10. CASE Kill \/ WriteTimesOut \/ Unplug
    <2>1. faults = 0
      <3>1. faults' = faults + 1
        BY <1>10 DEF Kill, WriteTimesOut, Unplug, Fault
      <3>2. QED
        BY <1>2, <1>4, <3>1
    <2>2. PICK a, b, c, d \in Places : Orderly(a, b, c, d)
      BY <1>5, <2>1 DEF CutShort
    <2>3. QED
      BY <1>5, <1>10, <2>1, <2>2, KilledInOrder, TimedOutInOrder, UnpluggedInOrder
  <1>11. CASE GiveUp
    BY <1>5, <1>11, GivesUpCutShort
  <1>12. CASE UNCHANGED vars
    BY <1>5, <1>12, Stutters
  <1>13. QED
    BY <1>6, <1>7, <1>8, <1>9, <1>10, <1>11, <1>12 DEF Next, HostStep

(* However long the messages are: with one interruption, wherever it         *)
(* strikes, a run that succeeds returns the whole answer to its own request  *)
(* (usb.cpp:193-216), never one that an interrupted run has left behind, and *)
(* leaves nothing in the queues and nothing begun in the device.             *)
THEOREM OwnAnswerCorrect == Spec => []OwnAnswer
  <1>1. IInv /\ OneFault => OwnAnswer
    <2> SUFFICES ASSUME IInv, OneFault, phase = "returned", faults <= 1
                 PROVE  /\ result.own /\ result.intact
                        /\ result.kind = IF legacy THEN "signed_identity" ELSE "ecdh_session"
                        /\ toDevice = <<>> /\ fromDevice = <<>> /\ device = Idle
      BY DEF OwnAnswer
    <2>1. Dialogue /\ \/ \E a, b, c, d \in Places : Orderly(a, b, c, d)
                      \/ \E a, b \in Places : CutShort(a, b)
      BY DEF OneFault
    <2>2. Done
      <3>1. ~ReadPhase /\ ~Mid /\ phase \notin {"initialize", "status", "failed"}
        BY DEF ReadPhase, Mid, IInv, Writing
      <3>2. QED
        BY <2>1, <3>1 DEF CutShort, Orderly, Followed, Underway, Preceded, Trailing
    <2>3. Answer[Wanted] = IF legacy THEN "signed_identity" ELSE "ecdh_session"
      BY WantedIs, AnswerIs
    <2>4. QED
      BY <2>2, <2>3 DEF Done
  <1>2. QED
    BY InitIInv, StepIInv, InitOneFault, StepOneFault, <1>1, PTL DEF Spec

=============================================================================

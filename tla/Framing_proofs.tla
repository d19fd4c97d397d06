---------------------------- MODULE Framing_proofs ----------------------------
(* What holds of the framing for every packet size and every set of          *)
(* messages, and of the header for every id and length.                      *)
EXTENDS Framing, SequenceTheorems, TLAPS

-----------------------------------------------------------------------------
(* The header.                                                               *)

(* n is the value of its base-256 digits.                                    *)
LEMMA Digits ==
    ASSUME NEW n \in Nat, n \div 16777216 < 256
    PROVE  ((n \div 16777216) % 256) * 16777216 + ((n \div 65536) % 256) * 65536
             + ((n \div 256) % 256) * 256 + (n % 256) = n
  <1>1. n = 256 * (n \div 256) + (n % 256)
    BY SMT
  <1>2. n \div 256 = 256 * (n \div 65536) + ((n \div 256) % 256)
    BY SMT
  <1>3. n \div 65536 = 256 * (n \div 16777216) + ((n \div 65536) % 256)
    BY SMT
  <1>4. (n \div 16777216) % 256 = n \div 16777216
    BY SMT
  <1>5. QED
    BY <1>1, <1>2, <1>3, <1>4, SMT

(* The header is First bytes long and made of bytes: no shift in             *)
(* send_message leaves more than 8 bits.                                     *)
LEMMA HeaderBytes ==
    ASSUME NEW i \in Ids, NEW n \in Nat
    PROVE  Len(Header(i, n)) = First /\ \A k \in 1..First : Header(i, n)[k] \in Byte
  <1> DEFINE h == Header(i, n)
  <1>0. /\ h[1] = 63 /\ h[2] = 35 /\ h[3] = 35
        /\ h[4] = i \div 256 /\ h[5] = i % 256
        /\ h[6] = (n \div 16777216) % 256 /\ h[7] = (n \div 65536) % 256
        /\ h[8] = (n \div 256) % 256 /\ h[9] = n % 256
    BY SMT DEF Header
  <1>1. /\ i \div 256 \in Byte /\ i % 256 \in Byte
        /\ (n \div 16777216) % 256 \in Byte /\ (n \div 65536) % 256 \in Byte
        /\ (n \div 256) % 256 \in Byte /\ n % 256 \in Byte
    <2>1. i \in Nat /\ i <= 65535
      BY SMTT(30) DEF Ids
    <2>2. i \div 256 \in 0..255
      BY <2>1, SMT
    <2>3. \A k \in Nat : k % 256 \in 0..255
      BY SMT
    <2>4. n \div 16777216 \in Nat /\ n \div 65536 \in Nat /\ n \div 256 \in Nat
      BY SMT
    <2>5. i % 256 \in 0..255 /\ n % 256 \in 0..255 /\ (n \div 256) % 256 \in 0..255
      BY <2>1, <2>3, <2>4, SMT
    <2>6. (n \div 16777216) % 256 \in 0..255 /\ (n \div 65536) % 256 \in 0..255
      BY <2>3, <2>4, SMT
    <2>7. QED
      BY <2>2, <2>5, <2>6, SMTT(30) DEF Byte
  <1>2. 63 \in Byte /\ 35 \in Byte
    BY SMT DEF Byte
  <1> HIDE DEF Byte
  <1>3. \A k \in 1..9 : h[k] \in Byte
    BY <1>0, <1>1, <1>2, SMT
  <1>4. Len(h) = 9
    BY SMT DEF Header
  <1>5. First = 9
    BY DEF First
  <1>6. Len(h) = First
    BY <1>4, <1>5
  <1>7. \A k \in 1..First : h[k] \in Byte
    BY <1>3, <1>5
  <1>8. QED
    BY <1>6, <1>7

(* read_message takes out of the header what send_message put into it, for   *)
(* every message id and every length that fits its four bytes.               *)
THEOREM HeaderRoundTrip ==
    ASSUME NEW i \in Ids, NEW n \in Nat, Fits(n)
    PROVE  /\ IsFirst(Header(i, n))
           /\ HeaderId(Header(i, n)) = i
           /\ HeaderLength(Header(i, n)) = n
  <1> DEFINE h == Header(i, n)
  <1>1. /\ h[1] = 63 /\ h[2] = 35 /\ h[3] = 35
        /\ h[4] = i \div 256 /\ h[5] = i % 256
        /\ h[6] = (n \div 16777216) % 256 /\ h[7] = (n \div 65536) % 256
        /\ h[8] = (n \div 256) % 256 /\ h[9] = n % 256
    BY SMT DEF Header
  <1>2. HeaderId(h) = i
    BY <1>1, SMT DEF HeaderId, Ids
  <1>3. HeaderLength(h) = n
    BY <1>1, Digits, SMT DEF HeaderLength, Fits
  <1>4. IsFirst(h)
    BY <1>1 DEF IsFirst
  <1>5. QED
    BY <1>2, <1>3, <1>4

-----------------------------------------------------------------------------
(* Data cut in pieces.                                                       *)

LEMMA Dropped ==
    ASSUME NEW S, NEW d \in Seq(S), NEW n \in Nat
    PROVE  /\ Drop(d, n) \in Seq(S)
           /\ Len(Drop(d, n)) = IF n <= Len(d) THEN Len(d) - n ELSE 0
           /\ \A i \in 1..Len(Drop(d, n)) : Drop(d, n)[i] = d[n + i]
  <1>1. Len(d) \in Nat /\ \A i \in (n + 1)..Len(d) : d[i] \in S
    BY LenProperties
  <1> QED
    BY <1>1, SubSeqProperties DEF Drop

LEMMA DropTwice ==
    ASSUME NEW S, NEW d \in Seq(S), NEW m \in Nat, NEW n \in Nat
    PROVE  Drop(Drop(d, m), n) = Drop(d, m + n)
  <1> DEFINE one == Drop(d, m)
             two == Drop(one, n)
             sum == Drop(d, m + n)
  <1>1. /\ one \in Seq(S) /\ Len(one) = IF m <= Len(d) THEN Len(d) - m ELSE 0
        /\ \A i \in 1..Len(one) : one[i] = d[m + i]
    BY Dropped
  <1>2. /\ two \in Seq(S) /\ Len(two) = IF n <= Len(one) THEN Len(one) - n ELSE 0
        /\ \A i \in 1..Len(two) : two[i] = one[n + i]
    BY <1>1, Dropped
  <1>3. /\ sum \in Seq(S) /\ Len(sum) = IF m + n <= Len(d) THEN Len(d) - (m + n) ELSE 0
        /\ \A i \in 1..Len(sum) : sum[i] = d[(m + n) + i]
    BY Dropped
  <1> HIDE DEF one, two, sum
  <1>4. Len(d) \in Nat
    BY LenProperties
  <1>5. Len(two) = Len(sum)
    BY <1>1, <1>2, <1>3, <1>4
  <1>6. \A i \in 1..Len(two) : two[i] = sum[i]
    <2> SUFFICES ASSUME NEW i \in 1..Len(two) PROVE two[i] = sum[i]
      OBVIOUS
    <2>1. n + i \in 1..Len(one) /\ m + (n + i) = (m + n) + i
      BY <1>1, <1>2, <1>4
    <2> QED
      BY <1>1, <1>2, <1>3, <1>5, <2>1
  <1>7. two = sum
    BY <1>2, <1>3, <1>5, <1>6, SeqEqual
  <1> QED
    BY <1>7 DEF one, two, sum

LEMMA Glue ==
    ASSUME NEW S, NEW d \in Seq(S), NEW m \in Nat, NEW n \in Nat, m + n <= Len(d)
    PROVE  SubSeq(d, 1, m) \o SubSeq(Drop(d, m), 1, n) = SubSeq(d, 1, m + n)
  <1> DEFINE rest == Drop(d, m)
             a == SubSeq(d, 1, m)
             b == SubSeq(rest, 1, n)
             c == SubSeq(d, 1, m + n)
  <1>0. Len(d) \in Nat /\ \A i \in 1..Len(d) : d[i] \in S
    BY LenProperties
  <1>1. /\ rest \in Seq(S) /\ Len(rest) = Len(d) - m
        /\ \A i \in 1..Len(rest) : rest[i] = d[m + i]
    BY <1>0, Dropped
  <1>2. /\ a \in Seq(S) /\ Len(a) = m /\ \A i \in 1..m : a[i] = d[i]
    BY <1>0, SubSeqProperties
  <1>3. /\ b \in Seq(S) /\ Len(b) = n /\ \A i \in 1..n : b[i] = rest[i]
    <2> HIDE DEF rest
    <2>1. \A i \in 1..n : rest[i] \in S
      BY <1>0, <1>1
    <2> QED
      BY <2>1, SubSeqProperties
  <1>4. /\ c \in Seq(S) /\ Len(c) = m + n /\ \A i \in 1..(m + n) : c[i] = d[i]
    BY <1>0, SubSeqProperties
  <1> HIDE DEF a, b, c, rest
  <1>5. /\ a \o b \in Seq(S) /\ Len(a \o b) = m + n
        /\ \A i \in 1..(m + n) : (a \o b)[i] = IF i <= m THEN a[i] ELSE b[i - m]
    BY <1>2, <1>3, ConcatProperties, ZenonT(40)
  <1>6. \A i \in 1..(m + n) : (a \o b)[i] = c[i]
    <2> SUFFICES ASSUME NEW i \in 1..(m + n) PROVE (a \o b)[i] = c[i]
      OBVIOUS
    <2>1. CASE i <= m
      BY <1>2, <1>4, <1>5, <2>1
    <2>2. CASE i > m
      <3>1. i - m \in 1..n /\ m + (i - m) = i
        BY <2>2
      <3>2. (a \o b)[i] = rest[i - m] /\ i - m \in 1..Len(rest)
        BY <1>0, <1>1, <1>3, <1>5, <2>2, <3>1
      <3>3. rest[i - m] = d[i]
        BY <1>1, <3>1, <3>2
      <3> QED
        BY <1>4, <3>2, <3>3
    <2>3. i <= m \/ i > m
      OBVIOUS
    <2> QED
      BY <2>1, <2>2, <2>3
  <1>7. a \o b = c
    BY <1>4, <1>5, <1>6, SeqEqual
  <1> QED
    BY <1>7 DEF a, b, c, rest

-----------------------------------------------------------------------------
(* Packets.                                                                  *)

Packets == [1..PacketSize -> Byte]
Stray   == [i \in 1..PacketSize |-> 0]

FirstPacket(m) == Fill(Header(m.id, Len(m.body)), m.body, First)
RestPacket(d)  == Fill(<<63>>, d, Rest)

(* What is left of d after the packet that starts with it.                   *)
After(d, offset) == Drop(d, Least(Len(d), PacketSize - offset))

(* What is left of messages after some packets.                              *)
Start(k) == PacketSize - First + k * (PacketSize - Rest)
Cuts     == {Drop(m.body, Start(k)) : m \in Messages, k \in Nat}

LEMMA MessageIs ==
    ASSUME NEW m \in Messages
    PROVE  /\ m.id \in Ids /\ m.body \in Seq(Byte) /\ Len(m.body) \in Nat
           /\ Fits(Len(m.body))
           /\ m = [id |-> m.id, body |-> m.body]
  <1>1. m \in [id : Ids, body : Seq(Byte)] /\ Fits(Len(m.body))
    BY FramingAssumption
  <1>2. m.body \in Seq(Byte)
    BY <1>1
  <1>3. Len(m.body) \in Nat
    BY <1>2, LenProperties
  <1> QED
    BY <1>1, <1>2, <1>3

LEMMA Filled ==
    ASSUME NEW old, NEW d \in Seq(Byte), NEW offset \in {First, Rest},
           \A i \in 1..offset : old[i] \in Byte
    PROVE  /\ Fill(old, d, offset) \in Packets
           /\ \A i \in 1..offset : Fill(old, d, offset)[i] = old[i]
           /\ \A i \in 1..Least(PacketSize - offset, Len(d)) : Fill(old, d, offset)[offset + i] = d[i]
           /\ Data(Fill(old, d, offset), offset, Least(PacketSize - offset, Len(d)))
                = SubSeq(d, 1, Least(PacketSize - offset, Len(d)))
  <1> DEFINE p == Fill(old, d, offset)
             n == Least(PacketSize - offset, Len(d))
             a == Data(p, offset, n)
             b == SubSeq(d, 1, n)
  <1>1. offset \in Nat /\ PacketSize \in Nat /\ offset < PacketSize
    BY FramingAssumption DEF First, Rest
  <1>2. Len(d) \in Nat /\ \A i \in 1..Len(d) : d[i] \in Byte
    BY LenProperties
  <1>3. n \in Nat /\ n <= Len(d) /\ offset + n <= PacketSize
    BY <1>1, <1>2 DEF Least
  <1>4. \A i \in 1..PacketSize : p[i] = IF i <= offset THEN old[i]
                                        ELSE IF i - offset <= Len(d) THEN d[i - offset] ELSE 0
    BY DEF Fill
  <1>5. DOMAIN p = 1..PacketSize /\ p = [i \in 1..PacketSize |-> p[i]]
    BY DEF Fill
  <1> HIDE DEF p, n
  <1>6. \A i \in 1..PacketSize : p[i] \in Byte
    <2> SUFFICES ASSUME NEW i \in 1..PacketSize PROVE p[i] \in Byte
      OBVIOUS
    <2>1. CASE i <= offset
      BY <1>1, <1>4, <2>1
    <2>2. CASE i > offset /\ i - offset <= Len(d)
      <3>1. i - offset \in 1..Len(d) /\ ~(i <= offset)
        BY <1>1, <1>2, <2>2
      <3> QED
        BY <1>2, <1>4, <3>1
    <2>3. CASE i > offset /\ ~(i - offset <= Len(d))
      <3>1. ~(i <= offset) /\ 0 \in Byte
        BY <1>1, <2>3 DEF Byte
      <3> QED
        BY <1>4, <2>3, <3>1
    <2>4. i <= offset \/ i > offset
      BY <1>1
    <2> QED
      BY <2>1, <2>2, <2>3, <2>4
  <1>7. p \in Packets
    BY <1>5, <1>6 DEF Packets
  <1>8. \A i \in 1..offset : p[i] = old[i]
    BY <1>1, <1>4
  <1>9. \A i \in 1..n : p[offset + i] = d[i]
    <2> SUFFICES ASSUME NEW i \in 1..n PROVE p[offset + i] = d[i]
      OBVIOUS
    <2>1. /\ offset + i \in 1..PacketSize /\ ~(offset + i <= offset)
          /\ (offset + i) - offset = i /\ i <= Len(d)
      BY <1>1, <1>2, <1>3
    <2> QED
      BY <1>4, <2>1
  <1>10. /\ b \in Seq(Byte) /\ Len(b) = n /\ \A i \in 1..n : b[i] = d[i]
    BY <1>2, <1>3, SubSeqProperties
  <1>11. /\ a \in Seq(Byte) /\ Len(a) = n /\ \A i \in 1..n : a[i] = p[offset + i]
    <2>1. \A i \in (offset + 1)..(offset + n) : p[i] \in Byte
      BY <1>1, <1>3, <1>6
    <2>2. offset + 1 \in Int /\ offset + n \in Int
      BY <1>1, <1>3
    <2>3. /\ a \in Seq(Byte)
          /\ Len(a) = IF offset + 1 <= offset + n THEN (offset + n) - (offset + 1) + 1 ELSE 0
          /\ \A i \in 1..((offset + n) - (offset + 1) + 1) : a[i] = p[(offset + 1) + i - 1]
      BY <2>1, <2>2, SubSeqProperties DEF Data
    <2>4. (offset + n) - (offset + 1) + 1 = n /\ \A i \in 1..n : (offset + 1) + i - 1 = offset + i
      BY <1>1, <1>3
    <2> QED
      BY <1>1, <1>3, <2>3, <2>4
  <1> HIDE DEF a, b
  <1>12. a = b
    BY <1>9, <1>10, <1>11, SeqEqual
  <1> QED
    BY <1>7, <1>8, <1>9, <1>12 DEF a, b, p, n

LEMMA FirstIs ==
    ASSUME NEW m \in Messages
    PROVE  /\ FirstPacket(m) \in Packets
           /\ IsFirst(FirstPacket(m)) /\ IsRest(FirstPacket(m))
           /\ HeaderId(FirstPacket(m)) = m.id
           /\ HeaderLength(FirstPacket(m)) = Len(m.body)
  <1> DEFINE h == Header(m.id, Len(m.body))
             p == FirstPacket(m)
  <1>1. \A i \in 1..First : h[i] \in Byte
    BY MessageIs, HeaderBytes
  <1>2. IsFirst(h) /\ HeaderId(h) = m.id /\ HeaderLength(h) = Len(m.body)
    BY MessageIs, HeaderRoundTrip
  <1> HIDE DEF h
  <1>3. p \in Packets /\ \A i \in 1..First : p[i] = h[i]
    BY <1>1, MessageIs, Filled DEF FirstPacket, h
  <1> HIDE DEF p
  <1>4. /\ p[1] = h[1] /\ p[2] = h[2] /\ p[3] = h[3] /\ p[4] = h[4] /\ p[5] = h[5]
        /\ p[6] = h[6] /\ p[7] = h[7] /\ p[8] = h[8] /\ p[9] = h[9]
    BY <1>3 DEF First
  <1>5. IsFirst(p) /\ IsRest(p) /\ HeaderId(p) = m.id /\ HeaderLength(p) = Len(m.body)
    BY <1>2, <1>4 DEF IsFirst, IsRest, HeaderId, HeaderLength
  <1> QED
    BY <1>3, <1>5 DEF p

LEMMA StrayIs == Stray \in Packets /\ ~IsFirst(Stray) /\ ~IsRest(Stray)
  <1>1. 1 \in 1..PacketSize /\ 0 \in Byte
    BY FramingAssumption DEF First, Byte
  <1>2. Stray \in Packets /\ Stray[1] = 0
    BY <1>1 DEF Stray, Packets
  <1> QED
    BY <1>2 DEF IsFirst, IsRest

LEMMA StartIs ==
    ASSUME NEW k \in Nat
    PROVE  /\ Start(k) \in Nat /\ Start(k) >= k /\ Start(k) >= Start(0)
           /\ Start(0) = PacketSize - First
           /\ Start(k + 1) = Start(k) + (PacketSize - Rest)
  <1> DEFINE r == PacketSize - Rest
  <1>1. PacketSize \in Nat /\ PacketSize > 9 /\ First = 9 /\ Rest = 1
    BY FramingAssumption DEF First, Rest
  <1>2. r \in Nat /\ r >= 9
    BY <1>1
  <1> HIDE DEF r
  <1>3. k * r \in Nat /\ k * r >= k /\ (k + 1) * r = k * r + r /\ 0 * r = 0
    BY <1>2
  <1> QED
    BY <1>1, <1>2, <1>3 DEF Start, r

(* What is left of a message after a packet is a cut of it again.            *)
LEMMA AfterIs ==
    ASSUME NEW m \in Messages, NEW k \in Nat
    PROVE  /\ After(m.body, First) = Drop(m.body, Start(0))
           /\ After(Drop(m.body, Start(k)), Rest) = Drop(m.body, Start(k + 1))
           /\ Drop(m.body, Start(k)) \in Seq(Byte)
           /\ Len(Drop(m.body, Start(k)))
                = IF Start(k) <= Len(m.body) THEN Len(m.body) - Start(k) ELSE 0
  <1> DEFINE d == Drop(m.body, Start(k))
  <1>1. PacketSize \in Nat /\ PacketSize > 9 /\ First = 9 /\ Rest = 1
    BY FramingAssumption DEF First, Rest
  <1>2. m.body \in Seq(Byte) /\ Len(m.body) \in Nat
    BY MessageIs
  <1>3. /\ Start(k) \in Nat /\ Start(k + 1) = Start(k) + (PacketSize - Rest)
        /\ Start(0) = PacketSize - First
    BY StartIs
  <1>4. d \in Seq(Byte) /\ Len(d) = IF Start(k) <= Len(m.body) THEN Len(m.body) - Start(k) ELSE 0
    BY <1>2, <1>3, Dropped
  <1>5. Len(d) \in Nat
    BY <1>4, LenProperties
  <1> HIDE DEF d
  <1>6. After(m.body, First) = Drop(m.body, Start(0))
    <2>1. CASE PacketSize - First <= Len(m.body)
      BY <1>1, <1>2, <1>3, <2>1 DEF After, Least
    <2>2. CASE ~(PacketSize - First <= Len(m.body))
      <3>1. After(m.body, First) = Drop(m.body, Len(m.body))
        BY <1>1, <1>2, <2>2 DEF After, Least
      <3>2. Drop(m.body, Len(m.body)) = <<>> /\ Drop(m.body, Start(0)) = <<>>
        BY <1>1, <1>2, <1>3, <2>2, SubSeqEmpty, SMTT(30) DEF Drop
      <3> QED
        BY <3>1, <3>2
    <2> QED
      BY <2>1, <2>2
  <1>7. After(d, Rest) = Drop(m.body, Start(k + 1))
    <2>1. CASE PacketSize - Rest <= Len(d)
      <3>1. After(d, Rest) = Drop(d, PacketSize - Rest)
        BY <1>1, <1>5, <2>1 DEF After, Least
      <3>2. PacketSize - Rest \in Nat
        BY <1>1
      <3> QED
        BY <1>2, <1>3, <3>1, <3>2, DropTwice DEF d
    <2>2. CASE ~(PacketSize - Rest <= Len(d))
      <3>1. After(d, Rest) = Drop(d, Len(d))
        BY <1>1, <1>5, <2>2 DEF After, Least
      <3>2. Drop(d, Len(d)) = <<>>
        BY <1>5, SubSeqEmpty DEF Drop
      <3>3. Start(k + 1) > Len(m.body)
        BY <1>1, <1>2, <1>3, <1>4, <2>2
      <3>4. Drop(m.body, Start(k + 1)) = <<>>
        BY <1>1, <1>2, <1>3, <3>3, SubSeqEmpty DEF Drop
      <3> QED
        BY <3>1, <3>2, <3>4
    <2> QED
      BY <2>1, <2>2
  <1> QED
    BY <1>4, <1>6, <1>7 DEF d

(* A part of a message that starts a packet is a cut of it, and Unambiguous  *)
(* is about all of them.                                                     *)
LEMMA CutIs ==
    ASSUME Unambiguous, NEW d \in Cuts
    PROVE  /\ d \in Seq(Byte)
           /\ ~(Len(d) > 1 /\ d[1] = 35 /\ d[2] = 35)
           /\ After(d, Rest) \in Cuts
  <1>1. PICK m \in Messages, k \in Nat : d = Drop(m.body, Start(k))
    BY DEF Cuts
  <1>2. Len(m.body) \in Nat
    BY MessageIs
  <1>3. Start(k) \in Nat /\ Start(k) >= k
    BY StartIs
  <1>4. /\ d \in Seq(Byte)
        /\ Len(d) = IF Start(k) <= Len(m.body) THEN Len(m.body) - Start(k) ELSE 0
        /\ After(d, Rest) = Drop(m.body, Start(k + 1))
    BY <1>1, AfterIs
  <1>5. ASSUME Len(d) > 1 /\ d[1] = 35 /\ d[2] = 35 PROVE FALSE
    <2>1. k \in 0..Len(m.body)
      BY <1>2, <1>3, <1>4, <1>5
    <2>2. d = Drop(m.body, PacketSize - First + k * (PacketSize - Rest))
      BY <1>1 DEF Start
    <2> QED
      BY <1>5, <2>1, <2>2 DEF Unambiguous
  <1>6. After(d, Rest) \in Cuts
    BY <1>4 DEF Cuts
  <1> QED
    BY <1>4, <1>5, <1>6

LEMMA RestIs ==
    ASSUME Unambiguous, NEW d \in Cuts, d # <<>>
    PROVE  RestPacket(d) \in Packets /\ IsRest(RestPacket(d)) /\ ~IsFirst(RestPacket(d))
  <1> DEFINE p == RestPacket(d)
  <1>1. d \in Seq(Byte) /\ ~(Len(d) > 1 /\ d[1] = 35 /\ d[2] = 35)
    BY CutIs
  <1>2. /\ \A i \in 1..Rest : <<63>>[i] \in Byte
        /\ <<63>>[1] = 63
    BY DEF Rest, Byte
  <1>3. /\ p \in Packets /\ \A i \in 1..Rest : p[i] = <<63>>[i]
        /\ \A i \in 1..Least(PacketSize - Rest, Len(d)) : p[Rest + i] = d[i]
    BY <1>1, <1>2, Filled DEF RestPacket
  <1>4. p[1] = 63
    BY <1>2, <1>3 DEF Rest
  <1>5. Len(d) \in Nat /\ Len(d) # 0
    BY <1>1, EmptySeq
  <1>6. PacketSize \in Nat /\ PacketSize > 9
    BY FramingAssumption DEF First
  <1>7. CASE Len(d) = 1
    <2>1. p[3] = 0
      <3>1. p[3] = IF 3 <= 1 THEN <<63>>[3] ELSE IF 3 - 1 <= Len(d) THEN d[3 - 1] ELSE 0
        BY <1>6 DEF RestPacket, Fill, Rest
      <3> QED
        BY <1>7, <3>1
    <2> QED
      BY <1>3, <1>4, <2>1 DEF IsFirst, IsRest
  <1>8. CASE Len(d) > 1
    <2>1. 1 \in 1..Least(PacketSize - Rest, Len(d)) /\ 2 \in 1..Least(PacketSize - Rest, Len(d))
      BY <1>5, <1>6, <1>8 DEF Least, Rest
    <2>2. p[Rest + 1] = d[1] /\ p[Rest + 2] = d[2]
      BY <1>3, <2>1
    <2>3. p[2] = d[1] /\ p[3] = d[2]
      BY <2>2 DEF Rest
    <2> QED
      BY <1>1, <1>3, <1>4, <1>8, <2>3 DEF IsFirst, IsRest
  <1> QED
    BY <1>5, <1>7, <1>8

-----------------------------------------------------------------------------
(* The wire.                                                                 *)

(* A packet on the wire, between two places of the stream: what was left of  *)
(* a message there (l, l2), and how many messages of the channel were still  *)
(* to start (a, a2).                                                         *)
Carries(p, l, l2, a, a2, c) ==
    \/ p = Stray /\ l2 = l /\ a2 = a
    \/ /\ l = <<>> /\ a = a2 + 1
       /\ p = FirstPacket(c[Len(c) - a2])
       /\ l2 = After(c[Len(c) - a2].body, First)
    \/ /\ l # <<>> /\ a2 = a
       /\ p = RestPacket(l) /\ l2 = After(l, Rest)

(* The packets w carry what is left at the first place, and then messages of *)
(* the channel c, in order.                                                  *)
Chain(left, after, w, c) ==
    /\ left \in [1..(Len(w) + 1) -> Cuts \union {<<>>}]
    /\ after \in [1..(Len(w) + 1) -> 0..Len(c)]
    /\ \A i \in 1..Len(w) : Carries(w[i], left[i], left[i + 1], after[i], after[i + 1], c)
    /\ \A i, j \in 1..(Len(w) + 1) : i <= j => after[j] <= after[i]

LEMMA ChainRead ==
    ASSUME NEW w \in Seq(Packets), NEW c \in Seq(Messages), w # <<>>,
           NEW left, NEW after, Chain(left, after, w, c)
    PROVE  /\ Tail(w) \in Seq(Packets) /\ Len(Tail(w)) = Len(w) - 1
           /\ Head(w) = w[1]
           /\ Carries(w[1], left[1], left[2], after[1], after[2], c)
           /\ after[2] <= after[1] /\ after[2] \in Nat /\ after[1] \in Nat
           /\ \E l, a : /\ Chain(l, a, Tail(w), c)
                        /\ l[1] = left[2] /\ l[Len(Tail(w)) + 1] = left[Len(w) + 1]
                        /\ a[1] = after[2] /\ a[Len(Tail(w)) + 1] = after[Len(w) + 1]
  <1> DEFINE l == [i \in 1..Len(w) |-> left[i + 1]]
             a == [i \in 1..Len(w) |-> after[i + 1]]
             t == Tail(w)
  <1>1. Len(w) \in Nat /\ Len(w) # 0 /\ Len(c) \in Nat
    BY EmptySeq, LenProperties
  <1>2. /\ t \in Seq(Packets) /\ Len(t) = Len(w) - 1 /\ Head(w) = w[1]
        /\ \A i \in 1..Len(t) : t[i] = w[i + 1]
    BY HeadTailProperties
  <1>3. 1 \in 1..Len(w) /\ 1 \in 1..(Len(w) + 1) /\ 2 \in 1..(Len(w) + 1) /\ 1 + 1 = 2
    BY <1>1
  <1>4. /\ Carries(w[1], left[1], left[2], after[1], after[2], c)
        /\ after[2] <= after[1] /\ after[2] \in Nat /\ after[1] \in Nat
    BY <1>1, <1>3 DEF Chain
  <1> HIDE DEF t
  <1>5. Len(t) + 1 = Len(w) /\ \A i \in 1..Len(w) : i + 1 \in 1..(Len(w) + 1)
    BY <1>1, <1>2
  <1>6. l \in [1..(Len(t) + 1) -> Cuts \union {<<>>}] /\ a \in [1..(Len(t) + 1) -> 0..Len(c)]
    BY <1>5 DEF Chain
  <1>7. ASSUME NEW i \in 1..Len(t)
        PROVE  Carries(t[i], l[i], l[i + 1], a[i], a[i + 1], c)
    <2>1. i \in 1..Len(w) /\ i + 1 \in 1..Len(w)
      BY <1>1, <1>5
    <2>2. l[i] = left[i + 1] /\ l[i + 1] = left[(i + 1) + 1]
      BY <2>1
    <2>3. a[i] = after[i + 1] /\ a[i + 1] = after[(i + 1) + 1]
      BY <2>1
    <2> HIDE DEF l, a
    <2>4. Carries(w[i + 1], left[i + 1], left[(i + 1) + 1], after[i + 1], after[(i + 1) + 1], c)
      BY <2>1 DEF Chain
    <2> QED
      BY <1>2, <2>2, <2>3, <2>4
  <1>8. ASSUME NEW i \in 1..(Len(t) + 1), NEW j \in 1..(Len(t) + 1), i <= j
        PROVE  a[j] <= a[i]
    <2>1. i \in 1..Len(w) /\ j \in 1..Len(w) /\ i + 1 <= j + 1
      BY <1>5, <1>8
    <2>2. after[j + 1] <= after[i + 1]
      BY <1>5, <2>1 DEF Chain
    <2> QED
      BY <2>1, <2>2
  <1>10. /\ l[1] = left[2] /\ l[Len(t) + 1] = left[Len(w) + 1]
         /\ a[1] = after[2] /\ a[Len(t) + 1] = after[Len(w) + 1]
    <2>1. Len(w) \in 1..Len(w)
      BY <1>1
    <2> QED
      BY <1>3, <1>5, <2>1
  <1> HIDE DEF l, a
  <1>9. Chain(l, a, t, c)
    BY <1>6, <1>7, <1>8 DEF Chain
  <1> QED
    BY <1>2, <1>4, <1>9, <1>10 DEF t

LEMMA ChainTail ==
    ASSUME NEW w \in Seq(Packets), NEW c \in Seq(Messages), c # <<>>,
           NEW left, NEW after, Chain(left, after, w, c), after[1] <= Len(c) - 1
    PROVE  /\ Tail(c) \in Seq(Messages) /\ Len(Tail(c)) = Len(c) - 1
           /\ Chain(left, after, w, Tail(c))
  <1> DEFINE t == Tail(c)
  <1>1. Len(w) \in Nat /\ Len(c) \in Nat /\ Len(c) # 0
    BY EmptySeq, LenProperties
  <1>2. /\ t \in Seq(Messages) /\ Len(t) = Len(c) - 1
        /\ \A i \in 1..Len(t) : t[i] = c[i + 1]
    BY HeadTailProperties
  <1> HIDE DEF t
  <1>3. \A i \in 1..(Len(w) + 1) : after[i] \in 0..Len(c) /\ after[i] <= after[1]
    <2>1. 1 \in 1..(Len(w) + 1) /\ \A i \in 1..(Len(w) + 1) : 1 <= i
      BY <1>1
    <2> QED
      BY <2>1 DEF Chain
  <1>4. \A i \in 1..(Len(w) + 1) : after[i] \in 0..Len(t)
    <2>1. after[1] \in 0..Len(c)
      BY <1>1, <1>3
    <2> QED
      BY <1>1, <1>2, <1>3, <2>1
  <1>5. after \in [1..(Len(w) + 1) -> 0..Len(t)]
    BY <1>4 DEF Chain
  <1>6. ASSUME NEW i \in 1..Len(w)
        PROVE  Carries(w[i], left[i], left[i + 1], after[i], after[i + 1], t)
    <2>1. Carries(w[i], left[i], left[i + 1], after[i], after[i + 1], c)
      BY DEF Chain
    <2>2. i \in 1..(Len(w) + 1) /\ i + 1 \in 1..(Len(w) + 1)
      BY <1>1
    <2>3. after[i] \in 0..Len(t) /\ after[i + 1] \in 0..Len(t)
      BY <1>4, <2>2
    <2>4. CASE after[i] = after[i + 1] + 1
      <3>1. Len(t) - after[i + 1] \in 1..Len(t)
        BY <1>1, <1>2, <2>3, <2>4
      <3>2. (Len(t) - after[i + 1]) + 1 = Len(c) - after[i + 1]
        BY <1>1, <1>2, <2>3
      <3>3. t[Len(t) - after[i + 1]] = c[Len(c) - after[i + 1]]
        BY <1>2, <3>1, <3>2
      <3> QED
        BY <2>1, <3>3 DEF Carries
    <2>5. CASE after[i] # after[i + 1] + 1
      BY <2>1, <2>5 DEF Carries
    <2> QED
      BY <2>4, <2>5
  <1>7. Chain(left, after, w, t)
    BY <1>5, <1>6 DEF Chain
  <1> QED
    BY <1>2, <1>7 DEF t

LEMMA ChainSend ==
    ASSUME NEW w \in Seq(Packets), NEW c \in Seq(Messages), NEW m \in Messages,
           NEW left, NEW after, Chain(left, after, w, c)
    PROVE  \E a : /\ Chain(left, a, w, Append(c, m))
                  /\ a[1] = after[1] + 1 /\ a[Len(w) + 1] = after[Len(w) + 1] + 1
  <1> DEFINE t == Append(c, m)
             a == [i \in 1..(Len(w) + 1) |-> after[i] + 1]
  <1>1. Len(w) \in Nat /\ Len(c) \in Nat
    BY LenProperties
  <1>2. /\ t \in Seq(Messages) /\ Len(t) = Len(c) + 1
        /\ \A i \in 1..Len(c) : t[i] = c[i]
    BY AppendProperties
  <1> HIDE DEF t
  <1>3. \A i \in 1..(Len(w) + 1) : after[i] \in 0..Len(c) /\ a[i] = after[i] + 1
    BY DEF Chain
  <1>4. a \in [1..(Len(w) + 1) -> 0..Len(t)]
    BY <1>1, <1>2, <1>3
  <1> HIDE DEF a
  <1>5. ASSUME NEW i \in 1..Len(w)
        PROVE  Carries(w[i], left[i], left[i + 1], a[i], a[i + 1], t)
    <2>1. Carries(w[i], left[i], left[i + 1], after[i], after[i + 1], c)
      BY DEF Chain
    <2>2. i \in 1..(Len(w) + 1) /\ i + 1 \in 1..(Len(w) + 1)
      BY <1>1
    <2>3. /\ after[i] \in 0..Len(c) /\ after[i + 1] \in 0..Len(c)
          /\ a[i] = after[i] + 1 /\ a[i + 1] = after[i + 1] + 1
      BY <1>3, <2>2
    <2>4. CASE after[i] = after[i + 1] + 1
      <3>0. /\ after[i] \in Nat /\ after[i] <= Len(c)
            /\ after[i + 1] \in Nat /\ after[i + 1] <= Len(c)
        BY <1>1, <2>3
      <3>1. Len(t) - a[i + 1] = Len(c) - after[i + 1] /\ Len(c) - after[i + 1] \in 1..Len(c)
        <4>1. \A x, n \in Nat : (n + 1) - (x + 1) = n - x /\ (x + 1 <= n => n - x \in 1..n)
          OBVIOUS
        <4>2. after[i + 1] + 1 <= Len(c)
          BY <2>4, <3>0
        <4>3. /\ (Len(c) + 1) - (after[i + 1] + 1) = Len(c) - after[i + 1]
              /\ Len(c) - after[i + 1] \in 1..Len(c)
          BY <1>1, <3>0, <4>1, <4>2
        <4>4. Len(t) - a[i + 1] = (Len(c) + 1) - (after[i + 1] + 1)
          BY <1>2, <2>3
        <4> QED
          BY <4>3, <4>4
      <3>2. t[Len(t) - a[i + 1]] = c[Len(c) - after[i + 1]]
        BY <1>2, <3>1
      <3>3. a[i] = a[i + 1] + 1 /\ a[i] # a[i + 1] /\ after[i] # after[i + 1]
        BY <2>3, <2>4
      <3> QED
        BY <2>1, <3>2, <3>3 DEF Carries
    <2>5. CASE after[i] # after[i + 1] + 1
      <3>1. after[i + 1] = after[i]
        BY <2>1, <2>5 DEF Carries
      <3> QED
        BY <2>1, <2>3, <2>5, <3>1 DEF Carries
    <2> QED
      BY <2>4, <2>5
  <1>6. \A i, j \in 1..(Len(w) + 1) : i <= j => a[j] <= a[i]
    BY <1>1, <1>3 DEF Chain
  <1>7. Chain(left, a, w, t)
    BY <1>4, <1>5, <1>6 DEF Chain
  <1>8. a[1] = after[1] + 1 /\ a[Len(w) + 1] = after[Len(w) + 1] + 1
    BY <1>1, <1>3
  <1> QED
    BY <1>7, <1>8 DEF t

LEMMA ChainWrite ==
    ASSUME NEW w \in Seq(Packets), NEW c \in Seq(Messages), NEW p \in Packets,
           NEW left, NEW after, Chain(left, after, w, c),
           NEW l2 \in Cuts \union {<<>>},
           Carries(p, left[Len(w) + 1], l2, after[Len(w) + 1], 0, c)
    PROVE  \E l, a : /\ Chain(l, a, Append(w, p), c)
                     /\ l[1] = left[1] /\ l[Len(Append(w, p)) + 1] = l2
                     /\ a[1] = after[1] /\ a[Len(Append(w, p)) + 1] = 0
  <1> DEFINE l == [i \in 1..(Len(w) + 2) |-> IF i <= Len(w) + 1 THEN left[i] ELSE l2]
             a == [i \in 1..(Len(w) + 2) |-> IF i <= Len(w) + 1 THEN after[i] ELSE 0]
             t == Append(w, p)
  <1>1. Len(w) \in Nat /\ Len(c) \in Nat
    BY LenProperties
  <1>2. /\ t \in Seq(Packets) /\ Len(t) = Len(w) + 1 /\ t[Len(w) + 1] = p
        /\ \A i \in 1..Len(w) : t[i] = w[i]
    BY AppendProperties
  <1> HIDE DEF t
  <1>3. /\ \A i \in 1..(Len(w) + 1) : after[i] \in 0..Len(c) /\ left[i] \in Cuts \union {<<>>}
        /\ Len(w) + 1 \in 1..(Len(w) + 1) /\ Len(t) + 1 = Len(w) + 2
    <2>1. Len(w) + 1 \in 1..(Len(w) + 1) /\ Len(t) + 1 = Len(w) + 2
      BY <1>1, <1>2
    <2>2. \A i \in 1..(Len(w) + 1) : after[i] \in 0..Len(c) /\ left[i] \in Cuts \union {<<>>}
      BY DEF Chain
    <2> QED
      BY <2>1, <2>2
  <1>4. /\ \A i \in 1..(Len(w) + 1) : l[i] = left[i] /\ a[i] = after[i]
        /\ l[Len(w) + 2] = l2 /\ a[Len(w) + 2] = 0
    BY <1>1
  <1>5. 0 \in 0..Len(c)
    BY <1>1
  <1>6. l \in [1..(Len(t) + 1) -> Cuts \union {<<>>}] /\ a \in [1..(Len(t) + 1) -> 0..Len(c)]
    <2>1. \A i \in 1..(Len(w) + 2) : i <= Len(w) + 1 => i \in 1..(Len(w) + 1)
      BY <1>1
    <2> QED
      BY <1>3, <1>5, <2>1
  <1> HIDE DEF l, a
  <1>7. ASSUME NEW i \in 1..Len(t)
        PROVE  Carries(t[i], l[i], l[i + 1], a[i], a[i + 1], c)
    <2>1. CASE i = Len(w) + 1
      <3>1. i + 1 = Len(w) + 2
        BY <1>1, <2>1
      <3> QED
        BY <1>2, <1>3, <1>4, <2>1, <3>1
    <2>2. CASE i # Len(w) + 1
      <3>1. i \in 1..Len(w) /\ i \in 1..(Len(w) + 1) /\ i + 1 \in 1..(Len(w) + 1)
        BY <1>1, <1>2, <2>2
      <3>2. Carries(w[i], left[i], left[i + 1], after[i], after[i + 1], c)
        BY <3>1 DEF Chain
      <3> QED
        BY <1>2, <1>4, <3>1, <3>2
    <2> QED
      BY <2>1, <2>2
  <1>8. ASSUME NEW i \in 1..(Len(t) + 1), NEW j \in 1..(Len(t) + 1), i <= j
        PROVE  a[j] <= a[i]
    <2>1. CASE j = Len(w) + 2
      <3>1. CASE i = Len(w) + 2
        BY <1>4, <2>1, <3>1
      <3>2. CASE i # Len(w) + 2
        <4>1. i \in 1..(Len(w) + 1) /\ i <= Len(w) + 1
          BY <1>1, <1>2, <3>2
        <4>2. after[Len(w) + 1] <= after[i]
          BY <1>3, <4>1 DEF Chain
        <4>3. after[i] \in Nat /\ after[Len(w) + 1] \in Nat
          BY <1>1, <1>3, <4>1
        <4> QED
          BY <1>4, <2>1, <4>1, <4>2, <4>3
      <3> QED
        BY <3>1, <3>2
    <2>2. CASE j # Len(w) + 2
      <3>1. i \in 1..(Len(w) + 1) /\ j \in 1..(Len(w) + 1)
        <4>1. i \in Nat /\ j \in Nat /\ 1 <= i /\ 1 <= j /\ j <= Len(w) + 2
          BY <1>1, <1>2
        <4> QED
          BY <1>1, <1>8, <2>2, <4>1
      <3> QED
        BY <1>4, <1>8, <3>1 DEF Chain
    <2> QED
      BY <2>1, <2>2
  <1>9. Chain(l, a, t, c)
    BY <1>6, <1>7, <1>8 DEF Chain
  <1>10. l[1] = left[1] /\ a[1] = after[1]
    BY <1>1, <1>4
  <1> QED
    BY <1>3, <1>4, <1>9, <1>10 DEF t

-----------------------------------------------------------------------------
(* What holds between the parts: the reader has the first bytes of the       *)
(* message at the head of the channel, and the wire carries the rest of it   *)
(* and the messages that come after it, up to what the writer has not yet    *)
(* written.                                                                  *)
Types ==
    /\ bytes \in Seq(Byte) /\ wire \in Seq(Packets)
    /\ channel \in Seq(Messages) /\ reading \in BOOLEAN

WriterOK == bytes # <<>> => buffer[1] = 63

ReaderOK ==
    reading =>
        /\ channel # <<>>
        /\ id = channel[1].id
        /\ remaining \in 1..Len(channel[1].body)
        /\ unpacked = SubSeq(channel[1].body, 1, Len(channel[1].body) - remaining)

Flow(left, after) ==
    /\ Chain(left, after, wire, channel)
    /\ left[Len(wire) + 1] = bytes /\ after[Len(wire) + 1] = 0
    /\ IF reading
       THEN /\ after[1] = Len(channel) - 1
            /\ left[1] = Drop(channel[1].body, Len(channel[1].body) - remaining)
       ELSE after[1] = Len(channel)

Inv == Types /\ WriterOK /\ ReaderOK /\ \E left, after : Flow(left, after)

LEMMA InvInit ==
    ASSUME Init
    PROVE  Inv
  <1> USE DEF Init
  <1>1. Types /\ WriterOK /\ ReaderOK
    <2>1. <<>> \in Seq(Byte) /\ <<>> \in Seq(Packets) /\ <<>> \in Seq(Messages)
      BY EmptySeq
    <2> QED
      BY <2>1 DEF Types, WriterOK, ReaderOK
  <1> DEFINE left == [i \in 1..1 |-> <<>>]
             after == [i \in 1..1 |-> 0]
  <1>2. wire = <<>> /\ channel = <<>> /\ bytes = <<>> /\ reading = FALSE
    OBVIOUS
  <1>3. Chain(left, after, <<>>, <<>>)
    BY DEF Chain
  <1>4. Flow(left, after)
    BY <1>2, <1>3 DEF Flow
  <1> QED
    BY <1>1, <1>4 DEF Inv

(* One step of the reader along a message.                                   *)
LEMMA Unpacked ==
    ASSUME NEW m \in Messages, NEW k \in 0..Len(m.body), NEW offset \in {First, Rest},
           NEW old, \A i \in 1..offset : old[i] \in Byte, NEW so_far,
           so_far = SubSeq(m.body, 1, k),
           Unpack(so_far, Fill(old, Drop(m.body, k), offset), offset, Len(m.body) - k, m.id)
    PROVE  \E n \in k..Len(m.body) :
              /\ remaining' = Len(m.body) - n /\ unpacked' = SubSeq(m.body, 1, n)
              /\ reading' = (n # Len(m.body))
              /\ After(Drop(m.body, k), offset) = Drop(m.body, n)
              /\ IF n = Len(m.body)
                 THEN received' = m /\ channel' = IF channel = <<>> THEN <<>> ELSE Tail(channel)
                 ELSE received' = received /\ channel' = channel
  <1> DEFINE d == Drop(m.body, k)
             p == Fill(old, d, offset)
             left == Len(m.body) - k
             n == Least(PacketSize - offset, left)
             all == so_far \o Data(p, offset, n)
  <1>1. m.body \in Seq(Byte) /\ Len(m.body) \in Nat /\ m = [id |-> m.id, body |-> m.body]
    BY MessageIs
  <1>2. k \in Nat /\ k <= Len(m.body)
    BY <1>1
  <1>3. d \in Seq(Byte) /\ Len(d) = left
    BY <1>1, <1>2, Dropped
  <1>4. PacketSize \in Nat /\ offset \in Nat /\ offset < PacketSize
    BY FramingAssumption DEF First, Rest
  <1>5. n \in Nat /\ k + n <= Len(m.body) /\ k + n \in k..Len(m.body)
    BY <1>1, <1>2, <1>4 DEF Least
  <1>6. Data(p, offset, n) = SubSeq(d, 1, n)
    <2>1. Data(p, offset, Least(PacketSize - offset, Len(d)))
             = SubSeq(d, 1, Least(PacketSize - offset, Len(d)))
      BY <1>3, Filled
    <2> QED
      BY <1>3, <2>1
  <1>7. all = SubSeq(m.body, 1, k + n)
    BY <1>1, <1>2, <1>5, <1>6, Glue
  <1>8. After(d, offset) = Drop(m.body, k + n)
    <2>1. Least(Len(d), PacketSize - offset) = n
      BY <1>1, <1>2, <1>3, <1>4 DEF Least
    <2>2. After(d, offset) = Drop(d, n)
      BY <2>1 DEF After
    <2> QED
      BY <1>1, <1>2, <1>5, <2>2, DropTwice
  <1>9. /\ remaining' = left - n /\ unpacked' = all /\ reading' = (left - n # 0)
        /\ IF left - n = 0
           THEN /\ received' = [id |-> m.id, body |-> all]
                /\ channel' = IF channel = <<>> THEN <<>> ELSE Tail(channel)
           ELSE received' = received /\ channel' = channel
    BY DEF Unpack
  <1>10. left - n = Len(m.body) - (k + n) /\ (left - n = 0 <=> k + n = Len(m.body))
    BY <1>1, <1>2, <1>5
  <1>11. k + n = Len(m.body) => [id |-> m.id, body |-> all] = m
    BY <1>1, <1>7, SubSeqFull
  <1> HIDE DEF d, p, left, n, all
  <1>12. reading' = (k + n # Len(m.body))
    BY <1>9, <1>10
  <1> DEFINE e == k + n
  <1>13. /\ e \in k..Len(m.body)
         /\ remaining' = Len(m.body) - e /\ unpacked' = SubSeq(m.body, 1, e)
         /\ reading' = (e # Len(m.body))
         /\ After(d, offset) = Drop(m.body, e)
    BY <1>5, <1>7, <1>8, <1>9, <1>10, <1>12
  <1>14. IF e = Len(m.body)
         THEN received' = m /\ channel' = IF channel = <<>> THEN <<>> ELSE Tail(channel)
         ELSE received' = received /\ channel' = channel
    BY <1>9, <1>10, <1>11
  <1> HIDE DEF e
  <1> QED
    BY <1>13, <1>14 DEF d

-----------------------------------------------------------------------------
(* The steps.  Each one keeps the invariant, and is a step of the channel.   *)

Simulates == [Channel!Next]_<<channel, received>>

LEMMA SendMessageStep ==
    ASSUME Inv, SendMessage
    PROVE  Inv' /\ Simulates
  <1>1. PICK m \in Messages :
           /\ SendBuffer(Header(m.id, Len(m.body)), m.body, First)
           /\ sent' = m /\ channel' = Append(channel, m)
    BY DEF SendMessage
  <1>2. PICK left, after : Flow(left, after)
    BY DEF Inv
  <1>3. /\ bytes = <<>> /\ bytes \in Seq(Byte) /\ wire \in Seq(Packets)
        /\ channel \in Seq(Messages) /\ reading \in BOOLEAN
        /\ reading' = reading /\ remaining' = remaining /\ id' = id
        /\ unpacked' = unpacked /\ received' = received
    BY DEF SendMessage, readerVars, Inv, Types
  <1> DEFINE p == FirstPacket(m)
             l2 == After(m.body, First)
  <1>4. buffer' = p /\ wire' = Append(wire, p) /\ bytes' = l2
    BY <1>1 DEF SendBuffer, FirstPacket, After
  <1>5. p \in Packets /\ p[1] = 63
    BY FirstIs DEF IsFirst
  <1>6. m.body \in Seq(Byte) /\ Len(m.body) \in Nat
    BY MessageIs
  <1>8. l2 = Drop(m.body, Start(0)) /\ 0 \in Nat
    BY AfterIs
  <1>9. l2 \in Seq(Byte) /\ l2 \in Cuts \union {<<>>}
    BY <1>8, AfterIs DEF Cuts
  <1> DEFINE c == Append(channel, m)
  <1>10. /\ c \in Seq(Messages) /\ Len(c) = Len(channel) + 1 /\ c[Len(c)] = m
         /\ \A i \in 1..Len(channel) : c[i] = channel[i]
    BY <1>3, AppendProperties
  <1>11. Len(wire) \in Nat /\ Len(channel) \in Nat
    BY <1>3, LenProperties
  <1>12. Len(wire) + 1 \in 1..(Len(wire) + 1) /\ 1 \in 1..(Len(wire) + 1)
    BY <1>11
  <1>13. /\ left[Len(wire) + 1] = <<>> /\ after[Len(wire) + 1] = 0
         /\ Chain(left, after, wire, channel)
    BY <1>2, <1>3 DEF Flow
  <1>14. PICK a : /\ Chain(left, a, wire, c)
                  /\ a[1] = after[1] + 1 /\ a[Len(wire) + 1] = after[Len(wire) + 1] + 1
    BY <1>3, <1>13, ChainSend
  <1>15. a[Len(wire) + 1] = 1 /\ a[1] = after[1] + 1
    BY <1>13, <1>14
  <1>16. Carries(p, <<>>, l2, 1, 0, c)
    <2>1. Len(c) - 0 = Len(c)
      BY <1>10, <1>11
    <2> QED
      BY <1>10, <2>1 DEF Carries
  <1> HIDE DEF p, l2, c
  <1>17. PICK l3, a3 : /\ Chain(l3, a3, Append(wire, p), c)
                       /\ l3[1] = left[1] /\ l3[Len(Append(wire, p)) + 1] = l2
                       /\ a3[1] = a[1] /\ a3[Len(Append(wire, p)) + 1] = 0
    <2>1. Carries(p, left[Len(wire) + 1], l2, a[Len(wire) + 1], 0, c)
      BY <1>13, <1>15, <1>16
    <2>2. wire \in Seq(Packets) /\ c \in Seq(Messages)
      BY <1>3, <1>10
    <2> QED
      BY <1>5, <1>9, <1>14, <2>1, <2>2, ChainWrite
  <1>18. channel' = c
    BY <1>1 DEF c
  <1>19. reading => channel # <<>> /\ channel[1] = c[1]
    <2> SUFFICES ASSUME reading PROVE channel # <<>> /\ channel[1] = c[1]
      OBVIOUS
    <2>1. channel # <<>>
      BY DEF Inv, ReaderOK
    <2>2. Len(channel) # 0
      BY <1>3, <2>1, EmptySeq
    <2>3. 1 \in 1..Len(channel)
      BY <1>11, <2>2
    <2> QED
      BY <1>10, <2>1, <2>3
  <1>20. c # <<>>
    BY <1>3, AppendProperties DEF c
  <1>21. Flow(l3, a3)'
    <2>1. Chain(l3, a3, wire', channel')
      BY <1>4, <1>17, <1>18
    <2>2. l3[Len(wire') + 1] = bytes' /\ a3[Len(wire') + 1] = 0
      BY <1>4, <1>17
    <2>3. CASE reading
      <3>1. after[1] = Len(channel) - 1 /\ left[1] = Drop(channel[1].body, Len(channel[1].body) - remaining)
        BY <1>2, <2>3 DEF Flow
      <3>2. a3[1] = Len(c) - 1
        BY <1>10, <1>11, <1>15, <1>17, <3>1
      <3>3. l3[1] = Drop(c[1].body, Len(c[1].body) - remaining)
        BY <1>17, <1>19, <2>3, <3>1
      <3> QED
        BY <1>3, <1>18, <2>1, <2>2, <2>3, <3>2, <3>3 DEF Flow
    <2>4. CASE ~reading
      <3>1. after[1] = Len(channel)
        BY <1>2, <2>4 DEF Flow
      <3>2. a3[1] = Len(c)
        BY <1>10, <1>15, <1>17, <3>1
      <3> QED
        BY <1>3, <1>18, <2>1, <2>2, <2>4, <3>2 DEF Flow
    <2> QED
      BY <2>3, <2>4
  <1>22. Types'
    <2>1. Append(wire, p) \in Seq(Packets)
      BY <1>3, <1>5, AppendProperties
    <2> QED
      BY <1>3, <1>4, <1>9, <1>10, <1>18, <2>1 DEF Types, l2
  <1>23. WriterOK'
    BY <1>4, <1>5 DEF WriterOK
  <1>24. ReaderOK'
    BY <1>3, <1>18, <1>19, <1>20 DEF ReaderOK, Inv
  <1>25. Inv'
    BY <1>21, <1>22, <1>23, <1>24 DEF Inv
  <1>26. Simulates
    BY <1>1, <1>3 DEF Simulates, Channel!Next, Channel!Put
  <1> QED
    BY <1>25, <1>26

(* A packet is written that starts no message.                               *)
LEMMA WriteStep ==
    ASSUME Inv, NEW p \in Packets, wire' = Append(wire, p),
           bytes' \in Seq(Byte), bytes' \in Cuts \union {<<>>},
           Carries(p, bytes, bytes', 0, 0, channel),
           WriterOK', UNCHANGED <<readerVars, channel>>
    PROVE  Inv' /\ Simulates
  <1>1. PICK left, after : Flow(left, after)
    BY DEF Inv
  <1>2. wire \in Seq(Packets) /\ channel \in Seq(Messages) /\ reading \in BOOLEAN
    BY DEF Inv, Types
  <1>3. /\ reading' = reading /\ remaining' = remaining /\ id' = id
        /\ unpacked' = unpacked /\ received' = received /\ channel' = channel
    BY DEF readerVars
  <1>4. /\ Chain(left, after, wire, channel)
        /\ left[Len(wire) + 1] = bytes /\ after[Len(wire) + 1] = 0
    BY <1>1 DEF Flow
  <1>5. PICK l3, a3 : /\ Chain(l3, a3, Append(wire, p), channel)
                      /\ l3[1] = left[1] /\ l3[Len(Append(wire, p)) + 1] = bytes'
                      /\ a3[1] = after[1] /\ a3[Len(Append(wire, p)) + 1] = 0
    <2>1. Carries(p, left[Len(wire) + 1], bytes', after[Len(wire) + 1], 0, channel)
      BY <1>4
    <2> QED
      BY <1>2, <1>4, <2>1, ChainWrite, SMTT(60)
  <1>6. Flow(l3, a3)'
    BY <1>1, <1>3, <1>5 DEF Flow
  <1>7. Types'
    <2>1. Append(wire, p) \in Seq(Packets)
      BY <1>2, AppendProperties
    <2> QED
      BY <1>2, <1>3, <2>1 DEF Types
  <1>8. ReaderOK'
    BY <1>3 DEF Inv, ReaderOK
  <1>9. Inv'
    BY <1>6, <1>7, <1>8 DEF Inv
  <1> QED
    BY <1>3, <1>9 DEF Simulates

LEMMA SendRestStep ==
    ASSUME Unambiguous, Inv, SendRest
    PROVE  Inv' /\ Simulates
  <1> DEFINE p == RestPacket(bytes)
  <1>1. PICK left, after : Flow(left, after)
    BY DEF Inv
  <1>2. bytes \in Cuts /\ bytes # <<>> /\ bytes \in Seq(Byte)
    <2>1. Len(wire) \in Nat
      BY LenProperties DEF Inv, Types
    <2>2. Len(wire) + 1 \in 1..(Len(wire) + 1)
      BY <2>1
    <2>3. bytes \in Cuts \union {<<>>}
      BY <1>1, <2>2 DEF Flow, Chain
    <2> QED
      BY <2>3 DEF SendRest, Inv, Types
  <1>3. buffer' = p
    <2>1. buffer[1] = 63
      BY <1>2 DEF Inv, WriterOK
    <2>2. PacketSize \in Nat
      BY FramingAssumption
    <2>3. \A i \in 1..PacketSize : i <= Rest => buffer[i] = <<63>>[i]
      <3>1. \A i \in 1..PacketSize : i <= Rest => i = 1
        BY <2>2 DEF Rest
      <3> QED
        BY <2>1, <3>1
    <2>4. Fill(buffer, bytes, Rest) = Fill(<<63>>, bytes, Rest)
      BY <2>3 DEF Fill
    <2> QED
      BY <2>4 DEF SendRest, SendBuffer, RestPacket
  <1>4. wire' = Append(wire, p) /\ bytes' = After(bytes, Rest)
    BY <1>3 DEF SendRest, SendBuffer, After
  <1>5. bytes' \in Cuts /\ bytes' \in Seq(Byte)
    BY <1>2, <1>4, CutIs
  <1>6. p \in Packets /\ p[1] = 63
    BY <1>2, RestIs DEF IsRest
  <1>7. Carries(p, bytes, bytes', 0, 0, channel)
    BY <1>2, <1>4 DEF Carries
  <1>8. WriterOK' /\ UNCHANGED <<readerVars, channel>>
    BY <1>3, <1>6 DEF WriterOK, SendRest
  <1> HIDE DEF p
  <1> QED
    BY <1>4, <1>5, <1>6, <1>7, <1>8, WriteStep

LEMMA NoiseStep ==
    ASSUME Inv, Noise
    PROVE  Inv' /\ Simulates
  <1>1. PICK left, after : Flow(left, after)
    BY DEF Inv
  <1>2. bytes' = bytes /\ buffer' = buffer /\ wire' = Append(wire, Stray)
        /\ UNCHANGED <<readerVars, channel>>
    BY DEF Noise, writerVars, Stray
  <1>3. bytes \in Cuts \union {<<>>} /\ bytes \in Seq(Byte)
    <2>1. Len(wire) \in Nat
      BY LenProperties DEF Inv, Types
    <2>2. Len(wire) + 1 \in 1..(Len(wire) + 1)
      BY <2>1
    <2> QED
      BY <1>1, <2>2 DEF Flow, Chain, Inv, Types
  <1>4. Carries(Stray, bytes, bytes', 0, 0, channel)
    BY <1>2 DEF Carries
  <1>5. WriterOK'
    BY <1>2 DEF Inv, WriterOK
  <1> QED
    BY <1>2, <1>3, <1>4, <1>5, StrayIs, WriteStep

(* The reader takes a packet that is not what it waits for, or dies.         *)
LEMMA LostStep ==
    ASSUME Inv, NEW left, NEW after, NEW w \in Seq(Packets),
           Chain(left, after, w, channel), wire' = w,
           left[Len(w) + 1] = bytes /\ after[Len(w) + 1] = 0,
           after[1] = Len(channel) - (IF reading THEN 1 ELSE 0),
           reading' = FALSE, channel' = IF reading THEN Tail(channel) ELSE channel,
           UNCHANGED <<writerVars, received>>
    PROVE  Inv' /\ Simulates
  <1>1. channel \in Seq(Messages) /\ reading \in BOOLEAN /\ bytes' = bytes /\ buffer' = buffer
    BY DEF Inv, Types, writerVars
  <1>2. Len(channel) \in Nat
    BY <1>1, LenProperties
  <1>3. CASE reading
    <2>1. channel # <<>> /\ after[1] = Len(channel) - 1
      BY <1>3 DEF Inv, ReaderOK
    <2>2. /\ Tail(channel) \in Seq(Messages) /\ Len(Tail(channel)) = Len(channel) - 1
          /\ Chain(left, after, w, Tail(channel))
      BY <1>1, <1>2, <2>1, ChainTail
    <2>3. Flow(left, after)' /\ Types' /\ WriterOK' /\ ReaderOK'
      BY <1>1, <1>3, <2>1, <2>2 DEF Flow, Types, WriterOK, ReaderOK, Inv
    <2>4. Simulates
      BY <1>3, <2>1 DEF Simulates, Channel!Next, Channel!Lose
    <2> QED
      BY <2>3, <2>4 DEF Inv
  <1>4. CASE ~reading
    <2>1. after[1] = Len(channel)
      BY <1>2, <1>4
    <2>2. Flow(left, after)' /\ Types' /\ WriterOK' /\ ReaderOK'
      BY <1>1, <1>4, <2>1 DEF Flow, Types, WriterOK, ReaderOK, Inv
    <2>3. Simulates
      BY <1>4 DEF Simulates
    <2> QED
      BY <2>2, <2>3 DEF Inv
  <1> QED
    BY <1>3, <1>4

(* The reader takes the next packet of the message it reads.                 *)
LEMMA UnpackStep ==
    ASSUME Inv, NEW left, NEW after, NEW w \in Seq(Packets),
           Chain(left, after, w, channel), wire' = w, channel # <<>>,
           left[Len(w) + 1] = bytes /\ after[Len(w) + 1] = 0,
           after[1] = Len(channel) - 1,
           NEW n \in 0..Len(channel[1].body),
           left[1] = Drop(channel[1].body, n),
           id' = channel[1].id,
           remaining' = Len(channel[1].body) - n, unpacked' = SubSeq(channel[1].body, 1, n),
           reading' = (n # Len(channel[1].body)),
           IF n = Len(channel[1].body)
           THEN received' = channel[1] /\ channel' = Tail(channel)
           ELSE received' = received /\ channel' = channel,
           UNCHANGED writerVars
    PROVE  Inv' /\ Simulates
  <1> DEFINE m == channel[1]
  <1>1. /\ channel \in Seq(Messages) /\ reading' \in BOOLEAN
        /\ bytes' = bytes /\ buffer' = buffer
    BY DEF Inv, Types, writerVars
  <1>2. Len(channel) \in Nat /\ Len(channel) # 0 /\ m \in Messages
    BY <1>1, EmptySeq, LenProperties
  <1>3. Len(m.body) \in Nat
    BY <1>2, MessageIs
  <1>4. CASE n = Len(m.body)
    <2>1. /\ Tail(channel) \in Seq(Messages) /\ Len(Tail(channel)) = Len(channel) - 1
          /\ Chain(left, after, w, Tail(channel))
      BY <1>1, <1>2, ChainTail
    <2>2. Flow(left, after)' /\ Types' /\ WriterOK' /\ ReaderOK'
      BY <1>1, <1>4, <2>1 DEF Flow, Types, WriterOK, ReaderOK, Inv
    <2>3. Head(channel) = m
      BY <1>1, HeadTailProperties
    <2>4. Simulates
      BY <1>4, <2>3 DEF Simulates, Channel!Next, Channel!Get
    <2> QED
      BY <2>2, <2>4 DEF Inv
  <1>5. CASE n # Len(m.body)
    <2>1. reading' /\ channel' = channel /\ received' = received
      BY <1>5
    <2>2. remaining' \in 1..Len(m.body) /\ Len(m.body) - remaining' = n
      BY <1>3, <1>5
    <2>3. Flow(left, after)'
      BY <1>1, <2>1, <2>2 DEF Flow
    <2>4. Types' /\ WriterOK'
      BY <1>1, <2>1 DEF Types, WriterOK, Inv
    <2>5. ReaderOK'
      BY <2>1, <2>2 DEF ReaderOK
    <2> QED
      BY <2>1, <2>3, <2>4, <2>5 DEF Inv, Simulates
  <1> QED
    BY <1>4, <1>5

LEMMA ReadFirstStep ==
    ASSUME Unambiguous, Inv, ReadFirst
    PROVE  Inv' /\ Simulates
  <1>1. PICK left, after : Flow(left, after)
    BY DEF Inv
  <1> DEFINE w == Tail(wire)
             p == wire[1]
             m == channel[1]
  <1>2. /\ wire \in Seq(Packets) /\ channel \in Seq(Messages) /\ wire # <<>>
        /\ reading = FALSE /\ wire' = w
    BY DEF ReadFirst, Inv, Types
  <1>3. /\ Chain(left, after, wire, channel) /\ after[1] = Len(channel)
        /\ left[Len(wire) + 1] = bytes /\ after[Len(wire) + 1] = 0
    BY <1>1, <1>2 DEF Flow
  <1>4. /\ w \in Seq(Packets) /\ Len(w) = Len(wire) - 1 /\ Head(wire) = p
        /\ Carries(p, left[1], left[2], after[1], after[2], channel)
        /\ after[2] <= after[1] /\ after[2] \in Nat /\ after[1] \in Nat
    BY <1>2, <1>3, ChainRead
  <1>5. PICK l, a : /\ Chain(l, a, w, channel)
                    /\ l[1] = left[2] /\ l[Len(w) + 1] = bytes
                    /\ a[1] = after[2] /\ a[Len(w) + 1] = 0
    BY <1>2, <1>3, ChainRead
  <1>6. UNCHANGED writerVars /\ Len(wire) \in Nat
    BY <1>2, LenProperties DEF ReadFirst
  <1>7. /\ \/ /\ IsFirst(p) /\ id' = HeaderId(p)
              /\ Unpack(<<>>, p, First, HeaderLength(p), HeaderId(p))
           \/ ~IsFirst(p) /\ Fails /\ UNCHANGED channel
    BY <1>4 DEF ReadFirst
  <1> HIDE DEF w, p
  <1>8. CASE ~IsFirst(p)
    <2>1. reading' = FALSE /\ channel' = channel /\ received' = received
      BY <1>7, <1>8 DEF Fails
    <2>3. after[2] = after[1]
      <3> SUFFICES ASSUME after[2] # after[1] PROVE FALSE
        OBVIOUS
      <3>1. after[1] = after[2] + 1 /\ p = FirstPacket(channel[Len(channel) - after[2]])
        BY <1>4 DEF Carries
      <3>2. Len(channel) - after[2] = 1
        BY <1>3, <1>4, <3>1
      <3>3. channel[1] \in Messages
        <4>1. 1 \in 1..Len(channel)
          BY <1>3, <1>4, <3>1
        <4> QED
          BY <1>2, <4>1, ElementOfSeq
      <3> QED
        BY <1>8, <3>1, <3>2, <3>3, FirstIs
    <2>4. a[1] = Len(channel) - (IF reading THEN 1 ELSE 0)
      BY <1>2, <1>3, <1>4, <1>5, <2>3
    <2> QED
      BY <1>2, <1>4, <1>5, <1>6, <2>1, <2>4, LostStep
  <1>9. CASE IsFirst(p)
    <2>1. left[1] \in Cuts \union {<<>>}
      <3>1. 1 \in 1..(Len(wire) + 1)
        BY <1>6
      <3> QED
        BY <1>3, <3>1 DEF Chain
    <2>2. left[1] = <<>> /\ p # Stray
      BY <1>4, <1>9, <2>1, RestIs, StrayIs DEF Carries
    <2>3. /\ after[1] = after[2] + 1 /\ p = FirstPacket(channel[Len(channel) - after[2]])
          /\ left[2] = After(channel[Len(channel) - after[2]].body, First)
      BY <1>4, <2>2 DEF Carries
    <2>4. Len(channel) - after[2] = 1 /\ after[2] = Len(channel) - 1
      BY <1>3, <1>4, <2>3
    <2>5. m \in Messages /\ channel # <<>>
      <3>1. 1 \in 1..Len(channel)
        BY <1>3, <1>4, <2>3
      <3> QED
        BY <1>2, <3>1, ElementOfSeq
    <2>6. p = FirstPacket(m) /\ left[2] = After(m.body, First)
      BY <2>3, <2>4
    <2> HIDE DEF m
    <2>7. HeaderId(p) = m.id /\ HeaderLength(p) = Len(m.body)
      BY <2>5, <2>6, FirstIs
    <2>8. id' = m.id /\ Unpack(<<>>, p, First, Len(m.body), m.id)
      BY <1>7, <1>9, <2>7
    <2>9. m.body \in Seq(Byte) /\ Len(m.body) \in Nat /\ m.id \in Ids /\ Fits(Len(m.body))
      BY <2>5, MessageIs
    <2>10. /\ Drop(m.body, 0) = m.body /\ SubSeq(m.body, 1, 0) = <<>>
           /\ 0 \in 0..Len(m.body) /\ Len(m.body) - 0 = Len(m.body)
      BY <2>9, SubSeqFull, SubSeqEmpty DEF Drop
    <2>11. \A i \in 1..First : Header(m.id, Len(m.body))[i] \in Byte
      BY <2>9, HeaderBytes
    <2>12. Unpack(SubSeq(m.body, 1, 0),
                  Fill(Header(m.id, Len(m.body)), Drop(m.body, 0), First), First,
                  Len(m.body) - 0, m.id)
      BY <2>6, <2>8, <2>10 DEF FirstPacket
    <2>13. PICK n \in 0..Len(m.body) :
              /\ remaining' = Len(m.body) - n /\ unpacked' = SubSeq(m.body, 1, n)
              /\ reading' = (n # Len(m.body))
              /\ After(Drop(m.body, 0), First) = Drop(m.body, n)
              /\ IF n = Len(m.body)
                 THEN received' = m /\ channel' = IF channel = <<>> THEN <<>> ELSE Tail(channel)
                 ELSE received' = received /\ channel' = channel
      BY <2>5, <2>10, <2>11, <2>12, Unpacked
    <2>14. l[1] = Drop(m.body, n) /\ a[1] = Len(channel) - 1
      BY <1>5, <2>4, <2>6, <2>10, <2>13
    <2> QED
      BY <1>2, <1>4, <1>5, <1>6, <2>5, <2>8, <2>13, <2>14, UnpackStep DEF m
  <1> QED
    BY <1>8, <1>9

LEMMA ReadRestStep ==
    ASSUME Unambiguous, Inv, ReadRest
    PROVE  Inv' /\ Simulates
  <1>1. PICK left, after : Flow(left, after)
    BY DEF Inv
  <1> DEFINE w == Tail(wire)
             p == wire[1]
             m == channel[1]
             k == Len(m.body) - remaining
  <1>2. /\ wire \in Seq(Packets) /\ channel \in Seq(Messages) /\ wire # <<>>
        /\ reading = TRUE /\ wire' = w
    BY DEF ReadRest, Inv, Types
  <1>3. /\ Chain(left, after, wire, channel) /\ after[1] = Len(channel) - 1
        /\ left[1] = Drop(m.body, k)
        /\ left[Len(wire) + 1] = bytes /\ after[Len(wire) + 1] = 0
    BY <1>1, <1>2 DEF Flow
  <1>4. /\ w \in Seq(Packets) /\ Len(w) = Len(wire) - 1 /\ Head(wire) = p
        /\ Carries(p, left[1], left[2], after[1], after[2], channel)
        /\ after[2] <= after[1] /\ after[2] \in Nat /\ after[1] \in Nat
    BY <1>2, <1>3, ChainRead
  <1>5. PICK l, a : /\ Chain(l, a, w, channel)
                    /\ l[1] = left[2] /\ l[Len(w) + 1] = bytes
                    /\ a[1] = after[2] /\ a[Len(w) + 1] = 0
    BY <1>2, <1>3, ChainRead
  <1>6. UNCHANGED writerVars
    BY DEF ReadRest
  <1>7. \/ /\ IsRest(p)
           /\ Unpack(unpacked, p, Rest, remaining, id)
           /\ UNCHANGED <<id, failed>>
        \/ ~IsRest(p) /\ Fails /\ channel' = Tail(channel)
    BY <1>4 DEF ReadRest
  <1>8. /\ channel # <<>> /\ id = m.id /\ remaining \in 1..Len(m.body)
        /\ unpacked = SubSeq(m.body, 1, k)
    BY <1>2 DEF Inv, ReaderOK
  <1>9. m \in Messages /\ m.body \in Seq(Byte) /\ Len(m.body) \in Nat
    <2>1. Len(channel) \in Nat /\ Len(channel) # 0
      BY <1>2, <1>8, EmptySeq
    <2>2. 1 \in 1..Len(channel)
      BY <2>1
    <2>3. m \in Messages
      BY <1>2, <2>2, ElementOfSeq
    <2> QED
      BY <2>3, MessageIs
  <1> HIDE DEF w, p, m
  <1>10. k \in 0..Len(m.body) /\ k \in Nat /\ Len(m.body) - k = remaining /\ k < Len(m.body)
    BY <1>8, <1>9
  <1> HIDE DEF k
  <1>11. left[1] # <<>>
    <2>1. Len(Drop(m.body, k)) = Len(m.body) - k
      <3>1. Len(Drop(m.body, k)) = IF k <= Len(m.body) THEN Len(m.body) - k ELSE 0
        BY <1>9, <1>10, Dropped
      <3> QED
        BY <1>9, <1>10, <3>1
    <2> QED
      BY <1>3, <1>9, <1>10, <2>1, EmptySeq
  <1>12. left[1] \in Cuts
    <2>1. 1 \in 1..(Len(wire) + 1)
      BY <1>2, LenProperties
    <2> QED
      BY <1>3, <1>11, <2>1 DEF Chain
  <1>13. after[2] = after[1]
    BY <1>4, <1>11 DEF Carries
  <1>14. CASE ~IsRest(p)
    <2>1. reading' = FALSE /\ channel' = Tail(channel) /\ received' = received
      BY <1>7, <1>14 DEF Fails
    <2>2. a[1] = Len(channel) - (IF reading THEN 1 ELSE 0)
      BY <1>2, <1>3, <1>5, <1>13
    <2> QED
      BY <1>2, <1>4, <1>5, <1>6, <2>1, <2>2, LostStep
  <1>15. CASE IsRest(p)
    <2>1. p = RestPacket(left[1]) /\ left[2] = After(left[1], Rest)
      BY <1>4, <1>11, <1>15, StrayIs DEF Carries
    <2>2. Unpack(unpacked, Fill(<<63>>, Drop(m.body, k), Rest), Rest, Len(m.body) - k, m.id)
      BY <1>3, <1>7, <1>8, <1>10, <1>15, <2>1 DEF RestPacket
    <2>3. \A i \in 1..Rest : <<63>>[i] \in Byte
      BY DEF Rest, Byte
    <2>4. PICK n \in k..Len(m.body) :
              /\ remaining' = Len(m.body) - n /\ unpacked' = SubSeq(m.body, 1, n)
              /\ reading' = (n # Len(m.body))
              /\ After(Drop(m.body, k), Rest) = Drop(m.body, n)
              /\ IF n = Len(m.body)
                 THEN received' = m /\ channel' = IF channel = <<>> THEN <<>> ELSE Tail(channel)
                 ELSE received' = received /\ channel' = channel
      BY <1>8, <1>9, <1>10, <2>2, <2>3, Unpacked
    <2>5. n \in 0..Len(m.body)
      BY <1>9, <1>10
    <2>6. l[1] = Drop(m.body, n) /\ a[1] = Len(channel) - 1 /\ id' = m.id
      BY <1>3, <1>5, <1>7, <1>8, <1>13, <1>15, <2>1, <2>4
    <2> QED
      BY <1>2, <1>4, <1>5, <1>6, <1>8, <2>4, <2>5, <2>6, UnpackStep DEF m
  <1> QED
    BY <1>14, <1>15

LEMMA KillStep ==
    ASSUME Inv, Kill
    PROVE  Inv' /\ Simulates
  <1>1. PICK left, after : Flow(left, after)
    BY DEF Inv
  <1>2. /\ reading /\ reading' = FALSE /\ channel' = Tail(channel) /\ wire' = wire
        /\ received' = received /\ wire \in Seq(Packets) /\ UNCHANGED writerVars
    BY DEF Kill, Inv, Types
  <1>3. /\ Chain(left, after, wire, channel)
        /\ left[Len(wire) + 1] = bytes /\ after[Len(wire) + 1] = 0
        /\ after[1] = Len(channel) - (IF reading THEN 1 ELSE 0)
    BY <1>1, <1>2 DEF Flow
  <1> QED
    BY <1>2, <1>3, LostStep

LEMMA InvStep ==
    ASSUME Unambiguous, Inv, [Next]_vars
    PROVE  Inv' /\ Simulates
  <1>1. CASE UNCHANGED vars
    BY <1>1 DEF vars, writerVars, readerVars, Inv, Types, WriterOK, ReaderOK, Flow, Simulates
  <1> QED
    BY <1>1, SendMessageStep, SendRestStep, ReadFirstStep, ReadRestStep, KillStep, NoiseStep
    DEF Next, Write, Read

(* Messages go through the packets like through a queue: each is received    *)
(* whole, as it was sent and in order, or not at all, whatever reader died   *)
(* where and whatever packet came in between.                                *)
THEOREM Refines ==
    ASSUME Unambiguous
    PROVE  Spec => ImplementsChannel
  <1>1. Init => Inv /\ Channel!Init
    BY InvInit DEF Init, Channel!Init
  <1>2. Inv /\ [Next]_vars => Inv' /\ [Channel!Next]_<<channel, received>>
    BY InvStep DEF Simulates
  <1> QED
    BY <1>1, <1>2, PTL DEF Spec, ImplementsChannel, Channel!Spec

-----------------------------------------------------------------------------
(* The padding.                                                              *)

ZerosFrom(n) == \A i \in n..PacketSize : buffer[i] = 0

(* The k-th packet of the message is written last: the writer has the rest   *)
(* of it, and behind the part in the buffer there are zeros.                 *)
PadInv ==
    IF sent = Nothing THEN bytes = <<>>
    ELSE /\ sent \in Messages
         /\ \/ /\ bytes = Drop(sent.body, Start(0))
               /\ ZerosFrom(First + Len(sent.body) + 1)
            \/ \E k \in Nat :
                 /\ Start(k) < Len(sent.body)
                 /\ bytes = Drop(sent.body, Start(k + 1))
                 /\ ZerosFrom(Rest + (Len(sent.body) - Start(k)) + 1)

LEMMA PadFill ==
    ASSUME NEW old, NEW d \in Seq(Byte), NEW offset \in {First, Rest},
           NEW i \in (offset + Len(d) + 1)..PacketSize
    PROVE  Fill(old, d, offset)[i] = 0
  <1>1. offset \in Nat /\ PacketSize \in Nat /\ Len(d) \in Nat
    BY FramingAssumption, LenProperties DEF First, Rest
  <1>2. i \in 1..PacketSize /\ ~(i <= offset) /\ ~(i - offset <= Len(d))
    BY <1>1
  <1> QED
    BY <1>2 DEF Fill

LEMMA PadStep ==
    ASSUME PadInv, [Next]_vars
    PROVE  PadInv'
  <1>1. CASE SendMessage
    <2>1. PICK m \in Messages :
             /\ SendBuffer(Header(m.id, Len(m.body)), m.body, First)
             /\ sent' = m
      BY <1>1 DEF SendMessage
    <2>2. bytes' = Drop(m.body, Start(0))
      BY <2>1, AfterIs DEF SendBuffer, After
    <2>3. \A i \in (First + Len(m.body) + 1)..PacketSize : buffer'[i] = 0
      BY <2>1, MessageIs, PadFill DEF SendBuffer
    <2>4. sent' # Nothing
      BY <2>1, FramingAssumption
    <2> QED
      BY <2>1, <2>2, <2>3, <2>4 DEF PadInv, ZerosFrom
  <1>2. CASE SendRest
    <2>1. /\ bytes # <<>> /\ sent' = sent /\ buffer' = Fill(buffer, bytes, Rest)
          /\ bytes' = After(bytes, Rest)
      BY <1>2 DEF SendRest, SendBuffer, After
    <2>2. sent # Nothing /\ sent \in Messages
      BY <2>1 DEF PadInv
    <2>3. PICK k \in Nat : bytes = Drop(sent.body, Start(k))
      <3>1. 0 \in Nat /\ \A k \in Nat : k + 1 \in Nat
        OBVIOUS
      <3> QED
        BY <2>2, <3>1 DEF PadInv
    <2>4. /\ bytes \in Seq(Byte) /\ bytes' = Drop(sent.body, Start(k + 1))
          /\ Len(bytes) = IF Start(k) <= Len(sent.body) THEN Len(sent.body) - Start(k) ELSE 0
      BY <2>1, <2>2, <2>3, AfterIs
    <2>5. Len(bytes) # 0 /\ Start(k) \in Nat /\ Len(sent.body) \in Nat
      BY <2>1, <2>2, <2>4, EmptySeq, StartIs, MessageIs
    <2>6. Start(k) < Len(sent.body) /\ Len(bytes) = Len(sent.body) - Start(k)
      BY <2>4, <2>5
    <2>7. \A i \in (Rest + Len(bytes) + 1)..PacketSize : buffer'[i] = 0
      BY <2>1, <2>4, PadFill
    <2>8. \A i \in (Rest + (Len(sent.body) - Start(k)) + 1)..PacketSize : buffer'[i] = 0
      BY <2>6, <2>7
    <2> QED
      BY <2>1, <2>2, <2>4, <2>6, <2>8 DEF PadInv, ZerosFrom
  <1>3. CASE UNCHANGED writerVars
    BY <1>3 DEF writerVars, PadInv, ZerosFrom
  <1> QED
    BY <1>1, <1>2, <1>3
    DEF Next, Write, Read, ReadFirst, ReadRest, Kill, Noise, vars, writerVars

LEMMA Remainder ==
    ASSUME NEW d \in Nat, d > 0, NEW q \in Nat, NEW r \in 0..(d - 1)
    PROVE  (q * d + r) % d = r
  <1> DEFINE n == q * d + r
             x == n \div d
             y == n % d
  <1>1. n \in Nat /\ q * d \in Nat
    OBVIOUS
  <1>2. x \in Int /\ y \in 0..(d - 1) /\ n = d * x + y
    BY <1>1
  <1>3. d * x + y = d * q + r
    BY <1>1, <1>2
  <1> HIDE DEF n, x, y
  <1>4. x = q
    <2>1. ASSUME x > q PROVE FALSE
      <3>1. d * x >= d * (q + 1) /\ d * (q + 1) = d * q + d
        BY <1>2, <2>1
      <3> QED
        BY <1>2, <1>3, <3>1
    <2>2. ASSUME x < q PROVE FALSE
      <3>1. d * q >= d * (x + 1) /\ d * (x + 1) = d * x + d
        BY <1>2, <2>2
      <3> QED
        BY <1>2, <1>3, <3>1
    <2> QED
      BY <1>2, <2>1, <2>2
  <1>5. y = r
    BY <1>2, <1>3, <1>4
  <1> QED
    BY <1>5 DEF n, y

LEMMA PadImplies ==
    ASSUME PadInv
    PROVE  PaddingIsZero
  <1> SUFFICES ASSUME bytes = <<>>, sent # Nothing
               PROVE  ZerosFrom(InLastPacket(Len(sent.body)) + 1)
    BY DEF PaddingIsZero, ZerosFrom
  <1> DEFINE n == Len(sent.body)
  <1>1. sent \in Messages /\ n \in Nat
    BY MessageIs DEF PadInv
  <1>2. PacketSize \in Nat /\ PacketSize > 9 /\ First = 9 /\ Rest = 1
    BY FramingAssumption DEF First, Rest
  <1>3. \A k \in Nat : Drop(sent.body, Start(k)) = <<>> => n <= Start(k)
    <2> SUFFICES ASSUME NEW k \in Nat, Drop(sent.body, Start(k)) = <<>> PROVE n <= Start(k)
      OBVIOUS
    <2>1. Len(Drop(sent.body, Start(k))) = 0
      BY EmptySeq
    <2>2. Start(k) \in Nat
      BY StartIs
    <2>3. Len(Drop(sent.body, Start(k))) = IF Start(k) <= n THEN n - Start(k) ELSE 0
      BY <1>1, AfterIs
    <2> QED
      BY <1>1, <2>1, <2>2, <2>3
  <1> HIDE DEF n
  <1>4. CASE bytes = Drop(sent.body, Start(0)) /\ ZerosFrom(First + n + 1)
    <2>1. n <= PacketSize - First
      BY <1>3, <1>4, StartIs
    <2>2. InLastPacket(n) = First + n
      BY <2>1 DEF InLastPacket
    <2> QED
      BY <1>4, <2>2 DEF n
  <1>5. CASE \E k \in Nat : /\ Start(k) < n
                            /\ bytes = Drop(sent.body, Start(k + 1))
                            /\ ZerosFrom(Rest + (n - Start(k)) + 1)
    <2>1. PICK k \in Nat : /\ Start(k) < n
                           /\ bytes = Drop(sent.body, Start(k + 1))
                           /\ ZerosFrom(Rest + (n - Start(k)) + 1)
      BY <1>5
    <2>2. /\ Start(k) \in Nat /\ Start(k) >= PacketSize - First
          /\ Start(k + 1) = Start(k) + (PacketSize - Rest)
      BY StartIs
    <2>3. n <= Start(k + 1)
      <3>1. k + 1 \in Nat
        OBVIOUS
      <3> QED
        BY <1>3, <2>1, <3>1
    <2> DEFINE d == PacketSize - Rest
               r == n - 1 - Start(k)
    <2>4. d \in Nat /\ d > 0 /\ r \in 0..(d - 1)
      BY <1>1, <1>2, <2>1, <2>2, <2>3
    <2>5. n - (PacketSize - First) - 1 = k * d + r
      BY <1>1, <1>2, <2>2 DEF Start
    <2>6. (n - (PacketSize - First) - 1) % d = r
      <3> HIDE DEF d, r
      <3> QED
        BY <2>4, <2>5, Remainder
    <2>7. ~(n <= PacketSize - First)
      BY <1>1, <1>2, <2>1, <2>2
    <2>8. InLastPacket(n) = Rest + 1 + r
      BY <2>6, <2>7 DEF InLastPacket
    <2>9. Rest + 1 + r = Rest + (n - Start(k))
      BY <1>1, <1>2, <2>2
    <2> QED
      BY <2>1, <2>8, <2>9 DEF n
  <1> QED
    BY <1>4, <1>5 DEF PadInv, n

(* Neither the header nor an earlier part of the message is left in the last *)
(* packet of it.                                                             *)
THEOREM PaddingCorrect == Spec => []PaddingIsZero
  <1>1. Init => PadInv
    BY DEF Init, PadInv
  <1> QED
    BY <1>1, PadStep, PadImplies, PTL DEF Spec

=============================================================================

--------------------------- MODULE HashUsers_proofs ---------------------------
(* Proofs of the invariants of Sha256 and HashUsers, from ShaAssumption.     *)
EXTENDS HashUsers, FiniteSetTheorems, TLAPS

-----------------------------------------------------------------------------
(* Numbers.                                                                  *)

(* What div and mod are.                                                     *)
LEMMA Division ==
    ASSUME NEW a \in Nat, NEW b \in Nat, b > 0
    PROVE  /\ a \div b \in Nat /\ a % b \in Nat /\ a % b < b
           /\ a = (a \div b) * b + (a % b)
  OBVIOUS

(* A product is linear in each factor.                                       *)
LEMMA Times ==
    ASSUME NEW a \in Nat, NEW b \in Nat, NEW c \in Nat
    PROVE  /\ a * b \in Nat /\ (a + c) * b = a * b + c * b /\ a * b = b * a
           /\ a >= c => a * b >= c * b
           /\ 0 * b = 0 /\ 1 * b = b
  OBVIOUS

(* There is one quotient and one rest.                                       *)
LEMMA Quotient ==
    ASSUME NEW a \in Nat, NEW b \in Nat, b > 0,
           NEW q \in Nat, NEW r \in Nat, r < b, a = q * b + r
    PROVE  a \div b = q /\ a % b = r
<1> DEFINE p == a \div b
           s == a % b
<1>1. p \in Nat /\ s \in Nat /\ s < b /\ a = p * b + s
  BY Division
<1> HIDE DEF p, s
<1>2. ASSUME NEW x \in Nat, NEW y \in Nat, x < y
      PROVE  y * b >= x * b + b
  <2>1. y >= x + 1 /\ x + 1 \in Nat
    BY <1>2
  <2>2. y * b >= (x + 1) * b
    BY <2>1, Times
  <2>3. (x + 1) * b = x * b + 1 * b /\ 1 * b = b
    BY Times
  <2> QED
    BY <2>2, <2>3
<1>3. p * b \in Nat /\ q * b \in Nat
  BY <1>1, Times
<1>4. ~(p < q)
  BY <1>1, <1>2, <1>3
<1>5. ~(q < p)
  BY <1>1, <1>2, <1>3
<1>6. p = q
  BY <1>1, <1>4, <1>5
<1>7. s = r
  BY <1>1, <1>3, <1>6
<1> QED
  BY <1>6, <1>7 DEF p, s

-----------------------------------------------------------------------------
(* The hash.                                                                 *)

Symbols == ({"byte"} \X Nat \X Nat) \union ({"length"} \X Nat \X Nat)
               \union {Mark, Zero, Junk}
Block   == [1 .. BlockSize -> Symbols]

ShaType ==
    /\ state \in [count : Nat, buf : Block, blocks : Seq(Block)]
    /\ phase \in {"new", "open", "final"} /\ hashes \in Nat

(* While a message arrives, the blocks and the beginning of the buffer are   *)
(* what there is of it.                                                      *)
Streaming ==
    phase = "open" =>
        LET q == state.count \div BlockSize
        IN  /\ Len(state.blocks) = q
            /\ \A k \in 1 .. q, j \in 1 .. BlockSize :
                  state.blocks[k][j] = Byte((k - 1) * BlockSize + j)
            /\ \A j \in 1 .. state.count % BlockSize :
                  state.buf[j] = Byte(q * BlockSize + j)

ShaInv == ShaType /\ Streaming /\ Digested

(* A function on 1 .. n is a sequence of length n.                           *)
LEMMA Sequence ==
    ASSUME NEW S, NEW n \in Nat, NEW f \in [1 .. n -> S]
    PROVE  f \in Seq(S) /\ Len(f) = n
  OBVIOUS

(* The bytes of a message, the mark, the zeros and the length are symbols.   *)
LEMMA SymbolTypes ==
    ASSUME hashes \in Nat
    PROVE  /\ \A n \in Nat : Byte(n) \in Symbols
           /\ \A n \in Nat, m \in Nat : Length(n, m) \in Symbols
           /\ Mark \in Symbols /\ Zero \in Symbols /\ Junk \in Symbols
  BY DEF Byte, Length, Mark, Zero, Junk, Symbols

(* What copying bytes into the buffer makes of it.                           *)
LEMMA Copied ==
    ASSUME NEW buf \in Block, NEW at \in Nat, NEW bytes \in Seq(Symbols)
    PROVE  /\ Into(buf, at, bytes) \in Block
           /\ \A j \in 1 .. BlockSize :
                Into(buf, at, bytes)[j] = IF at < j /\ j <= at + Len(bytes)
                                          THEN bytes[j - at] ELSE buf[j]
<1>1. BlockSize \in Nat
  BY ShaAssumption
<1>2. ASSUME NEW j \in 1 .. BlockSize
      PROVE  /\ j \in at + 1 .. at + Len(bytes) <=> at < j /\ j <= at + Len(bytes)
             /\ j \in at + 1 .. at + Len(bytes) => bytes[j - at] \in Symbols
             /\ buf[j] \in Symbols
  BY <1>1 DEF Block
<1> QED
  BY <1>1, <1>2 DEF Into, Block

(* A new hash starts with no block; the buffer is whatever it was.           *)
LEMMA HashInitStep ==
    ASSUME ShaInv, HashInit
    PROVE  ShaInv'
<1>1. /\ state'.count = 0 /\ state'.blocks = <<>> /\ state'.buf = state.buf
      /\ state' \in [count : Nat, buf : Block, blocks : Seq(Block)]
      /\ phase' = "open" /\ hashes' = hashes + 1
  <2>1. <<>> \in Seq(Block) /\ state.buf \in Block
    BY DEF ShaInv, ShaType
  <2> QED
    BY <2>1 DEF HashInit
<1>2. BlockSize \in Nat /\ BlockSize > 0
  BY ShaAssumption
<1>3. state'.count \div BlockSize = 0 /\ state'.count % BlockSize = 0
  BY <1>1, <1>2, Quotient, Times
<1>4. Streaming'
  BY <1>1, <1>3 DEF Streaming
<1> QED
  BY <1>1, <1>4 DEF ShaInv, ShaType, Digested

(* A chunk that leaves the block unfinished.                                 *)
LEMMA ShortStep ==
    ASSUME ShaInv, phase = "open", NEW n \in Nat \ {0},
           phase' = phase, hashes' = hashes,
           UpdateShort([j \in 1 .. n |-> Byte(state.count + j)], state.count % BlockSize)
    PROVE  ShaInv'
<1> DEFINE c     == state.count
           q     == c \div BlockSize
           r     == c % BlockSize
           p     == q * BlockSize
           bytes == [j \in 1 .. n |-> Byte(c + j)]
<1>1. BlockSize \in Nat /\ BlockSize > 0
  BY ShaAssumption
<1>2. c \in Nat /\ hashes \in Nat /\ state.buf \in Block /\ state.blocks \in Seq(Block)
  BY DEF ShaInv, ShaType
<1>3. q \in Nat /\ r \in Nat /\ r < BlockSize /\ c = p + r /\ p \in Nat
  BY <1>1, <1>2, Division, Times
<1>4. bytes \in Seq(Symbols) /\ Len(bytes) = n
  BY <1>2, Sequence, SymbolTypes
<1>5. /\ n < BlockSize - r
      /\ state' = [count |-> c + Len(bytes), buf |-> Into(state.buf, r, bytes),
                   blocks |-> state.blocks]
  BY DEF UpdateShort
<1>6. /\ Len(state.blocks) = q
      /\ \A k \in 1 .. q, j \in 1 .. BlockSize :
            state.blocks[k][j] = Byte((k - 1) * BlockSize + j)
      /\ \A j \in 1 .. r : state.buf[j] = Byte(p + j)
  BY DEF ShaInv, Streaming
<1> HIDE DEF q, r, bytes
<1>7. /\ Into(state.buf, r, bytes) \in Block
      /\ \A j \in 1 .. BlockSize :
            Into(state.buf, r, bytes)[j]
                = IF r < j /\ j <= r + n THEN bytes[j - r] ELSE state.buf[j]
  <2>1. state.buf \in Block /\ r \in Nat /\ bytes \in Seq(Symbols)
    BY <1>2, <1>3, <1>4
  <2>2. /\ Into(state.buf, r, bytes) \in Block
        /\ \A j \in 1 .. BlockSize :
              Into(state.buf, r, bytes)[j]
                  = IF r < j /\ j <= r + Len(bytes) THEN bytes[j - r] ELSE state.buf[j]
    BY <2>1, Copied
  <2> QED
    BY <2>2, <1>4
<1>8. /\ state'.count = c + n /\ state'.blocks = state.blocks
      /\ state'.buf = Into(state.buf, r, bytes)
      /\ state' \in [count : Nat, buf : Block, blocks : Seq(Block)]
  BY <1>2, <1>4, <1>5, <1>7
<1>9. state'.count \div BlockSize = q /\ state'.count % BlockSize = r + n
  <2>1. r + n \in Nat /\ c + n \in Nat /\ r + n < BlockSize /\ c + n = p + (r + n)
    BY <1>1, <1>2, <1>3, <1>4, <1>5
  <2> QED
    BY <2>1, <1>1, <1>3, <1>8, Quotient
<1>10. ASSUME NEW j \in 1 .. r + n
       PROVE  state'.buf[j] = Byte(p + j)
  <2> HIDE DEF p
  <2>1. j \in 1 .. BlockSize /\ j <= r + n
    BY <1>1, <1>3, <1>5
  <2>2. state'.buf[j] = IF r < j THEN bytes[j - r] ELSE state.buf[j]
    BY <2>1, <1>7, <1>8
  <2>3. CASE r < j
    <3>1. j - r \in 1 .. n /\ c + (j - r) = p + j
      BY <2>1, <2>3, <1>3
    <3> QED
      BY <2>2, <2>3, <3>1 DEF bytes
  <2>4. CASE ~(r < j)
    <3>1. j \in 1 .. r
      BY <2>4, <1>3
    <3> QED
      BY <2>2, <2>4, <3>1, <1>6
  <2> QED
    BY <2>3, <2>4
<1>11. Streaming'
  BY <1>6, <1>8, <1>9, <1>10 DEF Streaming, Byte
<1> QED
  BY <1>2, <1>8, <1>11 DEF ShaInv, ShaType, Digested

(* A part of a sequence.                                                     *)
LEMMA Part ==
    ASSUME NEW S, NEW s \in Seq(S), NEW m \in Nat, NEW n \in Nat,
           m > 0, m <= n + 1, n <= Len(s)
    PROVE  /\ SubSeq(s, m, n) \in Seq(S) /\ Len(SubSeq(s, m, n)) = n - m + 1
           /\ SubSeq(s, m, n) \in [1 .. n - m + 1 -> S]
           /\ \A j \in 1 .. n - m + 1 : SubSeq(s, m, n)[j] = s[m - 1 + j]
<1>1. SubSeq(s, m, n) \in Seq(S) /\ Len(SubSeq(s, m, n)) = n - m + 1
  OBVIOUS
<1>2. SubSeq(s, m, n) \in [1 .. n - m + 1 -> S]
  <2>1. \A f \in Seq(S) : f \in [1 .. Len(f) -> S]
    OBVIOUS
  <2> QED
    BY <1>1, <2>1
<1>3. ASSUME NEW j \in 1 .. n - m + 1
      PROVE  SubSeq(s, m, n)[j] = s[m - 1 + j]
  OBVIOUS
<1> QED
  BY <1>1, <1>2, <1>3

(* Two sequences, one behind the other.                                      *)
LEMMA Concatenation ==
    ASSUME NEW S, NEW s \in Seq(S), NEW t \in Seq(S)
    PROVE  /\ s \o t \in Seq(S) /\ Len(s \o t) = Len(s) + Len(t)
           /\ \A j \in 1 .. Len(s) : (s \o t)[j] = s[j]
           /\ \A j \in 1 .. Len(t) : (s \o t)[Len(s) + j] = t[j]
  OBVIOUS

(* Piece k of a sequence lies inside it if there are as many.                *)
LEMMA Piece ==
    ASSUME NEW w \in Nat, NEW k \in 1 .. w, NEW b \in Nat
    PROVE  /\ (k - 1) * b \in Nat /\ k * b \in Nat /\ w * b \in Nat
           /\ (k - 1) * b + b = k * b /\ k * b <= w * b
<1>1. k \in Nat /\ k - 1 \in Nat /\ w >= k
  OBVIOUS
<1>2. (k - 1) * b \in Nat /\ k * b \in Nat /\ w * b \in Nat /\ k * b <= w * b
  BY <1>1, Times
<1>3. ((k - 1) + 1) * b = (k - 1) * b + 1 * b /\ 1 * b = b
  BY <1>1, Times
<1>4. (k - 1) + 1 = k
  BY <1>1
<1> QED
  BY <1>2, <1>3, <1>4

(* A chunk that finishes the block: the buffer with its beginning is the     *)
(* next block, whole blocks of it follow, and the rest begins the buffer.    *)
LEMMA LongStep ==
    ASSUME ShaInv, phase = "open", NEW n \in Nat \ {0},
           phase' = phase, hashes' = hashes,
           UpdateLong([j \in 1 .. n |-> Byte(state.count + j)], state.count % BlockSize)
    PROVE  ShaInv'
<1> DEFINE c     == state.count
           q     == c \div BlockSize
           r     == c % BlockSize
           p     == q * BlockSize
           bytes == [j \in 1 .. n |-> Byte(c + j)]
           full  == Into(state.buf, r, SubSeq(bytes, 1, BlockSize - r))
           left  == SubSeq(bytes, BlockSize - r + 1, Len(bytes))
           w     == Len(left) \div BlockSize
           Cut(k) == SubSeq(left, (k - 1) * BlockSize + 1, k * BlockSize)
           rest  == SubSeq(left, w * BlockSize + 1, Len(left))
           next  == Append(state.blocks, full) \o [k \in 1 .. w |-> Cut(k)]
<1>1. BlockSize \in Nat /\ BlockSize > 0
  BY ShaAssumption
<1>2. c \in Nat /\ hashes \in Nat /\ state.buf \in Block /\ state.blocks \in Seq(Block)
  BY DEF ShaInv, ShaType
<1>3. q \in Nat /\ r \in Nat /\ r < BlockSize /\ c = p + r /\ p \in Nat
  BY <1>1, <1>2, Division, Times
<1>4. bytes \in Seq(Symbols) /\ Len(bytes) = n
  BY <1>2, Sequence, SymbolTypes
<1>5. /\ n >= BlockSize - r
      /\ state' = [count |-> c + Len(bytes), buf |-> Into(full, 0, rest),
                   blocks |-> next]
  BY <1>4 DEF UpdateLong, Transform
<1>6. /\ Len(state.blocks) = q
      /\ \A k \in 1 .. q, j \in 1 .. BlockSize :
            state.blocks[k][j] = Byte((k - 1) * BlockSize + j)
      /\ \A j \in 1 .. r : state.buf[j] = Byte(p + j)
  BY DEF ShaInv, Streaming
<1>7. \A j \in 1 .. n : bytes[j] = Byte(c + j)
  OBVIOUS
<1> HIDE DEF q, r, bytes, next
<1>8. /\ BlockSize - r \in Nat /\ BlockSize - r <= n /\ BlockSize - r > 0
      /\ c + (BlockSize - r) = p + BlockSize
  BY <1>1, <1>2, <1>3, <1>4, <1>5
<1> HIDE DEF p, c
<1>9. /\ full \in Block
      /\ \A j \in 1 .. BlockSize : full[j] = Byte(p + j)
  <2> DEFINE head == SubSeq(bytes, 1, BlockSize - r)
  <2>1. /\ head \in Seq(Symbols) /\ Len(head) = BlockSize - r
        /\ \A j \in 1 .. BlockSize - r : head[j] = bytes[j]
    BY <1>4, <1>8, Part
  <2> HIDE DEF head
  <2>2. /\ Into(state.buf, r, head) \in Block
        /\ \A j \in 1 .. BlockSize :
              Into(state.buf, r, head)[j]
                  = IF r < j /\ j <= r + Len(head) THEN head[j - r] ELSE state.buf[j]
    <3>1. state.buf \in Block /\ r \in Nat /\ head \in Seq(Symbols)
      BY <1>2, <1>3, <2>1
    <3> QED
      BY <3>1, Copied
  <2>3. ASSUME NEW j \in 1 .. BlockSize
        PROVE  Into(state.buf, r, head)[j] = Byte(p + j)
    <3>1. CASE r < j
      <4>1. /\ j - r \in 1 .. BlockSize - r /\ j - r \in 1 .. n /\ j <= r + Len(head)
            /\ c + (j - r) = p + j
        BY <3>1, <1>1, <1>3, <1>8, <2>1
      <4> QED
        BY <3>1, <4>1, <2>1, <2>2, <1>7
    <3>2. CASE ~(r < j)
      <4>1. j \in 1 .. r
        BY <3>2, <1>3
      <4> QED
        BY <3>2, <4>1, <2>2, <1>6
    <3> QED
      BY <3>1, <3>2
  <2> QED
    BY <2>2, <2>3 DEF head
<1>10. /\ left \in Seq(Symbols) /\ Len(left) = n - (BlockSize - r)
       /\ \A j \in 1 .. Len(left) : left[j] = Byte(p + BlockSize + j)
  <2>1. /\ left \in Seq(Symbols) /\ Len(left) = n - (BlockSize - r)
        /\ \A j \in 1 .. n - (BlockSize - r) : left[j] = bytes[(BlockSize - r) + j]
    BY <1>4, <1>8, Part
  <2> HIDE DEF left
  <2>2. ASSUME NEW j \in 1 .. Len(left)
        PROVE  left[j] = Byte(p + BlockSize + j)
    <3>1. /\ j \in 1 .. n - (BlockSize - r) /\ (BlockSize - r) + j \in 1 .. n
          /\ c + ((BlockSize - r) + j) = p + BlockSize + j
      BY <2>1, <1>1, <1>3, <1>8
    <3> QED
      BY <3>1, <2>1, <1>7
  <2> QED
    BY <2>1, <2>2
<1> HIDE DEF full, left
<1>11. /\ w \in Nat /\ Len(left) % BlockSize \in Nat /\ Len(left) % BlockSize < BlockSize
       /\ Len(left) = w * BlockSize + (Len(left) % BlockSize) /\ w * BlockSize \in Nat
  <2>1. Len(left) \in Nat
    BY <1>10
  <2> QED
    BY <2>1, <1>1, Division, Times
<1> HIDE DEF w
<1>12. /\ rest \in Seq(Symbols) /\ Len(rest) = Len(left) % BlockSize
       /\ \A j \in 1 .. Len(rest) : rest[j] = Byte(p + BlockSize + w * BlockSize + j)
  <2> DEFINE v == w * BlockSize
  <2>1. v \in Nat /\ v <= Len(left) /\ Len(left) - v = Len(left) % BlockSize
    BY <1>10, <1>11
  <2> HIDE DEF v
  <2>2. Len(left) \in Nat /\ left \in Seq(Symbols)
    BY <1>10
  <2>3. /\ SubSeq(left, v + 1, Len(left)) \in Seq(Symbols)
        /\ Len(SubSeq(left, v + 1, Len(left))) = Len(left) - v
        /\ \A j \in 1 .. Len(left) - v : SubSeq(left, v + 1, Len(left))[j] = left[v + j]
    BY <2>1, <2>2, Part
  <2>4. ASSUME NEW j \in 1 .. Len(left) - v
        PROVE  left[v + j] = Byte(p + BlockSize + v + j)
    <3>1. v + j \in 1 .. Len(left) /\ p + BlockSize + v + j = p + BlockSize + (v + j)
      BY <2>1, <2>2, <1>1, <1>3
    <3> QED
      BY <3>1, <1>10
  <2> QED
    BY <2>1, <2>3, <2>4 DEF v
<1>13. ASSUME NEW k \in 1 .. w
       PROVE  /\ Cut(k) \in Block
              /\ \A j \in 1 .. BlockSize :
                    Cut(k)[j] = Byte(p + BlockSize + (k - 1) * BlockSize + j)
  <2> DEFINE u == (k - 1) * BlockSize
             v == k * BlockSize
  <2>1. u \in Nat /\ v \in Nat /\ v = u + BlockSize /\ v <= w * BlockSize
    BY <1>1, <1>11, Piece
  <2>2. v <= Len(left) /\ left \in Seq(Symbols)
    BY <2>1, <1>10, <1>11
  <2> HIDE DEF u, v
  <2>3. /\ SubSeq(left, u + 1, v) \in [1 .. BlockSize -> Symbols]
        /\ \A j \in 1 .. BlockSize : SubSeq(left, u + 1, v)[j] = left[u + j]
    <3>1. v - (u + 1) + 1 = BlockSize /\ u + 1 \in Nat /\ u + 1 > 0 /\ u + 1 <= v + 1
          /\ (u + 1) - 1 = u
      BY <2>1, <1>1
    <3>2. /\ SubSeq(left, u + 1, v) \in [1 .. v - (u + 1) + 1 -> Symbols]
          /\ \A j \in 1 .. v - (u + 1) + 1 :
                SubSeq(left, u + 1, v)[j] = left[(u + 1) - 1 + j]
      BY <2>1, <2>2, <3>1, Part
    <3> QED
      BY <3>1, <3>2
  <2>4. ASSUME NEW j \in 1 .. BlockSize
        PROVE  left[u + j] = Byte(p + BlockSize + u + j)
    <3>1. u + j \in 1 .. Len(left) /\ p + BlockSize + u + j = p + BlockSize + (u + j)
      BY <2>1, <2>2, <1>1, <1>3
    <3> QED
      BY <3>1, <1>10
  <2> QED
    BY <2>3, <2>4 DEF u, v, Block
<1> HIDE DEF rest, Cut
<1>14. /\ Into(full, 0, rest) \in Block
       /\ \A j \in 1 .. Len(rest) : Into(full, 0, rest)[j] = rest[j]
  <2>1. /\ Into(full, 0, rest) \in Block
        /\ \A j \in 1 .. BlockSize :
              Into(full, 0, rest)[j]
                  = IF 0 < j /\ j <= 0 + Len(rest) THEN rest[j - 0] ELSE full[j]
    <3>1. full \in Block /\ 0 \in Nat /\ rest \in Seq(Symbols)
      BY <1>9, <1>12
    <3> QED
      BY <3>1, Copied
  <2>2. ASSUME NEW j \in 1 .. Len(rest)
        PROVE  j \in 1 .. BlockSize /\ 0 < j /\ j <= 0 + Len(rest) /\ j - 0 = j
    BY <1>1, <1>11, <1>12
  <2> QED
    BY <2>1, <2>2
<1>15. /\ next \in Seq(Block) /\ Len(next) = q + 1 + w
       /\ \A k \in 1 .. q : next[k] = state.blocks[k]
       /\ next[q + 1] = full
       /\ \A k \in 1 .. w : next[q + 1 + k] = Cut(k)
  <2> DEFINE first == Append(state.blocks, full)
             tail  == [k \in 1 .. w |-> Cut(k)]
  <2>1. /\ first \in Seq(Block) /\ Len(first) = q + 1
        /\ \A k \in 1 .. q : first[k] = state.blocks[k]
        /\ first[q + 1] = full
    BY <1>2, <1>3, <1>6, <1>9
  <2>2. tail \in Seq(Block) /\ Len(tail) = w /\ \A k \in 1 .. w : tail[k] = Cut(k)
    <3>1. tail \in [1 .. w -> Block]
      BY <1>13
    <3> QED
      BY <3>1, <1>11, Sequence
  <2>3. next = first \o tail
    BY DEF next
  <2> HIDE DEF first, tail
  <2>4. next \in Seq(Block) /\ Len(next) = q + 1 + w
    <3>1. next \in Seq(Block) /\ Len(next) = Len(first) + Len(tail)
      BY <2>1, <2>2, <2>3, Concatenation
    <3> QED
      BY <3>1, <2>1, <2>2, <1>3, <1>11
  <2>5. ASSUME NEW k \in 1 .. q + 1
        PROVE  next[k] = first[k]
    BY <2>1, <2>2, <2>3, <1>3, <1>11
  <2>6. ASSUME NEW k \in 1 .. w
        PROVE  next[q + 1 + k] = tail[k]
    BY <2>1, <2>2, <2>3, <1>3, <1>11
  <2>7. q + 1 \in 1 .. q + 1 /\ \A k \in 1 .. q : k \in 1 .. q + 1
    BY <1>3
  <2> QED
    BY <2>1, <2>2, <2>4, <2>5, <2>6, <2>7
<1>16. /\ state'.count = c + n /\ state'.buf = Into(full, 0, rest) /\ state'.blocks = next
       /\ state' \in [count : Nat, buf : Block, blocks : Seq(Block)]
  BY <1>2, <1>4, <1>5, <1>14, <1>15
<1>17. /\ (q + 1 + w) * BlockSize = p + BlockSize + w * BlockSize
       /\ q + 1 + w \in Nat
  <2>1. (q + (1 + w)) * BlockSize = q * BlockSize + (1 + w) * BlockSize
    BY <1>1, <1>3, <1>11, Times
  <2>2. (1 + w) * BlockSize = 1 * BlockSize + w * BlockSize /\ 1 * BlockSize = BlockSize
    BY <1>1, <1>11, Times
  <2>3. q + 1 + w = q + (1 + w) /\ q + 1 + w \in Nat
    BY <1>3, <1>11
  <2> QED
    BY <2>1, <2>2, <2>3, <1>1, <1>3, <1>11 DEF p
<1>18. /\ state'.count \div BlockSize = q + 1 + w
       /\ state'.count % BlockSize = Len(rest)
  <2>1. /\ c + n = (q + 1 + w) * BlockSize + Len(rest) /\ c + n \in Nat
        /\ Len(rest) \in Nat /\ Len(rest) < BlockSize
    BY <1>1, <1>2, <1>3, <1>8, <1>10, <1>11, <1>12, <1>17
  <2> QED
    BY <2>1, <1>1, <1>16, <1>17, Quotient
<1>19. ASSUME NEW k \in 1 .. q + 1 + w, NEW j \in 1 .. BlockSize
       PROVE  next[k][j] = Byte((k - 1) * BlockSize + j)
  <2>1. CASE k \in 1 .. q
    BY <2>1, <1>6, <1>15
  <2>2. CASE k = q + 1
    <3>1. (k - 1) * BlockSize = p
      BY <2>2, <1>3 DEF p
    <3> QED
      BY <3>1, <2>2, <1>9, <1>15
  <2>3. CASE k \in q + 2 .. q + 1 + w
    <3> DEFINE m == k - (q + 1)
    <3>1. m \in 1 .. w /\ k = q + 1 + m /\ k - 1 = q + (1 + (m - 1)) /\ m - 1 \in Nat
      BY <2>3, <1>3, <1>11
    <3> HIDE DEF m
    <3>2. (q + (1 + (m - 1))) * BlockSize = q * BlockSize + (1 + (m - 1)) * BlockSize
      BY <3>1, <1>1, <1>3, Times
    <3>3. (1 + (m - 1)) * BlockSize = 1 * BlockSize + (m - 1) * BlockSize
          /\ 1 * BlockSize = BlockSize /\ (m - 1) * BlockSize \in Nat
      BY <3>1, <1>1, Times
    <3>4. (k - 1) * BlockSize = p + BlockSize + (m - 1) * BlockSize
      BY <3>1, <3>2, <3>3, <1>1, <1>3 DEF p
    <3> QED
      BY <3>1, <3>4, <1>13, <1>15
  <2> QED
    BY <2>1, <2>2, <2>3, <1>3, <1>11
<1>20. \A j \in 1 .. Len(rest) : state'.buf[j] = Byte((q + 1 + w) * BlockSize + j)
  BY <1>12, <1>14, <1>16, <1>17
<1>21. Streaming'
  BY <1>15, <1>16, <1>18, <1>19, <1>20 DEF Streaming, Byte
<1> QED
  BY <1>2, <1>16, <1>21 DEF ShaInv, ShaType, Digested

(* A sequence of equal elements.                                             *)
LEMMA Repeated ==
    ASSUME NEW S, NEW x \in S, NEW n \in Nat
    PROVE  /\ Repeat(x, n) \in Seq(S) /\ Len(Repeat(x, n)) = n
           /\ \A j \in 1 .. n : Repeat(x, n)[j] = x
  BY Sequence DEF Repeat

(* The standard, element by element.                                         *)
LEMMA StandardElements ==
    ASSUME hashes \in Nat, NEW n \in Nat, NEW z \in Nat,
           z = (BlockSize - ((n + 1 + LengthSize) % BlockSize)) % BlockSize
    PROVE  /\ Len(Standard(n)) = n + 1 + z + LengthSize
           /\ \A j \in 1 .. n : Standard(n)[j] = Byte(j)
           /\ Standard(n)[n + 1] = Mark
           /\ \A j \in 1 .. z : Standard(n)[n + 1 + j] = Zero
           /\ \A j \in 1 .. LengthSize : Standard(n)[n + 1 + z + j] = Length(n, j)
<1> DEFINE message == [j \in 1 .. n |-> Byte(j)]
           length  == [j \in 1 .. LengthSize |-> Length(n, j)]
           marked  == message \o <<Mark>>
           padded  == marked \o Repeat(Zero, z)
<1>1. LengthSize \in Nat
  BY ShaAssumption
<1>2. Standard(n) = padded \o length
  BY DEF Standard
<1>3. message \in Seq(Symbols) /\ Len(message) = n /\ \A j \in 1 .. n : message[j] = Byte(j)
  BY SymbolTypes, Sequence
<1>4. /\ length \in Seq(Symbols) /\ Len(length) = LengthSize
      /\ \A j \in 1 .. LengthSize : length[j] = Length(n, j)
  BY <1>1, SymbolTypes, Sequence
<1>5. <<Mark>> \in Seq(Symbols) /\ Len(<<Mark>>) = 1 /\ <<Mark>>[1] = Mark
  BY SymbolTypes
<1>6. /\ Repeat(Zero, z) \in Seq(Symbols) /\ Len(Repeat(Zero, z)) = z
      /\ \A j \in 1 .. z : Repeat(Zero, z)[j] = Zero
  BY SymbolTypes, Repeated
<1> HIDE DEF message, length
<1>7. /\ marked \in Seq(Symbols) /\ Len(marked) = n + 1
      /\ \A j \in 1 .. n : marked[j] = Byte(j)
      /\ marked[n + 1] = Mark
  <2>1. /\ marked \in Seq(Symbols) /\ Len(marked) = Len(message) + Len(<<Mark>>)
        /\ \A j \in 1 .. Len(message) : marked[j] = message[j]
        /\ \A j \in 1 .. Len(<<Mark>>) : marked[Len(message) + j] = <<Mark>>[j]
    BY <1>3, <1>5, Concatenation
  <2> HIDE DEF marked
  <2>2. 1 \in 1 .. Len(<<Mark>>)
    BY <1>5
  <2> QED
    BY <2>1, <2>2, <1>3, <1>5
<1> HIDE DEF marked
<1>8. /\ padded \in Seq(Symbols) /\ Len(padded) = n + 1 + z
      /\ \A j \in 1 .. n + 1 : padded[j] = marked[j]
      /\ \A j \in 1 .. z : padded[n + 1 + j] = Zero
  <2> DEFINE zeros == Repeat(Zero, z)
  <2>1. /\ marked \o zeros \in Seq(Symbols) /\ Len(marked \o zeros) = Len(marked) + Len(zeros)
        /\ \A j \in 1 .. Len(marked) : (marked \o zeros)[j] = marked[j]
        /\ \A j \in 1 .. Len(zeros) : (marked \o zeros)[Len(marked) + j] = zeros[j]
    <3>1. marked \in Seq(Symbols) /\ zeros \in Seq(Symbols)
      BY <1>6, <1>7
    <3> QED
      BY <3>1, Concatenation
  <2> QED
    BY <2>1, <1>6, <1>7
<1> HIDE DEF padded
<1>9. /\ Len(padded \o length) = n + 1 + z + LengthSize
      /\ \A j \in 1 .. n + 1 + z : (padded \o length)[j] = padded[j]
      /\ \A j \in 1 .. LengthSize : (padded \o length)[n + 1 + z + j] = Length(n, j)
  <2>1. /\ Len(padded \o length) = Len(padded) + Len(length)
        /\ \A j \in 1 .. Len(padded) : (padded \o length)[j] = padded[j]
        /\ \A j \in 1 .. Len(length) : (padded \o length)[Len(padded) + j] = length[j]
    <3>1. padded \in Seq(Symbols) /\ length \in Seq(Symbols)
      BY <1>4, <1>8
    <3> QED
      BY <3>1, Concatenation
  <2> QED
    BY <2>1, <1>4, <1>8
<1>10. /\ \A j \in 1 .. n : j \in 1 .. n + 1 /\ j \in 1 .. n + 1 + z
       /\ n + 1 \in 1 .. n + 1 /\ n + 1 \in 1 .. n + 1 + z
       /\ \A j \in 1 .. z : n + 1 + j \in 1 .. n + 1 + z
  OBVIOUS
<1> QED
  BY <1>2, <1>7, <1>8, <1>9, <1>10

(* How many zeros the standard asks for: the mark, the zeros and the length  *)
(* fill the block, or it and another one.                                    *)
LEMMA Zeros ==
    ASSUME NEW q \in Nat, NEW r \in Nat, r < BlockSize,
           NEW n \in Nat, n = q * BlockSize + r
    PROVE  (BlockSize - ((n + 1 + LengthSize) % BlockSize)) % BlockSize
               = IF r < BlockSize - LengthSize
                 THEN BlockSize - LengthSize - r - 1
                 ELSE 2 * BlockSize - LengthSize - r - 1
<1> DEFINE a == n + 1 + LengthSize
<1>1. /\ BlockSize \in Nat /\ LengthSize \in Nat /\ 1 <= LengthSize
      /\ LengthSize < BlockSize
  BY ShaAssumption
<1>2. /\ q * BlockSize \in Nat /\ (q + 1) * BlockSize = q * BlockSize + BlockSize
      /\ 0 * BlockSize = 0 /\ 1 * BlockSize = BlockSize
  BY <1>1, Times
<1>3. CASE r + 1 + LengthSize < BlockSize
  <2>1. a \in Nat /\ r + 1 + LengthSize \in Nat /\ a = q * BlockSize + (r + 1 + LengthSize)
    BY <1>1, <1>2
  <2>2. a % BlockSize = r + 1 + LengthSize
    BY <2>1, <1>1, <1>3, Quotient
  <2> DEFINE d == BlockSize - (r + 1 + LengthSize)
  <2>3. d \in Nat /\ d < BlockSize /\ d = 0 * BlockSize + d
    BY <1>1, <1>2, <1>3
  <2>4. d % BlockSize = d
    BY <2>3, <1>1, Quotient
  <2> QED
    BY <2>2, <2>4, <1>1, <1>3
<1>4. CASE r + 1 + LengthSize = BlockSize
  <2>1. a \in Nat /\ q + 1 \in Nat /\ a = (q + 1) * BlockSize + 0
        /\ 0 \in Nat /\ 0 < BlockSize
    BY <1>1, <1>2, <1>4
  <2>2. a % BlockSize = 0
    BY <2>1, <1>1, Quotient
  <2>3. BlockSize = 1 * BlockSize + 0
    BY <1>1, <1>2
  <2>4. BlockSize % BlockSize = 0
    BY <2>3, <1>1, Quotient
  <2> QED
    BY <2>2, <2>4, <1>1, <1>4
<1>5. CASE r + 1 + LengthSize > BlockSize
  <2> DEFINE x == r + 1 + LengthSize - BlockSize
             d == BlockSize - x
  <2>1. a \in Nat /\ q + 1 \in Nat /\ x \in Nat /\ x < BlockSize /\ x > 0
        /\ a = (q + 1) * BlockSize + x
    BY <1>1, <1>2, <1>5
  <2>2. a % BlockSize = x
    BY <2>1, <1>1, Quotient
  <2>3. d \in Nat /\ d < BlockSize /\ d = 0 * BlockSize + d
    BY <2>1, <1>1, <1>2
  <2>4. d % BlockSize = d
    BY <2>3, <1>1, Quotient
  <2> QED
    BY <2>2, <2>4, <1>1, <1>5
<1> QED
  BY <1>1, <1>3, <1>4, <1>5

(* The blocks that are in place and the one or two of the padding make up    *)
(* the standard.                                                             *)
LEMMA PadStep ==
    ASSUME ShaInv, phase = "open", phase' = "final", hashes' = hashes,
           LET r == state.count % BlockSize IN PadShort(r) \/ PadLong(r)
    PROVE  ShaInv'
<1> DEFINE c     == state.count
           q     == c \div BlockSize
           r     == c % BlockSize
           p     == q * BlockSize
           z     == (BlockSize - ((c + 1 + LengthSize) % BlockSize)) % BlockSize
           len   == [j \in 1 .. LengthSize |-> Length(c, j)]
           room  == BlockSize - LengthSize
           End(b) == Into(b, room, len)
<1>1. /\ BlockSize \in Nat /\ LengthSize \in Nat /\ 1 <= LengthSize
      /\ LengthSize < BlockSize /\ room \in Nat /\ BlockSize > 0
  BY ShaAssumption
<1>2. c \in Nat /\ hashes \in Nat /\ state.buf \in Block /\ state.blocks \in Seq(Block)
  BY DEF ShaInv, ShaType
<1>3. q \in Nat /\ r \in Nat /\ r < BlockSize /\ c = p + r /\ p \in Nat
  BY <1>1, <1>2, Division, Times
<1>4. /\ Len(state.blocks) = q
      /\ \A k \in 1 .. q, j \in 1 .. BlockSize :
            state.blocks[k][j] = Byte((k - 1) * BlockSize + j)
      /\ \A j \in 1 .. r : state.buf[j] = Byte(p + j)
  BY DEF ShaInv, Streaming
<1>5. z = IF r < room THEN room - r - 1 ELSE BlockSize + room - r - 1
  <2>1. q \in Nat /\ r \in Nat /\ r < BlockSize /\ c \in Nat /\ c = q * BlockSize + r
    BY <1>2, <1>3
  <2>2. z = IF r < BlockSize - LengthSize THEN BlockSize - LengthSize - r - 1
                                          ELSE 2 * BlockSize - LengthSize - r - 1
    <3> HIDE DEF c, q, r
    <3> QED
      BY <2>1, Zeros
  <2> HIDE DEF z, r
  <2> QED
    BY <2>2, <1>1, <1>3
<1>6. \/ /\ r < room
         /\ state' = [count  |-> c,
                      buf    |-> End(Into(state.buf, r, <<Mark>> \o Repeat(Zero, room - r - 1))),
                      blocks |-> Append(state.blocks,
                             End(Into(state.buf, r, <<Mark>> \o Repeat(Zero, room - r - 1))))]
      \/ /\ ~(r < room)
         /\ LET full == Into(state.buf, r, <<Mark>> \o Repeat(Zero, BlockSize - r - 1))
                last == End(Into(full, 0, Repeat(Zero, room)))
            IN  state' = [count |-> c, buf |-> last,
                          blocks |-> Append(Append(state.blocks, full), last)]
  <2>1. CASE PadShort(r)
    BY <2>1 DEF PadShort, Finish, Transform
  <2>2. CASE PadLong(r)
    <3>1. r >= room /\ room \in Nat /\ r \in Nat
      BY <2>2, <1>1, <1>3 DEF PadLong
    <3>2. ~(r < room)
      BY <3>1
    <3> QED
      BY <2>2, <3>2 DEF PadLong, Finish, Transform
  <2> QED
    BY <2>1, <2>2
<1>7. /\ Len(Standard(c)) = c + 1 + z + LengthSize
      /\ \A j \in 1 .. c : Standard(c)[j] = Byte(j)
      /\ Standard(c)[c + 1] = Mark
      /\ \A j \in 1 .. z : Standard(c)[c + 1 + j] = Zero
      /\ \A j \in 1 .. LengthSize : Standard(c)[c + 1 + z + j] = Length(c, j)
  <2>1. z \in Nat
    <3> HIDE DEF c, q, r, z
    <3> QED
      BY <1>1, <1>3, <1>5
  <2> QED
    BY <2>1, <1>2, StandardElements
<1> HIDE DEF c, q, r, z
(* The end of the message, the mark and so many zeros.                       *)
<1>8. ASSUME NEW m \in Nat, r + 1 + m <= BlockSize
      PROVE  LET b == Into(state.buf, r, <<Mark>> \o Repeat(Zero, m))
             IN  /\ b \in Block
                 /\ \A j \in 1 .. r : b[j] = Byte(p + j)
                 /\ b[r + 1] = Mark
                 /\ \A j \in r + 2 .. r + 1 + m : b[j] = Zero
  <2> DEFINE zeros == Repeat(Zero, m)
             added == <<Mark>> \o zeros
  <2>1. zeros \in Seq(Symbols) /\ Len(zeros) = m /\ \A j \in 1 .. m : zeros[j] = Zero
    BY <1>2, <1>8, SymbolTypes, Repeated
  <2>2. <<Mark>> \in Seq(Symbols) /\ Len(<<Mark>>) = 1 /\ <<Mark>>[1] = Mark
    BY <1>2, SymbolTypes
  <2> HIDE DEF zeros
  <2>3. /\ added \in Seq(Symbols) /\ Len(added) = Len(<<Mark>>) + Len(zeros)
        /\ \A j \in 1 .. Len(<<Mark>>) : added[j] = <<Mark>>[j]
        /\ \A j \in 1 .. Len(zeros) : added[Len(<<Mark>>) + j] = zeros[j]
    BY <2>1, <2>2, Concatenation
  <2> HIDE DEF added
  <2>4. Len(added) = 1 + m /\ added[1] = Mark /\ \A j \in 1 .. m : added[1 + j] = Zero
    <3>1. 1 \in 1 .. Len(<<Mark>>)
      BY <2>2
    <3>2. Len(added) = 1 + m /\ added[1] = Mark
      BY <2>1, <2>2, <2>3, <3>1
    <3>3. ASSUME NEW j \in 1 .. m
          PROVE  added[1 + j] = Zero
      BY <2>1, <2>2, <2>3
    <3> QED
      BY <3>2, <3>3
  <2> DEFINE b == Into(state.buf, r, added)
  <2>5. /\ b \in Block
        /\ \A j \in 1 .. BlockSize :
              b[j] = IF r < j /\ j <= r + Len(added) THEN added[j - r] ELSE state.buf[j]
    <3>1. state.buf \in Block /\ r \in Nat /\ added \in Seq(Symbols)
      BY <1>2, <1>3, <2>3
    <3> QED
      BY <3>1, Copied
  <2> HIDE DEF b
  <2>6. ASSUME NEW j \in 1 .. r
        PROVE  b[j] = Byte(p + j)
    <3>1. j \in 1 .. BlockSize /\ ~(r < j)
      BY <1>1, <1>3
    <3> QED
      BY <3>1, <2>5, <1>4
  <2>7. b[r + 1] = Mark
    <3>1. r + 1 \in 1 .. BlockSize /\ r < r + 1 /\ r + 1 <= r + Len(added) /\ (r + 1) - r = 1
      BY <1>1, <1>3, <1>8, <2>4
    <3> QED
      BY <3>1, <2>4, <2>5
  <2>8. ASSUME NEW j \in r + 2 .. r + 1 + m
        PROVE  b[j] = Zero
    <3> DEFINE h == j - r - 1
    <3>1. /\ j \in 1 .. BlockSize /\ r < j /\ j <= r + Len(added)
          /\ h \in 1 .. m /\ j - r = 1 + h
      BY <1>1, <1>3, <1>8, <2>4
    <3> HIDE DEF h
    <3> QED
      BY <3>1, <2>4, <2>5
  <2> QED
    BY <2>5, <2>6, <2>7, <2>8 DEF b, added, zeros
(* The length in the last bytes of a block.                                  *)
<1>9. ASSUME NEW b \in Block
      PROVE  /\ End(b) \in Block
             /\ \A j \in 1 .. room : End(b)[j] = b[j]
             /\ \A j \in 1 .. LengthSize : End(b)[room + j] = Length(c, j)
  <2>1. /\ len \in Seq(Symbols) /\ Len(len) = LengthSize
        /\ \A j \in 1 .. LengthSize : len[j] = Length(c, j)
    BY <1>1, <1>2, SymbolTypes, Sequence
  <2> HIDE DEF len
  <2>2. /\ End(b) \in Block
        /\ \A j \in 1 .. BlockSize :
              End(b)[j] = IF room < j /\ j <= room + Len(len) THEN len[j - room] ELSE b[j]
    <3>1. b \in Block /\ room \in Nat /\ len \in Seq(Symbols)
      BY <1>1, <2>1
    <3> HIDE DEF room
    <3> QED
      BY <3>1, Copied
  <2> HIDE DEF End
  <2>3. ASSUME NEW j \in 1 .. room
        PROVE  End(b)[j] = b[j]
    BY <2>2, <1>1
  <2>4. ASSUME NEW j \in 1 .. LengthSize
        PROVE  End(b)[room + j] = Length(c, j)
    <3>1. /\ room + j \in 1 .. BlockSize /\ room < room + j /\ room + j <= room + Len(len)
          /\ (room + j) - room = j
      BY <1>1, <2>1
    <3> QED
      BY <3>1, <2>1, <2>2
  <2> QED
    BY <2>2, <2>3, <2>4
(* The blocks in place are the beginning of the standard.                    *)
<1>10. ASSUME NEW k \in 1 .. q, NEW j \in 1 .. BlockSize
       PROVE  state.blocks[k][j] = Standard(c)[(k - 1) * BlockSize + j]
  <2>1. /\ (k - 1) * BlockSize \in Nat
        /\ (k - 1) * BlockSize + BlockSize = k * BlockSize /\ k * BlockSize <= p
    BY <1>1, <1>3, Piece
  <2> DEFINE u == (k - 1) * BlockSize
  <2>2. u + j \in 1 .. c
    BY <2>1, <1>1, <1>2, <1>3
  <2> HIDE DEF u
  <2>3. Standard(c)[u + j] = Byte(u + j)
    BY <2>2, <1>7
  <2> QED
    BY <2>3, <1>4 DEF u
<1>11. (q + 1) * BlockSize = p + BlockSize /\ (q + 2) * BlockSize = p + BlockSize + BlockSize
  <2>1. (q + 1) * BlockSize = q * BlockSize + 1 * BlockSize /\ 1 * BlockSize = BlockSize
    BY <1>1, <1>3, Times
  <2>2. q + 1 \in Nat /\ (q + 1) + 1 = q + 2
    BY <1>3
  <2>3. ((q + 1) + 1) * BlockSize = (q + 1) * BlockSize + 1 * BlockSize
    BY <2>2, <1>1, Times
  <2> QED
    BY <2>1, <2>2, <2>3
<1> HIDE DEF End
(* All blocks, if there are the right ones behind those.                     *)
<1>12. ASSUME NEW s \in Seq(Block), NEW b \in Block, s = Append(state.blocks, b),
              \A j \in 1 .. BlockSize : b[j] = Standard(c)[p + j]
       PROVE  /\ Len(s) = q + 1
              /\ \A k \in 1 .. q + 1, j \in 1 .. BlockSize :
                    s[k][j] = Standard(c)[(k - 1) * BlockSize + j]
  <2>1. Len(s) = q + 1 /\ s[q + 1] = b /\ \A k \in 1 .. q : s[k] = state.blocks[k]
    BY <1>2, <1>3, <1>4, <1>12
  <2>2. ASSUME NEW k \in 1 .. q + 1, NEW j \in 1 .. BlockSize
        PROVE  s[k][j] = Standard(c)[(k - 1) * BlockSize + j]
    <3>1. CASE k \in 1 .. q
      BY <3>1, <2>1, <1>10
    <3>2. CASE k = q + 1
      <4>1. k - 1 = q
        BY <3>2, <1>3
      <4> QED
        BY <4>1, <3>2, <2>1, <1>12
    <3> QED
      BY <3>1, <3>2, <1>3
  <2> QED
    BY <2>1, <2>2
<1>13. ASSUME NEW s \in Seq(Block), NEW b \in Block,
              state' = [count |-> c, buf |-> b, blocks |-> s],
              Len(Standard(c)) = Len(s) * BlockSize,
              \A k \in 1 .. Len(s), j \in 1 .. BlockSize :
                    s[k][j] = Standard(c)[(k - 1) * BlockSize + j]
       PROVE  ShaInv'
  <2>1. /\ state'.count = c /\ state'.blocks = s
        /\ state' \in [count : Nat, buf : Block, blocks : Seq(Block)]
    BY <1>2, <1>13
  <2>2. ASSUME NEW k \in 1 .. Len(s)
        PROVE  Len(s[k]) = BlockSize
    <3>1. s[k] \in [1 .. BlockSize -> Symbols]
      BY DEF Block
    <3> QED
      BY <3>1, <1>1, Sequence
  <2>3. Len(s) \in Nat /\ Len(s) * BlockSize = BlockSize * Len(s)
    BY <1>1, Times
  <2>4. InPieces(Standard(c), s, BlockSize)
    BY <2>2, <2>3, <1>13 DEF InPieces
  <2>5. Digested'
    BY <2>1, <2>4 DEF Digested, Standard, Byte
  <2> QED
    BY <2>1, <2>5, <1>2 DEF ShaInv, ShaType, Streaming
<1>14. CASE r < room
  <2> DEFINE b    == Into(state.buf, r, <<Mark>> \o Repeat(Zero, room - r - 1))
             last == End(b)
             s    == Append(state.blocks, last)
  <2>1. state' = [count |-> c, buf |-> last, blocks |-> s]
    BY <1>6, <1>14
  <2>2. room - r - 1 \in Nat /\ r + 1 + (room - r - 1) = room /\ room <= BlockSize
    BY <1>1, <1>3, <1>14
  <2>3. /\ b \in Block
        /\ \A j \in 1 .. r : b[j] = Byte(p + j)
        /\ b[r + 1] = Mark
        /\ \A j \in r + 2 .. room : b[j] = Zero
    BY <2>2, <1>8
  <2> HIDE DEF b
  <2>4. /\ last \in Block
        /\ \A j \in 1 .. room : last[j] = b[j]
        /\ \A j \in 1 .. LengthSize : last[room + j] = Length(c, j)
    BY <2>3, <1>9
  <2> HIDE DEF last
  <2>5. z = room - r - 1 /\ c + 1 + z = p + room
    BY <1>1, <1>3, <1>5, <1>14
  <2>6. ASSUME NEW j \in 1 .. BlockSize
        PROVE  last[j] = Standard(c)[p + j]
    <3>1. CASE j \in 1 .. r
      <4>1. j \in 1 .. room /\ p + j \in 1 .. c
        BY <3>1, <1>1, <1>3, <1>14
      <4> QED
        BY <3>1, <4>1, <2>3, <2>4, <1>7
    <3>2. CASE j = r + 1
      <4>1. j \in 1 .. room /\ p + j = c + 1
        BY <3>2, <1>1, <1>3, <1>14
      <4> QED
        BY <3>2, <4>1, <2>3, <2>4, <1>7
    <3>3. CASE j \in r + 2 .. room
      <4> DEFINE h == j - (r + 1)
      <4>1. j \in 1 .. room /\ h \in 1 .. z /\ p + j = c + 1 + h
        BY <3>3, <2>5, <1>1, <1>3, <1>14
      <4> HIDE DEF h
      <4> QED
        BY <3>3, <4>1, <2>3, <2>4, <1>7
    <3>4. CASE j \in room + 1 .. BlockSize
      <4> DEFINE h == j - room
      <4>1. h \in 1 .. LengthSize /\ j = room + h /\ p + j = c + 1 + z + h
        BY <3>4, <2>5, <1>1, <1>2, <1>3
      <4> HIDE DEF h
      <4> QED
        BY <4>1, <2>4, <1>7
    <3> QED
      BY <3>1, <3>2, <3>3, <3>4, <1>1, <1>3
  <2>7. s \in Seq(Block)
    BY <2>4, <1>2
  <2>8. /\ Len(s) = q + 1
        /\ \A k \in 1 .. q + 1, j \in 1 .. BlockSize :
              s[k][j] = Standard(c)[(k - 1) * BlockSize + j]
    BY <2>4, <2>6, <2>7, <1>12
  <2> HIDE DEF s
  <2>9. Len(Standard(c)) = Len(s) * BlockSize
    BY <2>5, <2>8, <1>1, <1>3, <1>7, <1>11
  <2> QED
    BY <2>1, <2>4, <2>7, <2>8, <2>9, <1>13
<1>15. CASE ~(r < room)
  <2> DEFINE full == Into(state.buf, r, <<Mark>> \o Repeat(Zero, BlockSize - r - 1))
             none == Into(full, 0, Repeat(Zero, room))
             last == End(none)
             t    == Append(state.blocks, full)
             s    == Append(t, last)
  <2>1. state' = [count |-> c, buf |-> last, blocks |-> s]
    BY <1>6, <1>15
  <2>2. BlockSize - r - 1 \in Nat /\ r + 1 + (BlockSize - r - 1) = BlockSize
    BY <1>1, <1>3
  <2>3. /\ full \in Block
        /\ \A j \in 1 .. r : full[j] = Byte(p + j)
        /\ full[r + 1] = Mark
        /\ \A j \in r + 2 .. BlockSize : full[j] = Zero
    BY <2>2, <1>1, <1>8
  <2> HIDE DEF full
  <2>4. none \in Block /\ \A j \in 1 .. room : none[j] = Zero
    <3> DEFINE zeros == Repeat(Zero, room)
    <3>1. zeros \in Seq(Symbols) /\ Len(zeros) = room /\ \A j \in 1 .. room : zeros[j] = Zero
      BY <1>1, <1>2, SymbolTypes, Repeated
    <3> HIDE DEF zeros
    <3>2. /\ Into(full, 0, zeros) \in Block
          /\ \A j \in 1 .. BlockSize :
                Into(full, 0, zeros)[j]
                    = IF 0 < j /\ j <= 0 + Len(zeros) THEN zeros[j - 0] ELSE full[j]
      <4>1. 0 \in Nat
        OBVIOUS
      <4> QED
        BY <4>1, <2>3, <3>1, Copied
    <3>3. ASSUME NEW j \in 1 .. room
          PROVE  j \in 1 .. BlockSize /\ 0 < j /\ j <= 0 + Len(zeros) /\ j - 0 = j
      BY <3>1, <1>1
    <3> QED
      BY <3>1, <3>2, <3>3 DEF zeros
  <2> HIDE DEF none
  <2>5. /\ last \in Block
        /\ \A j \in 1 .. room : last[j] = Zero
        /\ \A j \in 1 .. LengthSize : last[room + j] = Length(c, j)
    BY <2>4, <1>9
  <2> HIDE DEF last
  <2>6. z = BlockSize + room - r - 1 /\ c + 1 + z = p + BlockSize + room
    BY <1>1, <1>3, <1>5, <1>15
  <2>7. ASSUME NEW j \in 1 .. BlockSize
        PROVE  full[j] = Standard(c)[p + j]
    <3>1. CASE j \in 1 .. r
      <4>1. p + j \in 1 .. c
        BY <3>1, <1>1, <1>3
      <4> QED
        BY <3>1, <4>1, <2>3, <1>7
    <3>2. CASE j = r + 1
      <4>1. p + j = c + 1
        BY <3>2, <1>3
      <4> QED
        BY <3>2, <4>1, <2>3, <1>7
    <3>3. CASE j \in r + 2 .. BlockSize
      <4> DEFINE h == j - (r + 1)
      <4>1. h \in 1 .. z /\ p + j = c + 1 + h
        BY <3>3, <2>6, <1>1, <1>3, <1>15
      <4> HIDE DEF h
      <4> QED
        BY <3>3, <4>1, <2>3, <1>7
    <3> QED
      BY <3>1, <3>2, <3>3, <1>1, <1>3
  <2>8. ASSUME NEW j \in 1 .. BlockSize
        PROVE  last[j] = Standard(c)[p + BlockSize + j]
    <3>1. CASE j \in 1 .. room
      <4> DEFINE h == BlockSize + j - (r + 1)
      <4>1. h \in 1 .. z /\ p + BlockSize + j = c + 1 + h
        BY <3>1, <2>6, <1>1, <1>3, <1>15
      <4> HIDE DEF h
      <4> QED
        BY <3>1, <4>1, <2>5, <1>7
    <3>2. CASE j \in room + 1 .. BlockSize
      <4> DEFINE h == j - room
      <4>1. h \in 1 .. LengthSize /\ j = room + h /\ p + BlockSize + j = c + 1 + z + h
        BY <3>2, <2>6, <1>1, <1>2, <1>3
      <4> HIDE DEF h
      <4> QED
        BY <4>1, <2>5, <1>7
    <3> QED
      BY <3>1, <3>2, <1>1
  <2>9. t \in Seq(Block)
    BY <2>3, <1>2
  <2>10. /\ Len(t) = q + 1
         /\ \A k \in 1 .. q + 1, j \in 1 .. BlockSize :
               t[k][j] = Standard(c)[(k - 1) * BlockSize + j]
    BY <2>3, <2>7, <2>9, <1>12
  <2> HIDE DEF t
  <2>11. /\ s \in Seq(Block) /\ Len(s) = q + 2 /\ s[q + 2] = last
         /\ \A k \in 1 .. q + 1 : s[k] = t[k]
    BY <2>5, <2>9, <2>10, <1>3
  <2> HIDE DEF s
  <2>12. ASSUME NEW k \in 1 .. q + 2, NEW j \in 1 .. BlockSize
         PROVE  s[k][j] = Standard(c)[(k - 1) * BlockSize + j]
    <3>1. CASE k \in 1 .. q + 1
      BY <3>1, <2>10, <2>11
    <3>2. CASE k = q + 2
      <4>1. k - 1 = q + 1
        BY <3>2, <1>3
      <4> QED
        BY <4>1, <3>2, <2>8, <2>11, <1>11
    <3> QED
      BY <3>1, <3>2, <1>3
  <2>13. Len(Standard(c)) = Len(s) * BlockSize
    BY <2>6, <2>11, <1>1, <1>3, <1>7, <1>11
  <2> QED
    BY <2>1, <2>5, <2>11, <2>12, <2>13, <1>13
<1> QED
  BY <1>14, <1>15

(* Each chunk keeps the invariant of the hash,                               *)
LEMMA UpdateStep ==
    ASSUME ShaInv, NEW n \in Nat, Update(n)
    PROVE  ShaInv'
<1> DEFINE bytes == [j \in 1 .. n |-> Byte(state.count + j)]
<1>1. n \in Nat \ {0} /\ phase = "open" /\ phase' = phase /\ hashes' = hashes
  BY DEF Update
<1>2. UpdateShort(bytes, state.count % BlockSize) \/ UpdateLong(bytes, state.count % BlockSize)
  BY DEF Update
<1> HIDE DEF bytes
<1>3. CASE UpdateShort(bytes, state.count % BlockSize)
  BY <1>1, <1>3, ShortStep DEF bytes
<1>4. CASE UpdateLong(bytes, state.count % BlockSize)
  BY <1>1, <1>4, LongStep DEF bytes
<1> QED
  BY <1>2, <1>3, <1>4

(* and so does each call.                                                    *)
LEMMA ShaStep ==
    ASSUME ShaInv, [Next]_vars
    PROVE  ShaInv'
<1>1. CASE HashInit
  BY <1>1, HashInitStep
<1>2. CASE Final
  <2>1. /\ phase = "open" /\ phase' = "final" /\ hashes' = hashes
        /\ LET r == state.count % BlockSize IN PadShort(r) \/ PadLong(r)
    BY <1>2 DEF Final
  <2> QED
    BY <2>1, PadStep
<1>3. ASSUME NEW n \in 1 .. MaxMessage, Update(n)
      PROVE  ShaInv'
  BY <1>3, UpdateStep
<1>4. CASE UNCHANGED vars
  BY <1>4 DEF vars, ShaInv, ShaType, Streaming, Digested, Standard, Byte
<1> QED
  BY <1>1, <1>2, <1>3, <1>4 DEF Next

(* A new state holds junk, and no hash was begun.                            *)
LEMMA ShaInit ==
    ASSUME Init
    PROVE  ShaInv
<1>1. BlockSize \in Nat /\ Junk \in Symbols
  BY ShaAssumption DEF Symbols
<1>2. /\ [j \in 1 .. BlockSize |-> Junk] \in Block /\ <<>> \in Seq(Block)
      /\ 0 \in Nat
  BY <1>1 DEF Block
<1>3. state \in [count : Nat, buf : Block, blocks : Seq(Block)]
  BY <1>2 DEF Init
<1>4. phase = "new" /\ hashes = 0
  BY DEF Init
<1> QED
  BY <1>3, <1>4 DEF ShaInv, ShaType, Streaming, Digested

(* Whatever chunks the messages come in, and whatever was hashed with the    *)
(* same state before: the blocks are those of the standard.                  *)
THEOREM DigestedCorrect == Spec => []Digested
<1>1. Init => ShaInv
  BY ShaInit
<1>2. ShaInv /\ [Next]_vars => ShaInv'
  BY ShaStep
<1>3. ShaInv => Digested
  BY DEF ShaInv
<1> QED
  BY <1>1, <1>2, <1>3, PTL DEF Spec

-----------------------------------------------------------------------------
(* Its users.                                                                *)

UsersType ==
    user \in {"none", "words", "path", "refused"} /\ size \in Nat /\ i \in Nat

(* Who hashes does not finish before all bytes are hashed.                   *)
Hashing ==
    /\ user = "none" => i = 0 /\ words = <<>>
    /\ user \in {"words", "path"} =>
         phase \in {"open", "final"} /\ (phase = "final" => state.count = size)

Entropy(n) == [k \in 1 .. n |-> Byte(k)]

Octets == Symbols \union ({"hash"} \X Seq(Block) \X Nat)
Word   == [1 .. 11 -> Octets \X (0 .. 7)]

(* The words so far, and a space behind each of them but the last of all.    *)
WordsSoFar ==
    /\ i <= WordCount(size) /\ words \in Seq(Word \union {Space})
    /\ Len(words) = IF i < WordCount(size) THEN 2 * i ELSE 2 * i - 1
    /\ \A k \in 1 .. i : words[2 * k - 1] = Index(in, k - 1)
    /\ \A k \in 1 .. Len(words) : k % 2 = 0 => words[k] = Space

(* They are made of the entropy, with the first byte of its hash behind it.  *)
Phrase ==
    user = "words" =>
        /\ Encodable(size)
        /\ \/ in = Entropy(size) /\ i = 0 /\ words = <<>>
           \/ phase = "final" /\ in = Append(Entropy(size), HashByte(1)) /\ WordsSoFar

(* A path is that of the hash.                                               *)
Path ==
    path # <<>> => /\ user = "path" /\ phase = "final"
                   /\ path = AddressN([k \in 1 .. 32 |-> HashByte(k)])

UsersInv == ShaInv /\ UsersType /\ Hashing /\ Phrase /\ Path

(* Every step of a user is a step of the hash, or none.                      *)
LEMMA UsersShaStep ==
    ASSUME UsersInv, [UsersNext]_allVars
    PROVE  ShaInv'
<1>1. ShaInv /\ size \in Nat
  BY DEF UsersInv, UsersType
<1>2. CASE OtherUse
  BY <1>1, <1>2, ShaStep DEF OtherUse
<1>3. CASE HashAll
  <2>1. Update(size) \/ Final
    BY <1>3 DEF HashAll
  <2>2. CASE Update(size)
    BY <1>1, <2>2, UpdateStep
  <2>3. CASE Final
    BY <1>1, <2>3, ShaStep DEF Next
  <2> QED
    BY <2>1, <2>2, <2>3
<1>4. CASE Encode \/ GetPath
  <2>1. HashInit
    BY <1>4 DEF Encode, GetPath, Begin
  <2> QED
    BY <1>1, <2>1, HashInitStep
<1>5. CASE Refuse \/ AddChecksum \/ WriteWord \/ FillPath \/ UNCHANGED allVars
  <2>1. UNCHANGED vars
    BY <1>5 DEF Refuse, AddChecksum, WriteWord, FillPath, allVars
  <2> QED
    BY <1>1, <2>1, ShaStep
<1> QED
  BY <1>2, <1>3, <1>4, <1>5 DEF UsersNext

(* The sizes encode accepts, with their numbers of words.                    *)
LEMMA Sizes ==
    ASSUME NEW n \in Nat, Encodable(n)
    PROVE  /\ n \in {16, 24, 32}
           /\ WordCount(n) = IF n = 16 THEN 12 ELSE IF n = 24 THEN 18 ELSE 24
  BY DEF Encodable, WordCount

(* The entropy, and what it becomes.                                         *)
LEMMA EntropyType ==
    ASSUME ShaType, NEW n \in Nat
    PROVE  /\ Entropy(n) \in Seq(Octets) /\ Len(Entropy(n)) = n
           /\ Append(Entropy(n), HashByte(1)) \in Seq(Octets)
           /\ Len(Append(Entropy(n), HashByte(1))) = n + 1
           /\ \A k \in 1 .. n : Append(Entropy(n), HashByte(1))[k] = Byte(k)
           /\ Append(Entropy(n), HashByte(1))[n + 1] = HashByte(1)
<1>1. /\ Entropy(n) \in Seq(Octets) /\ Len(Entropy(n)) = n
      /\ \A k \in 1 .. n : Entropy(n)[k] = Byte(k)
  <2>1. \A k \in 1 .. n : Byte(k) \in Octets
    BY SymbolTypes DEF ShaType, Octets
  <2> QED
    BY <2>1, Sequence DEF Entropy
<1>2. HashByte(1) \in Octets
  BY DEF ShaType, HashByte, Octets
<1> QED
  BY <1>1, <1>2

(* A word is one of the eleven bits from its place.                          *)
LEMMA IndexType ==
    ASSUME NEW n \in Nat, Encodable(n), NEW bytes \in Seq(Octets), Len(bytes) = n + 1,
           NEW k \in 0 .. WordCount(n) - 1
    PROVE  /\ Index(bytes, k) \in Word /\ Index(bytes, k) # Space
           /\ \A j \in 1 .. 11 :
                Index(bytes, k)[j] = <<bytes[(k * 11 + j - 1) \div 8 + 1], (k * 11 + j - 1) % 8>>
<1>1. ASSUME NEW j \in 1 .. 11
      PROVE  <<bytes[(k * 11 + j - 1) \div 8 + 1], (k * 11 + j - 1) % 8>> \in Octets \X (0 .. 7)
  <2> DEFINE m == k * 11 + j - 1
  <2>1. k \in Nat /\ m \in Nat /\ m < 8 * (n + 1)
    BY Sizes
  <2> HIDE DEF m
  <2>2. m \div 8 + 1 \in 1 .. n + 1 /\ m % 8 \in 0 .. 7
    BY <2>1
  <2>3. bytes[m \div 8 + 1] \in Octets
    BY <2>2
  <2> QED
    BY <2>2, <2>3 DEF m
<1>2. Index(bytes, k)
        = [j \in 1 .. 11 |-> <<bytes[(k * 11 + j - 1) \div 8 + 1], (k * 11 + j - 1) % 8>>]
  BY DEF Index, Bit
<1>3. Index(bytes, k) \in Word
  BY <1>1, <1>2 DEF Word
<1>4. Index(bytes, k) # Space
  <2>1. DOMAIN Index(bytes, k) = 1 .. 11 /\ DOMAIN Space = 1 .. 1
    BY <1>2 DEF Space
  <2>2. 11 \in 1 .. 11 /\ 11 \notin 1 .. 1
    OBVIOUS
  <2> QED
    BY <2>1, <2>2
<1> QED
  BY <1>2, <1>3, <1>4

(* The loop writes the next word, and a space unless it is the last.         *)
LEMMA WriteWordStep ==
    ASSUME UsersInv, WriteWord
    PROVE  WordsSoFar'
<1> DEFINE count == WordCount(size)
           word  == Index(in, i)
           more  == IF i = count - 1 THEN <<>> ELSE <<Space>>
           first == words \o <<word>>
<1>1. /\ user = "words" /\ Len(in) > size /\ size \in Nat /\ i \in Nat /\ ShaType
      /\ Encodable(size)
  BY DEF WriteWord, Writing, UsersInv, UsersType, ShaInv, Phrase
<1>2. in = Append(Entropy(size), HashByte(1)) /\ WordsSoFar
  <2>1. CASE in = Entropy(size)
    <3>1. Len(in) = size
      BY <2>1, <1>1, EntropyType
    <3> QED
      BY <3>1, <1>1
  <2> QED
    BY <2>1, <1>1 DEF UsersInv, Phrase
<1>3. in \in Seq(Octets) /\ Len(in) = size + 1
  BY <1>1, <1>2, EntropyType
<1>4. count \in Nat
  BY <1>1, Sizes
<1>5. /\ i < count /\ words' = first \o more /\ i' = i + 1
      /\ size' = size /\ in' = in
  <2>1. Len(in) - 1 = size
    BY <1>1, <1>3
  <2> QED
    BY <2>1 DEF WriteWord
<1>6. word \in Word
  <2>1. i \in 0 .. WordCount(size) - 1
    BY <1>1, <1>4, <1>5
  <2> QED
    BY <2>1, <1>1, <1>3, IndexType
<1>7. /\ words \in Seq(Word \union {Space}) /\ Len(words) = 2 * i
      /\ \A k \in 1 .. i : words[2 * k - 1] = Index(in, k - 1)
      /\ \A k \in 1 .. Len(words) : k % 2 = 0 => words[k] = Space
  BY <1>2, <1>5 DEF WordsSoFar
<1> HIDE DEF count, word
<1>8. /\ first \in Seq(Word \union {Space}) /\ Len(first) = 2 * i + 1
      /\ \A k \in 1 .. 2 * i : first[k] = words[k]
      /\ first[2 * i + 1] = word
  <2>1. <<word>> \in Seq(Word \union {Space}) /\ Len(<<word>>) = 1 /\ <<word>>[1] = word
    BY <1>6
  <2>2. /\ first \in Seq(Word \union {Space}) /\ Len(first) = Len(words) + Len(<<word>>)
        /\ \A k \in 1 .. Len(words) : first[k] = words[k]
        /\ \A k \in 1 .. Len(<<word>>) : first[Len(words) + k] = <<word>>[k]
    BY <2>1, <1>7, Concatenation
  <2> HIDE DEF first
  <2>3. 1 \in 1 .. Len(<<word>>)
    BY <2>1
  <2> QED
    BY <2>1, <2>2, <2>3, <1>1, <1>7
<1>9. /\ words' \in Seq(Word \union {Space})
      /\ Len(words') = IF i + 1 < count THEN 2 * (i + 1) ELSE 2 * (i + 1) - 1
      /\ \A k \in 1 .. 2 * i + 1 : words'[k] = first[k]
      /\ \A k \in 2 * i + 2 .. Len(words') : k = 2 * i + 2 /\ words'[k] = Space
  <2> HIDE DEF first
  <2>1. CASE i = count - 1
    <3>1. words' = first
      BY <2>1, <1>5, <1>8
    <3> QED
      BY <2>1, <3>1, <1>1, <1>4, <1>5, <1>8
  <2>2. CASE i # count - 1
    <3>1. /\ <<Space>> \in Seq(Word \union {Space}) /\ Len(<<Space>>) = 1
          /\ <<Space>>[1] = Space /\ 1 \in 1 .. Len(<<Space>>)
      OBVIOUS
    <3>2. words' = first \o <<Space>>
      BY <2>2, <1>5
    <3>3. /\ words' \in Seq(Word \union {Space}) /\ Len(words') = Len(first) + Len(<<Space>>)
          /\ \A k \in 1 .. Len(first) : words'[k] = first[k]
          /\ \A k \in 1 .. Len(<<Space>>) : words'[Len(first) + k] = <<Space>>[k]
      BY <3>1, <3>2, <1>8, Concatenation
    <3>4. Len(words') = 2 * i + 2 /\ words'[2 * i + 2] = Space
      BY <3>1, <3>3, <1>1, <1>8
    <3>5. i + 1 < count /\ Len(words') = 2 * (i + 1)
      BY <2>2, <3>4, <1>1, <1>4, <1>5
    <3> QED
      BY <3>3, <3>4, <3>5, <1>1, <1>8
  <2> QED
    BY <2>1, <2>2
<1>10. ASSUME NEW k \in 1 .. i + 1
       PROVE  words'[2 * k - 1] = Index(in, k - 1)
  <2> HIDE DEF first
  <2>1. CASE k \in 1 .. i
    <3>1. 2 * k - 1 \in 1 .. 2 * i /\ 2 * k - 1 \in 1 .. 2 * i + 1
      BY <2>1, <1>1
    <3> QED
      BY <3>1, <2>1, <1>7, <1>8, <1>9
  <2>2. CASE k = i + 1
    <3>1. 2 * k - 1 = 2 * i + 1 /\ k - 1 = i /\ 2 * i + 1 \in 1 .. 2 * i + 1
      BY <2>2, <1>1
    <3> QED
      BY <3>1, <1>8, <1>9 DEF word
  <2> QED
    BY <2>1, <2>2, <1>1
<1>11. ASSUME NEW k \in 1 .. Len(words'), k % 2 = 0
       PROVE  words'[k] = Space
  <2> HIDE DEF first
  <2>1. CASE k \in 2 * i + 2 .. Len(words')
    BY <2>1, <1>9
  <2>2. CASE k \notin 2 * i + 2 .. Len(words')
    <3>1. k \in 1 .. 2 * i + 1 /\ k # 2 * i + 1
      BY <2>2, <1>1, <1>9, <1>11
    <3>2. k \in 1 .. 2 * i /\ k \in 1 .. Len(words)
      BY <3>1, <1>1, <1>7
    <3> QED
      BY <3>1, <3>2, <1>7, <1>8, <1>9, <1>11
  <2> QED
    BY <2>1, <2>2
<1>12. i + 1 <= count
  BY <1>1, <1>4, <1>5
<1> QED
  BY <1>5, <1>9, <1>10, <1>11, <1>12 DEF WordsSoFar, count

(* At the start nobody hashes.                                               *)
LEMMA UsersInitially ==
    ASSUME UsersInit
    PROVE  UsersInv
<1>1. ShaInv
  BY ShaInit DEF UsersInit
<1> QED
  BY <1>1 DEF UsersInit, UsersInv, UsersType, Hashing, Phrase, Path

(* Each step of the users keeps the invariant.                               *)
LEMMA UsersStep ==
    ASSUME UsersInv, [UsersNext]_allVars
    PROVE  UsersInv'
<1>1. ShaInv'
  BY UsersShaStep
<1>2. UsersType /\ Hashing /\ Phrase /\ Path /\ ShaType
  BY DEF UsersInv, ShaInv
<1>3. CASE OtherUse
  <2>1. user = "none" /\ UNCHANGED userVars
    BY <1>3 DEF OtherUse
  <2>2. UsersType' /\ Hashing' /\ Phrase' /\ Path'
    BY <2>1, <1>2 DEF userVars, UsersType, Hashing, Phrase, Path
  <2> QED
    BY <1>1, <2>2 DEF UsersInv
<1>4. CASE HashAll
  <2>1. user # "none" /\ phase = "open" /\ UNCHANGED userVars
    BY <1>4 DEF HashAll
  <2>2. /\ hashes' = hashes
        /\ phase' = "open" \/ (phase' = "final" /\ state.count = size)
    BY <1>4 DEF HashAll, Update, Final
  <2>3. phase' = "final" => state'.count = size'
    <3> SUFFICES ASSUME phase' = "final" PROVE state'.count = size'
      OBVIOUS
    <3>1. state.count = size /\ Final
      BY <1>4, <2>1 DEF HashAll, Update
    <3>2. state'.count = state.count
      BY <3>1 DEF Final, PadShort, PadLong, Finish
    <3> QED
      BY <3>1, <3>2, <2>1 DEF userVars
  <2>4. user = "words" => Encodable(size) /\ in = Entropy(size) /\ i = 0 /\ words = <<>>
    BY <2>1, <1>2 DEF Phrase
  <2>5. path = <<>>
    BY <2>1, <1>2 DEF Path
  <2>6. UsersType' /\ Path'
    BY <2>1, <2>5, <1>2 DEF userVars, UsersType, Path
  <2>7. Hashing'
    BY <2>1, <2>2, <2>3, <1>2 DEF userVars, Hashing
  <2>8. Phrase'
    BY <2>1, <2>2, <2>4 DEF userVars, Phrase, Entropy, Byte
  <2> QED
    BY <1>1, <2>6, <2>7, <2>8 DEF UsersInv
<1>5. CASE Refuse
  <2>1. /\ user = "none" /\ user' = "refused" /\ size' \in Nat
        /\ i' = i /\ words' = words /\ path' = path
    <3>1. MaxMessage \in Nat
      BY ShaAssumption
    <3> QED
      BY <3>1, <1>5 DEF Refuse
  <2>2. UsersType' /\ Hashing' /\ Phrase' /\ Path'
    BY <2>1, <1>2 DEF UsersType, Hashing, Phrase, Path
  <2> QED
    BY <1>1, <2>2 DEF UsersInv
<1>6. CASE Encode
  <2>1. PICK n \in 0 .. MaxMessage :
           /\ Encodable(n) /\ Begin("words", n)
           /\ in' = [k \in 1 .. n |-> Byte(k)']
    BY <1>6 DEF Encode
  <2>2. n \in Nat
    BY ShaAssumption
  <2>3. /\ user = "none" /\ user' = "words" /\ size' = n /\ phase' = "open"
        /\ i' = i /\ words' = words /\ path' = path
    BY <2>1 DEF Begin, HashInit
  <2>4. i = 0 /\ words = <<>> /\ path = <<>>
    BY <2>3, <1>2 DEF Hashing, Path
  <2>5. UsersType' /\ Hashing' /\ Path'
    BY <2>2, <2>3, <2>4, <1>2 DEF UsersType, Hashing, Path
  <2>6. Phrase'
    BY <2>1, <2>3, <2>4 DEF Phrase, Entropy, Byte
  <2> QED
    BY <1>1, <2>5, <2>6 DEF UsersInv
<1>7. CASE AddChecksum
  <2>1. /\ user = "words" /\ phase = "final" /\ Len(in) = size
        /\ in' = Append(in, HashByte(1))
        /\ UNCHANGED <<vars, user, size, i, words, path>>
    BY <1>7 DEF AddChecksum
  <2>2. Encodable(size) /\ in = Entropy(size) /\ i = 0 /\ words = <<>> /\ size \in Nat
    <3>1. size \in Nat /\ Len(Append(Entropy(size), HashByte(1))) = size + 1
      BY <1>2, EntropyType DEF UsersType
    <3> QED
      BY <2>1, <3>1, <1>2 DEF Phrase
  <2>3. WordCount(size) \in Nat /\ 0 < WordCount(size)
    BY <2>2, Sizes
  <2>4. WordsSoFar'
    <3>1. i' = 0 /\ words' = <<>> /\ size' = size
      BY <2>1, <2>2
    <3> QED
      BY <3>1, <2>3 DEF WordsSoFar
  <2>5. UsersType' /\ Hashing' /\ Path'
    BY <2>1, <1>2 DEF vars, UsersType, Hashing, Path, HashByte
  <2>6. Phrase'
    BY <2>1, <2>2, <2>4 DEF vars, Phrase, Entropy, Byte, HashByte
  <2> QED
    BY <1>1, <2>5, <2>6 DEF UsersInv
<1>8. CASE WriteWord
  <2>1. /\ user = "words" /\ i' = i + 1 /\ Len(in) > size
        /\ UNCHANGED <<vars, user, size, in, path>>
    BY <1>8 DEF WriteWord, Writing
  <2>2. Encodable(size) /\ phase = "final" /\ in = Append(Entropy(size), HashByte(1))
    <3>1. size \in Nat /\ Len(Entropy(size)) = size
      BY <1>2, EntropyType DEF UsersType
    <3>2. in # Entropy(size)
      BY <3>1, <2>1
    <3> QED
      BY <2>1, <3>2, <1>2 DEF Phrase
  <2>3. WordsSoFar'
    BY <1>8, WriteWordStep
  <2>4. UsersType' /\ Hashing' /\ Path'
    BY <2>1, <1>2 DEF vars, UsersType, Hashing, Path, HashByte
  <2>5. Phrase'
    BY <2>1, <2>2, <2>3 DEF vars, Phrase, Entropy, Byte, HashByte
  <2> QED
    BY <1>1, <2>4, <2>5 DEF UsersInv
<1>9. CASE GetPath
  <2>1. PICK n \in 1 .. MaxMessage : Begin("path", n)
    BY <1>9 DEF GetPath
  <2>2. n \in Nat
    BY ShaAssumption
  <2>3. /\ user = "none" /\ user' = "path" /\ size' = n /\ phase' = "open"
        /\ i' = i /\ words' = words /\ path' = path
    BY <2>1 DEF Begin, HashInit
  <2>4. UsersType' /\ Hashing' /\ Phrase' /\ Path'
    BY <2>2, <2>3, <1>2 DEF UsersType, Hashing, Phrase, Path
  <2> QED
    BY <1>1, <2>4 DEF UsersInv
<1>10. CASE FillPath
  <2>1. /\ user = "path" /\ phase = "final"
        /\ path' = AddressN([k \in 1 .. 32 |-> HashByte(k)])
        /\ UNCHANGED <<vars, user, size, in, i, words>>
    BY <1>10 DEF FillPath
  <2>2. UsersType' /\ Hashing' /\ Phrase' /\ Path'
    BY <2>1, <1>2 DEF vars, UsersType, Hashing, Phrase, Path, HashByte
  <2> QED
    BY <1>1, <2>2 DEF UsersInv
<1>11. CASE UNCHANGED allVars
  <2>1. UNCHANGED <<vars, userVars>>
    BY <1>11 DEF allVars
  <2>2. WordsSoFar => WordsSoFar'
    BY <2>1 DEF userVars, WordsSoFar
  <2>3. UsersType' /\ Hashing' /\ Path'
    BY <2>1, <1>2 DEF vars, userVars, UsersType, Hashing, Path, HashByte
  <2>4. Phrase'
    BY <2>1, <2>2, <1>2 DEF vars, userVars, Phrase, Entropy, Byte, HashByte
  <2> QED
    BY <1>1, <2>3, <2>4 DEF UsersInv
<1> QED
  BY <1>3, <1>4, <1>5, <1>6, <1>7, <1>8, <1>9, <1>10, <1>11 DEF UsersNext

(* In all its users, too, the blocks are those of the standard.              *)
THEOREM UsersDigested == UsersSpec => []Digested
<1>1. UsersInit => UsersInv
  BY UsersInitially
<1>2. UsersInv /\ [UsersNext]_allVars => UsersInv'
  BY UsersStep
<1>3. UsersInv => Digested
  BY DEF UsersInv, ShaInv
<1> QED
  BY <1>1, <1>2, <1>3, PTL DEF UsersSpec

(* A phrase that is written to its end is that of the standard.              *)
LEMMA PhraseOfStandard ==
    ASSUME UsersInv
    PROVE  PhraseIsStandard
<1> SUFFICES ASSUME Written PROVE PhraseIsStandard
  BY DEF PhraseIsStandard
<1> DEFINE count   == WordCount(size)
           odd     == [k \in 1 .. ((Len(words) + 1) \div 2) |-> words[2 * k - 1]]
           entropy == [n \in 1 .. (8 * size) |-> <<Byte((n - 1) \div 8 + 1), (n - 1) % 8>>]
           check   == [n \in 1 .. (size \div 4) |-> <<HashByte(1), n - 1>>]
<1>1. /\ user = "words" /\ Len(in) > size /\ i = count /\ size \in Nat /\ i \in Nat
      /\ ShaType /\ Encodable(size)
  BY DEF Written, Writing, UsersInv, UsersType, ShaInv, Phrase
<1>2. phase = "final" /\ in = Append(Entropy(size), HashByte(1)) /\ WordsSoFar
  <2>1. CASE in = Entropy(size)
    <3>1. Len(in) = size
      BY <2>1, <1>1, EntropyType
    <3> QED
      BY <3>1, <1>1
  <2> QED
    BY <2>1, <1>1 DEF UsersInv, Phrase
<1>3. /\ in \in Seq(Octets) /\ Len(in) = size + 1
      /\ \A k \in 1 .. size : in[k] = Byte(k)
      /\ in[size + 1] = HashByte(1)
  BY <1>1, <1>2, EntropyType
<1>4. /\ size \in {16, 24, 32} /\ count \in {12, 18, 24}
      /\ 8 * size + (size \div 4) = 11 * count
  BY <1>1, Sizes
<1>5. /\ Len(words) = 2 * count - 1
      /\ \A k \in 1 .. count : words[2 * k - 1] = Index(in, k - 1)
      /\ \A k \in 1 .. Len(words) : k % 2 = 0 => words[k] = Space
  BY <1>1, <1>2, <1>4 DEF WordsSoFar
<1>6. ASSUME NEW k \in 1 .. count
      PROVE  /\ words[2 * k - 1] \in Word /\ words[2 * k - 1] # Space
             /\ \A j \in 1 .. 11 :
                  words[2 * k - 1][j]
                      = <<in[((k - 1) * 11 + j - 1) \div 8 + 1], ((k - 1) * 11 + j - 1) % 8>>
  <2> DEFINE m == k - 1
  <2>1. m \in 0 .. WordCount(size) - 1
    BY <1>4
  <2> HIDE DEF m
  <2>2. /\ Index(in, m) \in Word /\ Index(in, m) # Space
        /\ \A j \in 1 .. 11 :
             Index(in, m)[j] = <<in[(m * 11 + j - 1) \div 8 + 1], (m * 11 + j - 1) % 8>>
    BY <2>1, <1>1, <1>3, IndexType
  <2> QED
    BY <2>2, <1>5 DEF m
<1>7. (Len(words) + 1) \div 2 = count /\ Len(words) % 2 = 1
  BY <1>4, <1>5
<1>8. /\ odd \in Seq(Word) /\ Len(odd) = count
      /\ \A k \in 1 .. count : odd[k] = words[2 * k - 1]
  <2>1. odd = [k \in 1 .. count |-> words[2 * k - 1]]
    BY <1>7
  <2>2. odd \in [1 .. count -> Word]
    BY <2>1, <1>6
  <2>3. count \in Nat
    BY <1>4
  <2> QED
    BY <2>1, <2>2, <2>3, Sequence
<1> DEFINE Bits == Octets \X (0 .. 31)
           all  == entropy \o check
<1>9. /\ all \in Seq(Bits) /\ Len(all) = 11 * count
      /\ \A n \in 1 .. 8 * size : all[n] = <<Byte((n - 1) \div 8 + 1), (n - 1) % 8>>
      /\ \A n \in 1 .. size \div 4 : all[8 * size + n] = <<HashByte(1), n - 1>>
  <2>1. entropy \in Seq(Bits) /\ Len(entropy) = 8 * size
    <3>1. ASSUME NEW n \in 1 .. 8 * size
          PROVE  <<Byte((n - 1) \div 8 + 1), (n - 1) % 8>> \in Bits
      <4>1. (n - 1) \div 8 + 1 \in Nat /\ (n - 1) % 8 \in 0 .. 31
        BY <1>1
      <4> QED
        BY <4>1, <1>1, SymbolTypes DEF ShaType, Octets
    <3>2. entropy \in [1 .. 8 * size -> Bits] /\ 8 * size \in Nat
      BY <3>1, <1>1
    <3> HIDE DEF entropy, Bits
    <3> QED
      BY <3>2, Sequence
  <2>2. check \in Seq(Bits) /\ Len(check) = size \div 4
    <3>1. HashByte(1) \in Octets
      BY <1>1 DEF ShaType, HashByte, Octets
    <3>2. check \in [1 .. size \div 4 -> Bits] /\ size \div 4 \in Nat
      BY <3>1, <1>4
    <3> HIDE DEF check, Bits
    <3> QED
      BY <3>2, Sequence
  <2>3. /\ all \in Seq(Bits) /\ Len(all) = Len(entropy) + Len(check)
        /\ \A n \in 1 .. Len(entropy) : all[n] = entropy[n]
        /\ \A n \in 1 .. Len(check) : all[Len(entropy) + n] = check[n]
    <3> HIDE DEF entropy, check, Bits
    <3>1. entropy \in Seq(Bits) /\ check \in Seq(Bits)
      BY <2>1, <2>2
    <3> QED
      BY <3>1, Concatenation
  <2> HIDE DEF all
  <2> QED
    BY <2>1, <2>2, <2>3, <1>4
<1> HIDE DEF all, odd
<1>10. ASSUME NEW k \in 1 .. count, NEW j \in 1 .. 11
       PROVE  odd[k][j] = all[(k - 1) * 11 + j]
  <2> DEFINE m == (k - 1) * 11 + j - 1
  <2>1. m \in Nat /\ m < 11 * count /\ (k - 1) * 11 + j = m + 1
    BY <1>4
  <2>2. odd[k][j] = <<in[m \div 8 + 1], m % 8>>
    BY <1>6, <1>8
  <2> HIDE DEF m
  <2>3. CASE m < 8 * size
    <3>1. m \div 8 + 1 \in 1 .. size /\ m + 1 \in 1 .. 8 * size /\ (m + 1) - 1 = m
      BY <2>1, <2>3, <1>1
    <3>2. all[m + 1] = <<Byte(m \div 8 + 1), m % 8>>
      BY <3>1, <1>9
    <3> QED
      BY <3>1, <3>2, <2>1, <2>2, <1>3
  <2>4. CASE ~(m < 8 * size)
    <3> DEFINE n == m + 1 - 8 * size
    <3>1. /\ m \div 8 + 1 = size + 1 /\ n \in 1 .. size \div 4
          /\ m + 1 = 8 * size + n /\ m % 8 = n - 1
      BY <2>1, <2>4, <1>4
    <3> HIDE DEF n
    <3>2. all[m + 1] = <<HashByte(1), n - 1>>
      BY <3>1, <1>9
    <3> QED
      BY <3>1, <3>2, <2>1, <2>2, <1>3
  <2> QED
    BY <2>3, <2>4
<1>11. InPieces(all, odd, 11)
  <2>1. ASSUME NEW k \in 1 .. count
        PROVE  Len(odd[k]) = 11
    <3>1. odd[k] \in [1 .. 11 -> Octets \X (0 .. 7)]
      BY <1>8 DEF Word
    <3>2. 11 \in Nat
      OBVIOUS
    <3> QED
      BY <3>1, <3>2, Sequence
  <2> QED
    BY <2>1, <1>8, <1>9, <1>10 DEF InPieces
<1>12. state.count = size
  BY <1>1, <1>2 DEF UsersInv, Hashing
<1>13. ASSUME NEW k \in 1 .. Len(words)
       PROVE  k % 2 = 0 <=> words[k] = Space
  <2>1. CASE k % 2 = 0
    BY <2>1, <1>5
  <2>2. CASE k % 2 # 0
    <3> DEFINE h == (k + 1) \div 2
    <3>1. h \in 1 .. count /\ 2 * h - 1 = k
      <4>1. count \in Nat /\ k \in Nat /\ 1 <= k /\ k <= 2 * count - 1
        BY <1>4, <1>5
      <4> HIDE DEF count
      <4> QED
        BY <4>1, <2>2
    <3> HIDE DEF h
    <3> QED
      BY <3>1, <2>2, <1>6
  <2> QED
    BY <2>1, <2>2
<1> QED
  BY <1>7, <1>11, <1>12, <1>13 DEF PhraseIsStandard, all, odd

(* Of entropy of any size that encode accepts, after any use of the hash:    *)
(* its words have the bits of the entropy and of its checksum, one after the *)
(* other, with single spaces between them.                                   *)
THEOREM PhraseCorrect == UsersSpec => []PhraseIsStandard
<1>1. UsersInit => UsersInv
  BY UsersInitially
<1>2. UsersInv /\ [UsersNext]_allVars => UsersInv'
  BY UsersStep
<1>3. UsersInv => PhraseIsStandard
  BY PhraseOfStandard
<1> QED
  BY <1>1, <1>2, <1>3, PTL DEF UsersSpec

(* The five numbers of a path, bit by bit.                                   *)
LEMMA Numbers ==
    ASSUME NEW hash
    PROVE  LET address == AddressN(hash)
           IN  /\ Len(address) = 5 /\ \A n \in 1 .. 5 : address[n][31] = On
               /\ \A b \in 0 .. 30 : address[1][b] = IF b \in {0, 4} THEN On ELSE Off
               /\ \A n \in 2 .. 5, b \in 0 .. 30 :
                    address[n][b] = HashBit(hash[4 * (n - 2) + (b \div 8) + 1], b % 8)
<1> DEFINE rest == [n \in 1 .. 4 |-> Hardened(Number(hash, n - 1))]
           S    == {Hardened(Purpose)} \union {Hardened(Number(hash, n - 1)) : n \in 1 .. 4}
<1>1. <<Hardened(Purpose)>> \in Seq(S) /\ Len(<<Hardened(Purpose)>>) = 1
  OBVIOUS
<1>2. rest \in Seq(S) /\ Len(rest) = 4
  <2>1. rest \in [1 .. 4 -> S] /\ 4 \in Nat
    OBVIOUS
  <2> HIDE DEF rest, S
  <2> QED
    BY <2>1, Sequence
<1>3. AddressN(hash) = <<Hardened(Purpose)>> \o rest
  BY DEF AddressN
<1>4. /\ Len(AddressN(hash)) = 5 /\ AddressN(hash)[1] = Hardened(Purpose)
      /\ \A n \in 2 .. 5 : AddressN(hash)[n] = Hardened(Number(hash, n - 2))
  <2> DEFINE one == <<Hardened(Purpose)>>
  <2> HIDE DEF S
  <2>1. one \in Seq(S) /\ rest \in Seq(S) /\ Len(one) = 1 /\ one[1] = Hardened(Purpose)
    BY <1>1, <1>2
  <2>2. \A n \in 1 .. 4 : rest[n] = Hardened(Number(hash, n - 1))
    OBVIOUS
  <2> HIDE DEF one, rest
  <2>3. /\ Len(one \o rest) = Len(one) + Len(rest)
        /\ \A j \in 1 .. Len(one) : (one \o rest)[j] = one[j]
        /\ \A j \in 1 .. Len(rest) : (one \o rest)[Len(one) + j] = rest[j]
    <3>1. one \in Seq(S) /\ rest \in Seq(S)
      BY <2>1
    <3> QED
      BY <3>1, Concatenation
  <2>4. AddressN(hash) = one \o rest
    BY <1>3 DEF one
  <2>5. ASSUME NEW n \in 2 .. 5
        PROVE  AddressN(hash)[n] = Hardened(Number(hash, n - 2))
    <3>1. n - 1 \in 1 .. 4 /\ 1 + (n - 1) = n /\ (n - 1) - 1 = n - 2
      OBVIOUS
    <3>2. (one \o rest)[1 + (n - 1)] = rest[n - 1]
      BY <2>1, <2>3, <1>2, <3>1
    <3>3. rest[n - 1] = Hardened(Number(hash, (n - 1) - 1))
      BY <2>2, <3>1
    <3> QED
      BY <2>4, <3>1, <3>2, <3>3
  <2>6. Len(AddressN(hash)) = 5 /\ AddressN(hash)[1] = Hardened(Purpose)
    BY <2>1, <2>3, <2>4, <1>2
  <2> QED
    BY <2>5, <2>6
<1>5. /\ Hardened(Purpose)[31] = On
      /\ \A b \in 0 .. 30 : Hardened(Purpose)[b] = IF b \in {0, 4} THEN On ELSE Off
  BY DEF Hardened, Purpose
<1>6. ASSUME NEW n \in 2 .. 5
      PROVE  /\ Hardened(Number(hash, n - 2))[31] = On
             /\ \A b \in 0 .. 30 : Hardened(Number(hash, n - 2))[b]
                  = HashBit(hash[4 * (n - 2) + (b \div 8) + 1], b % 8)
  BY DEF Hardened, Number
<1>7. \A n \in 1 .. 5 : n = 1 \/ n \in 2 .. 5
  OBVIOUS
<1> QED
  BY <1>4, <1>5, <1>6, <1>7

(* Where a bit of the hash is in the path.                                   *)
LEMMA PathOfHash ==
    ASSUME UsersInv
    PROVE  PathKeepsDigest
<1> SUFFICES ASSUME path # <<>> PROVE PathKeepsDigest
  BY DEF PathKeepsDigest
<1> DEFINE hash == [k \in 1 .. 32 |-> HashByte(k)]
<1>1. path = AddressN(hash)
  BY DEF UsersInv, Path
<1>2. \A k \in 1 .. 32 : hash[k] = HashByte(k)
  OBVIOUS
<1> HIDE DEF hash
<1>3. /\ Len(path) = 5 /\ \A n \in 1 .. 5 : path[n][31] = On
      /\ \A b \in 0 .. 30 : path[1][b] = IF b \in {0, 4} THEN On ELSE Off
      /\ \A n \in 2 .. 5, b \in 0 .. 30 :
           path[n][b] = HashBit(hash[4 * (n - 2) + (b \div 8) + 1], b % 8)
  BY <1>1, Numbers
<1>4. {b \in 0 .. 30 : path[1][b] = On} = {0, 4}
  <2>1. On # Off
    BY DEF On, Off
  <2>2. ASSUME NEW b \in 0 .. 30
        PROVE  path[1][b] = On <=> b \in {0, 4}
    BY <2>1, <1>3
  <2>3. {0, 4} \subseteq 0 .. 30
    OBVIOUS
  <2> QED
    BY <2>2, <2>3
<1>5. \A k \in Nat, b \in Nat : HashBit(HashByte(k), b) # On /\ HashBit(HashByte(k), b) # Off
  BY DEF HashBit, On, Off
<1>6. \A k \in Nat, b \in Nat, l \in Nat, d \in Nat :
         HashBit(HashByte(k), b) = HashBit(HashByte(l), d) <=> k = l /\ b = d
  BY DEF HashBit, HashByte
<1>7. ASSUME NEW k \in 1 .. 16, NEW b \in 0 .. 7
      PROVE  LET bit == HashBit(HashByte(k), b)
             IN  Cardinality({p \in (1 .. 5) \X (0 .. 31) : path[p[1]][p[2]] = bit})
                   = IF k % 4 = 0 /\ b = 7 THEN 0 ELSE 1
  <2> DEFINE bit    == HashBit(HashByte(k), b)
             places == {p \in (1 .. 5) \X (0 .. 31) : path[p[1]][p[2]] = bit}
             n0     == (k - 1) \div 4 + 2
             b0     == 8 * ((k - 1) % 4) + b
  <2>1. ASSUME NEW n \in 1 .. 5, NEW c \in 0 .. 31
        PROVE  path[n][c] = bit <=> n = n0 /\ c = b0 /\ c # 31
    <3>1. bit # On /\ bit # Off
      BY <1>5
    <3>2. n0 \in 2 .. 5 /\ b0 \in 0 .. 31
      OBVIOUS
    <3>3. CASE n = 1
      <4>1. path[n][c] = On \/ path[n][c] = Off
        <5>1. c = 31 \/ c \in 0 .. 30
          OBVIOUS
        <5>2. path[1][31] = On
          <6>1. 1 \in 1 .. 5 /\ \A m \in 1 .. 5 : path[m][31] = On
            BY <1>3
          <6> QED
            BY <6>1
        <5>3. \A e \in 0 .. 30 : path[1][e] = IF e \in {0, 4} THEN On ELSE Off
          BY <1>3
        <5> QED
          BY <5>1, <5>2, <5>3, <3>3
      <4> QED
        BY <4>1, <3>1, <3>2, <3>3
    <3>4. CASE c = 31
      BY <3>4, <3>1, <1>3
    <3>5. CASE n \in 2 .. 5 /\ c \in 0 .. 30
      <4> DEFINE l == 4 * (n - 2) + (c \div 8) + 1
                 d == c % 8
      <4>1. l \in 1 .. 32 /\ d \in Nat /\ l \in Nat
        BY <3>5
      <4>2. path[n][c] = HashBit(HashByte(l), d)
        BY <3>5, <4>1, <1>2, <1>3
      <4>3. l = k /\ d = b <=> n = n0 /\ c = b0
        BY <3>5
      <4> HIDE DEF l, d, n0, b0
      <4>4. path[n][c] = bit <=> l = k /\ d = b
        <5>1. k \in Nat /\ b \in Nat
          OBVIOUS
        <5>2. HashBit(HashByte(k), b) = HashBit(HashByte(l), d) <=> k = l /\ b = d
          BY <5>1, <4>1, <1>6
        <5> QED
          BY <5>2, <4>2
      <4> QED
        BY <4>3, <4>4, <3>5
    <3> QED
      BY <3>3, <3>4, <3>5
  <2>2. n0 \in 1 .. 5 /\ b0 \in 0 .. 31 /\ (b0 = 31 <=> k % 4 = 0 /\ b = 7)
    OBVIOUS
  <2> HIDE DEF bit, n0, b0
  <2>3. CASE b0 = 31
    <3>1. places = {}
      BY <2>1, <2>3
    <3> QED
      BY <3>1, <2>2, <2>3, FS_EmptySet DEF bit
  <2>4. CASE b0 # 31
    <3>1. places = {<<n0, b0>>}
      <4>1. ASSUME NEW p \in (1 .. 5) \X (0 .. 31)
            PROVE  path[p[1]][p[2]] = bit <=> p = <<n0, b0>>
        <5>1. p[1] \in 1 .. 5 /\ p[2] \in 0 .. 31 /\ p = <<p[1], p[2]>>
          OBVIOUS
        <5>2. path[p[1]][p[2]] = bit <=> p[1] = n0 /\ p[2] = b0 /\ p[2] # 31
          BY <5>1, <2>1
        <5>3. p = <<n0, b0>> <=> p[1] = n0 /\ p[2] = b0
          BY <5>1
        <5> QED
          BY <5>2, <5>3, <2>4
      <4>2. <<n0, b0>> \in (1 .. 5) \X (0 .. 31)
        BY <2>2
      <4> QED
        BY <4>1, <4>2
    <3>2. Cardinality(places) = 1
      BY <3>1, FS_Singleton
    <3> QED
      BY <3>2, <2>2, <2>4 DEF bit
  <2> QED
    BY <2>3, <2>4
<1> QED
  BY <1>3, <1>4, <1>7 DEF PathKeepsDigest

(* Whatever the hash of the identity is: of its first 16 bytes each bit is   *)
(* at one place of the path, but for four, which the path hardens.           *)
THEOREM PathCorrect == UsersSpec => []PathKeepsDigest
<1>1. UsersInit => UsersInv
  BY UsersInitially
<1>2. UsersInv /\ [UsersNext]_allVars => UsersInv'
  BY UsersStep
<1>3. UsersInv => PathKeepsDigest
  BY PathOfHash
<1> QED
  BY <1>1, <1>2, <1>3, PTL DEF UsersSpec

=============================================================================

--------------------------- MODULE ByteSlice_proofs ---------------------------
(* What holds of the slices and streams for any number of them, any sizes    *)
(* and any heap.  A change of the heap, the streams and the slices is put    *)
(* together from a few changes that each keep their invariant: a stream      *)
(* gives its block back or gets one, a block gets one holder more or less.   *)
EXTENDS ByteSlice, FiniteSetTheorems, SequenceTheorems, TLAPS

-----------------------------------------------------------------------------
(* The invariant, of a heap h, the streams st with the contents co, the      *)
(* slices sl with the texts tx, and a holder of the block x that is no       *)
(* variable (the temporary of an assignment), or None.                       *)

Address == Blocks \union {None}
Block   == [bytes : Seq(Byte), count : Nat]
Stream  == [buffer : Address, next : Nat, end : Nat]
Slice   == [storage : Address, block : Address, at : Nat, size : Nat]

One(x, b) == IF x = b THEN 1 ELSE 0

HoldersOf(sl, b) == Cardinality({i \in Slices : sl[i].storage = b})

Types(h, st, co, sl, tx) ==
    /\ h \in [DOMAIN h -> Block] /\ DOMAIN h \subseteq Blocks
    /\ st \in [Streams -> Stream] /\ co \in [Streams -> Seq(Byte)]
    /\ sl \in [Slices -> Slice] /\ tx \in [Slices -> Seq(Byte)]

GoodStream(h, r, c) ==
    /\ r.next <= r.end
    /\ IF r.buffer = None THEN r = Empty /\ c = <<>>
       ELSE /\ r.buffer \in DOMAIN h /\ h[r.buffer].count = 0
            /\ Len(h[r.buffer].bytes) = r.end
            /\ SubSeq(h[r.buffer].bytes, 1, r.next) = c

GoodPortion(h, p, t) ==
    IF p.storage = None THEN p.size = 0 /\ t = <<>>
    ELSE /\ p.storage \in DOMAIN h /\ h[p.storage].count > 0
         /\ p.block = p.storage /\ p.size > 0
         /\ p.at + p.size <= Len(h[p.storage].bytes)
         /\ SubSeq(h[p.storage].bytes, p.at + 1, p.at + p.size) = t

StreamsOK(h, st, co) ==
    /\ \A s \in Streams : GoodStream(h, st[s], co[s])
    /\ \A s, r \in Streams : st[s].buffer = st[r].buffer /\ s # r => st[s].buffer = None
    /\ \A b \in DOMAIN h : h[b].count = 0 => \E s \in Streams : st[s].buffer = b

SlicesOK(h, sl, tx, x) ==
    /\ \A i \in Slices : GoodPortion(h, sl[i], tx[i])
    /\ x # None => x \in DOMAIN h /\ h[x].count > 0
    /\ \A b \in DOMAIN h : h[b].count = HoldersOf(sl, b) + One(x, b)

Valid(h, st, co, sl, tx, x) ==
    Types(h, st, co, sl, tx) /\ StreamsOK(h, st, co) /\ SlicesOK(h, sl, tx, x)

Inv == Valid(heap, stream, content, slice, text, None)

-----------------------------------------------------------------------------
(* A slice more or less.                                                     *)

Given(f, to, new) == [f EXCEPT ![to] = new]

LEMMA HoldersNat ==
    ASSUME NEW sl, NEW b
    PROVE  HoldersOf(sl, b) \in Nat
  <1>1. IsFiniteSet({i \in Slices : sl[i].storage = b})
    BY SliceAssumption, FS_Subset
  <1> QED
    BY <1>1, FS_CardinalityType DEF HoldersOf

LEMMA OneType ==
    ASSUME NEW x, NEW b
    PROVE  One(x, b) \in {0, 1}
  BY DEF One

LEMMA HoldersChange ==
    ASSUME NEW sl \in [Slices -> Slice], NEW to \in Slices, NEW new, NEW b
    PROVE  HoldersOf(Given(sl, to, new), b) + One(sl[to].storage, b)
             = HoldersOf(sl, b) + One(new.storage, b)
  <1> DEFINE S == {i \in Slices : sl[i].storage = b}
             S2 == {i \in Slices : [sl EXCEPT ![to] = new][i].storage = b}
             less == S \ {to}
  <1>1. IsFiniteSet(S) /\ Cardinality(S) \in Nat
    BY SliceAssumption, FS_Subset, FS_CardinalityType
  <1>2. /\ IsFiniteSet(less) /\ Cardinality(less) \in Nat
        /\ Cardinality(less) = IF to \in S THEN Cardinality(S) - 1 ELSE Cardinality(S)
    <2>1. /\ IsFiniteSet(S \ {to})
          /\ Cardinality(S \ {to}) = IF to \in S THEN Cardinality(S) - 1 ELSE Cardinality(S)
      BY <1>1, FS_RemoveElement
    <2> QED
      BY <2>1, FS_CardinalityType
  <1>3. to \in S <=> sl[to].storage = b
    OBVIOUS
  <1>4. CASE new.storage = b
    <2>1. S2 = less \union {to}
      BY <1>4
    <2>2. Cardinality(less \union {to}) = Cardinality(less) + 1
      <3>1. to \notin less
        OBVIOUS
      <3> HIDE DEF less
      <3> QED
        BY <1>2, <3>1, FS_AddElement
    <2> HIDE DEF S, S2, less
    <2>3. Cardinality(S2) + One(sl[to].storage, b) = Cardinality(S) + 1
      BY <1>1, <1>2, <1>3, <2>1, <2>2 DEF One
    <2> QED
      BY <1>1, <1>4, <2>3 DEF HoldersOf, S, S2, Given, One
  <1>5. CASE new.storage # b
    <2>1. S2 = less
      BY <1>5
    <2> HIDE DEF S, S2, less
    <2>2. Cardinality(S2) + One(sl[to].storage, b) = Cardinality(S) + 0
      BY <1>1, <1>2, <1>3, <2>1 DEF One
    <2> QED
      BY <1>1, <1>5, <2>2 DEF HoldersOf, S, S2, Given, One
  <1> QED
    BY <1>4, <1>5

(* A variable gets what it is assigned, and the temporary what it had.       *)
LEMMA Swapped ==
    ASSUME NEW h, NEW st, NEW co, NEW sl, NEW tx, NEW to \in Slices,
           NEW new \in Slice, NEW t \in Seq(Byte),
           Valid(h, st, co, sl, tx, new.storage), GoodPortion(h, new, t)
    PROVE  Valid(h, st, co, [sl EXCEPT ![to] = new], [tx EXCEPT ![to] = t], sl[to].storage)
  <1>0. PICK s2, t2, x : s2 = Given(sl, to, new) /\ t2 = [tx EXCEPT ![to] = t] /\ x = sl[to].storage
    OBVIOUS
  <1>1. Types(h, st, co, sl, tx) /\ StreamsOK(h, st, co) /\ SlicesOK(h, sl, tx, new.storage)
    BY DEF Valid
  <1>2. Types(h, st, co, s2, t2)
    BY <1>0, <1>1 DEF Types, Given
  <1>3. sl \in [Slices -> Slice] /\ tx \in [Slices -> Seq(Byte)] /\ h \in [DOMAIN h -> Block]
    BY <1>1 DEF Types
  <1>4. \A i \in Slices : GoodPortion(h, s2[i], t2[i])
    BY <1>0, <1>1, <1>3 DEF SlicesOK, Given
  <1>5. x # None => x \in DOMAIN h /\ h[x].count > 0
    BY <1>0, <1>1 DEF SlicesOK, GoodPortion
  <1>6. ASSUME NEW b \in DOMAIN h
        PROVE  h[b].count = HoldersOf(s2, b) + One(x, b)
    <2>1. h[b].count = HoldersOf(sl, b) + One(new.storage, b)
      BY <1>1 DEF SlicesOK
    <2>2. HoldersOf(Given(sl, to, new), b) + One(sl[to].storage, b)
            = HoldersOf(sl, b) + One(new.storage, b)
      BY <1>3, HoldersChange
    <2> QED
      BY <1>0, <2>1, <2>2
  <1>7. SlicesOK(h, s2, t2, x)
    BY <1>4, <1>5, <1>6 DEF SlicesOK
  <1>8. Valid(h, st, co, s2, t2, x)
    BY <1>1, <1>2, <1>7 DEF Valid
  <1> QED
    BY <1>0, <1>8 DEF Given

-----------------------------------------------------------------------------
(* The count of a block.                                                     *)

Recount(h, x, n) ==
    [b \in DOMAIN h |-> IF b = x THEN [bytes |-> h[x].bytes, count |-> n] ELSE h[b]]

OnlyCount(h, g, x, n) ==
    /\ DOMAIN g = DOMAIN h /\ g[x].count = n
    /\ \A b \in DOMAIN h : g[b].bytes = h[b].bytes /\ (b # x => g[b] = h[b])

LEMMA RecountIs ==
    ASSUME NEW h, NEW x \in DOMAIN h, h \in [DOMAIN h -> Block], NEW n \in Nat
    PROVE  [h EXCEPT ![x].count = n] = Recount(h, x, n)
  <1>1. h[x] \in Block
    OBVIOUS
  <1>2. [h[x] EXCEPT !.count = n] = [bytes |-> h[x].bytes, count |-> n]
    BY <1>1 DEF Block
  <1>3. [h EXCEPT ![x] = [bytes |-> h[x].bytes, count |-> n]] = Recount(h, x, n)
    BY DEF Recount
  <1> QED
    BY <1>2, <1>3, Zenon

Sound(h, st, co, sl, tx) ==
    /\ Types(h, st, co, sl, tx) /\ StreamsOK(h, st, co)
    /\ \A i \in Slices : GoodPortion(h, sl[i], tx[i])

(* Nothing looks at the count but to see whether it is 0.                    *)
LEMMA Recounted ==
    ASSUME NEW h, NEW st, NEW co, NEW sl, NEW tx, NEW x \in DOMAIN h, NEW n \in Nat \ {0},
           Sound(h, st, co, sl, tx), h[x].count > 0
    PROVE  /\ Sound(Recount(h, x, n), st, co, sl, tx)
           /\ OnlyCount(h, Recount(h, x, n), x, n)
  <1> DEFINE g == Recount(h, x, n)
  <1>1. /\ Types(h, st, co, sl, tx) /\ h \in [DOMAIN h -> Block] /\ h[x] \in Block
        /\ StreamsOK(h, st, co) /\ \A i \in Slices : GoodPortion(h, sl[i], tx[i])
    BY DEF Types, Sound
  <1>2. /\ DOMAIN g = DOMAIN h /\ g[x] = [bytes |-> h[x].bytes, count |-> n]
        /\ \A b \in DOMAIN h : b # x => g[b] = h[b]
    BY <1>1 DEF Recount
  <1>4. g \in [DOMAIN g -> Block]
    BY <1>1 DEF Block, Recount
  <1> HIDE DEF g
  <1>3. /\ g[x].count = n /\ \A b \in DOMAIN h : g[b].bytes = h[b].bytes
        /\ \A b \in DOMAIN h : g[b].count = 0 <=> h[b].count = 0
        /\ \A b \in DOMAIN h : h[b].count > 0 => g[b].count > 0
    <2>1. \A b \in DOMAIN h : b = x \/ g[b] = h[b]
      BY <1>2
    <2>2. g[x].count = n /\ g[x].bytes = h[x].bytes /\ n > 0
      BY <1>2
    <2>3. \A b \in DOMAIN h : g[b].bytes = h[b].bytes
      BY <2>1, <2>2
    <2>4. \A b \in DOMAIN h : g[b].count = 0 <=> h[b].count = 0
      BY <2>1, <2>2
    <2>5. \A b \in DOMAIN h : h[b].count > 0 => g[b].count > 0
      BY <2>1, <2>2
    <2> QED
      BY <2>2, <2>3, <2>4, <2>5
  <1>5. Types(g, st, co, sl, tx)
    BY <1>1, <1>2, <1>4 DEF Types
  <1>6. StreamsOK(g, st, co)
    <2>1. \A s \in Streams : GoodStream(g, st[s], co[s])
      BY <1>1, <1>2, <1>3 DEF StreamsOK, GoodStream
    <2> QED
      BY <1>1, <1>2, <1>3, <2>1 DEF StreamsOK
  <1>7. \A i \in Slices : GoodPortion(g, sl[i], tx[i])
    BY <1>1, <1>2, <1>3 DEF GoodPortion
  <1>8. Sound(g, st, co, sl, tx) /\ OnlyCount(h, g, x, n)
    BY <1>2, <1>3, <1>5, <1>6, <1>7 DEF Sound, OnlyCount
  <1> QED
    BY <1>8 DEF g

LEMMA Held ==
    ASSUME NEW h, NEW st, NEW co, NEW sl, NEW tx, NEW x,
           Valid(h, st, co, sl, tx, None), x # None => x \in DOMAIN h /\ h[x].count > 0
    PROVE  /\ Valid(Hold(h, x), st, co, sl, tx, x)
           /\ \A p, t : GoodPortion(h, p, t) => GoodPortion(Hold(h, x), p, t)
  <1>1. Types(h, st, co, sl, tx) /\ StreamsOK(h, st, co) /\ SlicesOK(h, sl, tx, None)
    BY DEF Valid
  <1>2. CASE x = None
    BY <1>2 DEF Hold
  <1>3. CASE x # None
    <2>1. h \in [DOMAIN h -> Block] /\ h[x] \in Block /\ DOMAIN h \subseteq Blocks
      BY <1>1, <1>3 DEF Types
    <2>2. PICK n \in Nat \ {0} : n = h[x].count + 1 /\ h[x].count \in Nat
      <3>1. h[x].count \in Nat
        BY <2>1 DEF Block
      <3>2. h[x].count + 1 \in Nat \ {0}
        BY <3>1
      <3> QED
        BY <3>1, <3>2, Zenon
    <2>0. PICK g : g = Recount(h, x, n)
      OBVIOUS
    <2>3. /\ Sound(g, st, co, sl, tx)
          /\ DOMAIN g = DOMAIN h /\ g[x].count = n
          /\ \A b \in DOMAIN h : g[b].bytes = h[b].bytes /\ (b # x => g[b] = h[b])
      <3>1. Sound(h, st, co, sl, tx)
        BY <1>1 DEF SlicesOK, Sound
      <3>2. x \in DOMAIN h /\ h[x].count > 0
        BY <1>3
      <3>3. Sound(g, st, co, sl, tx) /\ OnlyCount(h, g, x, n)
        BY <2>0, <3>1, <3>2, Recounted
      <3> QED
        BY <3>3 DEF OnlyCount
    <2>4. Hold(h, x) = g
      BY <1>3, <2>0, <2>1, <2>2, RecountIs DEF Hold
    <2>5. ASSUME NEW b \in DOMAIN g
          PROVE  g[b].count = HoldersOf(sl, b) + One(x, b)
      <3>1. h[b].count = HoldersOf(sl, b) + One(None, b) /\ b # None
        BY <1>1, <2>1, <2>3, StreamAssumption DEF SlicesOK
      <3>2. HoldersOf(sl, b) \in Nat
        BY HoldersNat
      <3> QED
        BY <2>2, <2>3, <3>1, <3>2 DEF One
    <2>6. SlicesOK(g, sl, tx, x)
      BY <1>3, <2>2, <2>3, <2>5 DEF SlicesOK, Sound
    <2>7. \A p, t : GoodPortion(h, p, t) => GoodPortion(g, p, t)
      <3>1. \A b \in DOMAIN h : h[b].count > 0 => g[b].count > 0
        BY <2>2, <2>3
      <3> QED
        BY <2>3, <3>1 DEF GoodPortion
    <2> QED
      BY <2>3, <2>4, <2>6, <2>7 DEF Valid, Sound
  <1> QED
    BY <1>2, <1>3

LEMMA Released ==
    ASSUME NEW h, NEW st, NEW co, NEW sl, NEW tx, NEW x,
           Valid(h, st, co, sl, tx, x)
    PROVE  Valid(Release(h, x), st, co, sl, tx, None)
  <1>1. Types(h, st, co, sl, tx) /\ StreamsOK(h, st, co) /\ SlicesOK(h, sl, tx, x)
    BY DEF Valid
  <1>2. CASE x = None
    BY <1>2 DEF Release
  <1>3. CASE x # None
    <2>1. /\ x \in DOMAIN h /\ h[x].count > 0 /\ h \in [DOMAIN h -> Block] /\ h[x] \in Block
          /\ DOMAIN h \subseteq Blocks /\ sl \in [Slices -> Slice]
      BY <1>1, <1>3 DEF SlicesOK, Types
    <2>2. /\ h[x].count \in Nat
          /\ \A b \in DOMAIN h : b # None /\ h[b].count \in Nat
      BY <2>1, StreamAssumption DEF Block
    <2>3. /\ \A i \in Slices : GoodPortion(h, sl[i], tx[i])
          /\ \A b \in DOMAIN h : h[b].count = HoldersOf(sl, b) + One(x, b)
      BY <1>1 DEF SlicesOK
    <2>4. \A b \in DOMAIN h : HoldersOf(sl, b) = h[b].count - One(x, b)
      <3> SUFFICES ASSUME NEW b \in DOMAIN h
                   PROVE  HoldersOf(sl, b) = h[b].count - One(x, b)
        OBVIOUS
      <3>1. HoldersOf(sl, b) \in Nat
        BY HoldersNat
      <3> QED
        BY <2>3, <3>1 DEF One
    <2>5. CASE h[x].count = 1
      <3> DEFINE g == Without(h, x)
      <3>1. Release(h, x) = g
        BY <1>3, <2>5 DEF Release
      <3>2. /\ DOMAIN g = (DOMAIN h) \ {x} /\ g \in [DOMAIN g -> Block]
            /\ \A b \in DOMAIN g : g[b] = h[b]
        BY <2>1 DEF Without
      <3> HIDE DEF g
      <3>3. HoldersOf(sl, x) = 0
        BY <2>1, <2>4, <2>5 DEF One
      <3>4. \A i \in Slices : sl[i].storage # x
        <4>1. IsFiniteSet({i \in Slices : sl[i].storage = x})
          BY SliceAssumption, FS_Subset
        <4>2. {i \in Slices : sl[i].storage = x} = {}
          BY <3>3, <4>1, FS_EmptySet DEF HoldersOf
        <4> QED
          BY <4>2
      <3>5. Types(g, st, co, sl, tx)
        BY <1>1, <3>2 DEF Types
      <3>6. StreamsOK(g, st, co)
        <4>1. \A s \in Streams : GoodStream(g, st[s], co[s])
          BY <1>1, <2>1, <2>5, <3>2 DEF StreamsOK, GoodStream
        <4> QED
          BY <1>1, <3>2, <4>1 DEF StreamsOK
      <3>7. SlicesOK(g, sl, tx, None)
        <4>1. \A i \in Slices : GoodPortion(g, sl[i], tx[i])
          BY <2>3, <3>2, <3>4 DEF GoodPortion
        <4>2. \A b \in DOMAIN g : g[b].count = HoldersOf(sl, b) + One(None, b)
          BY <2>2, <2>4, <3>2 DEF One
        <4> QED
          BY <4>1, <4>2 DEF SlicesOK
      <3> QED
        BY <3>1, <3>5, <3>6, <3>7 DEF Valid
    <2>6. CASE h[x].count # 1
      <3>1. PICK n \in Nat \ {0} : n = h[x].count - 1
        BY <2>1, <2>2, <2>6
      <3>0. PICK g : g = Recount(h, x, n)
        OBVIOUS
      <3>2. Release(h, x) = g
        BY <1>3, <2>1, <2>6, <3>0, <3>1, RecountIs DEF Release
      <3>3. /\ Sound(g, st, co, sl, tx)
            /\ DOMAIN g = DOMAIN h /\ g[x].count = n
            /\ \A b \in DOMAIN h : g[b].bytes = h[b].bytes /\ (b # x => g[b] = h[b])
        <4>1. Sound(h, st, co, sl, tx)
          BY <1>1, <2>3 DEF Sound
        <4>2. Sound(g, st, co, sl, tx) /\ OnlyCount(h, g, x, n)
          BY <2>1, <3>0, <4>1, Recounted
        <4> QED
          BY <4>2 DEF OnlyCount
      <3>4. \A b \in DOMAIN g : g[b].count = HoldersOf(sl, b) + One(None, b)
        <4> SUFFICES ASSUME NEW b \in DOMAIN g
                     PROVE  g[b].count = HoldersOf(sl, b)
          <5>1. ASSUME NEW b \in DOMAIN g, g[b].count = HoldersOf(sl, b)
                PROVE  g[b].count = HoldersOf(sl, b) + One(None, b)
            <6>1. None # b /\ HoldersOf(sl, b) \in Nat
              BY <2>2, <3>3, HoldersNat
            <6> QED
              BY <5>1, <6>1 DEF One
          <5> QED
            BY <5>1
        <4>1. CASE b = x
          BY <2>1, <2>4, <3>1, <3>3, <4>1 DEF One
        <4>2. CASE b # x
          BY <2>2, <2>4, <3>3, <4>2 DEF One
        <4> QED
          BY <4>1, <4>2
      <3>5. SlicesOK(g, sl, tx, None)
        BY <3>3, <3>4 DEF SlicesOK, Sound
      <3> QED
        BY <3>2, <3>3, <3>5 DEF Valid, Sound
    <2> QED
      BY <2>5, <2>6
  <1> QED
    BY <1>2, <1>3

(* An assignment as a whole.                                                 *)
LEMMA AssignedOK ==
    ASSUME NEW h, NEW st, NEW co, NEW sl, NEW tx, NEW to \in Slices,
           NEW new \in Slice, NEW t \in Seq(Byte),
           Valid(h, st, co, sl, tx, new.storage), GoodPortion(h, new, t)
    PROVE  Valid(Release(h, sl[to].storage), st, co,
                 [sl EXCEPT ![to] = new], [tx EXCEPT ![to] = t], None)
  BY Swapped, Released

(* A slice gets another portion of the block it has.                         *)
LEMMA Replaced ==
    ASSUME NEW h, NEW st, NEW co, NEW sl, NEW tx, NEW x, NEW to \in Slices,
           NEW new \in Slice, NEW t \in Seq(Byte),
           Valid(h, st, co, sl, tx, x), GoodPortion(h, new, t),
           new.storage = sl[to].storage
    PROVE  Valid(h, st, co, [sl EXCEPT ![to] = new], [tx EXCEPT ![to] = t], x)
  <1>0. PICK s2, t2 : s2 = Given(sl, to, new) /\ t2 = [tx EXCEPT ![to] = t]
    OBVIOUS
  <1>1. Types(h, st, co, sl, tx) /\ StreamsOK(h, st, co) /\ SlicesOK(h, sl, tx, x)
    BY DEF Valid
  <1>2. Types(h, st, co, s2, t2)
    BY <1>0, <1>1 DEF Types, Given
  <1>3. sl \in [Slices -> Slice] /\ tx \in [Slices -> Seq(Byte)]
    BY <1>1 DEF Types
  <1>4. \A i \in Slices : GoodPortion(h, s2[i], t2[i])
    BY <1>0, <1>1, <1>3 DEF SlicesOK, Given
  <1>5. ASSUME NEW b \in DOMAIN h
        PROVE  h[b].count = HoldersOf(s2, b) + One(x, b)
    <2>1. h[b].count = HoldersOf(sl, b) + One(x, b)
      BY <1>1 DEF SlicesOK
    <2>2. HoldersOf(Given(sl, to, new), b) + One(sl[to].storage, b)
            = HoldersOf(sl, b) + One(new.storage, b)
      BY <1>3, HoldersChange, SMTT(30)
    <2>3. HoldersOf(s2, b) \in Nat /\ HoldersOf(sl, b) \in Nat /\ One(new.storage, b) \in {0, 1}
      BY HoldersNat, OneType
    <2> QED
      BY <1>0, <2>1, <2>2, <2>3
  <1>6. SlicesOK(h, s2, t2, x)
    BY <1>1, <1>4, <1>5 DEF SlicesOK
  <1>7. Valid(h, st, co, s2, t2, x)
    BY <1>1, <1>2, <1>6 DEF Valid
  <1> QED
    BY <1>0, <1>7 DEF Given

-----------------------------------------------------------------------------
(* A block more or less.                                                     *)

Add(h, c, block) == [d \in DOMAIN h \union {c} |-> IF d = c THEN block ELSE h[d]]

LEMMA AddIs ==
    ASSUME NEW h, NEW c, NEW block
    PROVE  /\ DOMAIN Add(h, c, block) = DOMAIN h \union {c} /\ Add(h, c, block)[c] = block
           /\ \A d \in DOMAIN h : d # c => Add(h, c, block)[d] = h[d]
           /\ block \in Block /\ h \in [DOMAIN h -> Block]
                => Add(h, c, block) \in [DOMAIN Add(h, c, block) -> Block]
  BY DEF Add

(* What is good in a heap is good in one with more blocks.                   *)
LEMMA StaysGood ==
    ASSUME NEW h, NEW g, \A b \in DOMAIN h : b \in DOMAIN g /\ g[b] = h[b]
    PROVE  /\ \A r, c : GoodStream(h, r, c) => GoodStream(g, r, c)
           /\ \A p, t : GoodPortion(h, p, t) => GoodPortion(g, p, t)
  BY DEF GoodStream, GoodPortion

LEMMA NobodyHolds ==
    ASSUME NEW h, NEW st, NEW co, NEW sl, NEW tx, NEW x, NEW c,
           Valid(h, st, co, sl, tx, x), c # None, c \notin DOMAIN h
    PROVE  HoldersOf(sl, c) = 0
  <1>1. \A i \in Slices : sl[i].storage # c
    BY DEF Valid, SlicesOK, GoodPortion
  <1>2. {i \in Slices : sl[i].storage = c} = {}
    BY <1>1
  <1> QED
    BY <1>2, FS_EmptySet DEF HoldersOf

(* A new block with a count of 1, for whoever asked for it.                  *)
LEMMA NewBlock ==
    ASSUME NEW h, NEW st, NEW co, NEW sl, NEW tx, NEW c \in Blocks \ DOMAIN h,
           NEW bytes \in Seq(Byte), Valid(h, st, co, sl, tx, None)
    PROVE  Valid(Add(h, c, [bytes |-> bytes, count |-> 1]), st, co, sl, tx, c)
  <1>0. PICK g : g = Add(h, c, [bytes |-> bytes, count |-> 1])
    OBVIOUS
  <1>1. Types(h, st, co, sl, tx) /\ StreamsOK(h, st, co) /\ SlicesOK(h, sl, tx, None)
    BY DEF Valid
  <1>2. h \in [DOMAIN h -> Block] /\ c # None /\ DOMAIN h \subseteq Blocks
    BY <1>1, StreamAssumption DEF Types
  <1>3. [bytes |-> bytes, count |-> 1] \in Block
    BY DEF Block
  <1>4. /\ DOMAIN g = DOMAIN h \union {c} /\ g[c] = [bytes |-> bytes, count |-> 1]
        /\ \A d \in DOMAIN h : g[d] = h[d]
        /\ g \in [DOMAIN g -> Block]
    BY <1>0, <1>2, <1>3 DEF Add
  <1>5. Types(g, st, co, sl, tx)
    BY <1>1, <1>4 DEF Types
  <1>6. StreamsOK(g, st, co)
    BY <1>1, <1>4, StaysGood DEF StreamsOK
  <1>7. SlicesOK(g, sl, tx, c)
    <2>1. \A i \in Slices : GoodPortion(g, sl[i], tx[i])
      BY <1>1, <1>4, StaysGood DEF SlicesOK
    <2>2. g[c].count = HoldersOf(sl, c) + One(c, c)
      <3>1. HoldersOf(sl, c) = 0
        BY <1>2, NobodyHolds
      <3> QED
        BY <1>4, <3>1 DEF One
    <2>3. ASSUME NEW b \in DOMAIN h
          PROVE  g[b].count = HoldersOf(sl, b) + One(c, b)
      <3>1. h[b].count = HoldersOf(sl, b) + One(None, b) /\ b # None /\ b # c
        BY <1>1, <1>2, StreamAssumption DEF SlicesOK
      <3> QED
        BY <1>4, <3>1 DEF One
    <2> QED
      BY <1>2, <1>4, <2>1, <2>2, <2>3 DEF SlicesOK
  <1> QED
    BY <1>0, <1>5, <1>6, <1>7 DEF Valid

(* A stream gives its block back.                                            *)
LEMMA Freed ==
    ASSUME NEW h, NEW st, NEW co, NEW sl, NEW tx, NEW s \in Streams,
           Valid(h, st, co, sl, tx, None)
    PROVE  Valid(Free(h, st[s].buffer),
                 [st EXCEPT ![s] = Empty], [co EXCEPT ![s] = <<>>], sl, tx, None)
  <1>0. PICK g, s2, c2 : /\ g = Free(h, st[s].buffer) /\ s2 = [st EXCEPT ![s] = Empty]
                         /\ c2 = [co EXCEPT ![s] = <<>>]
    OBVIOUS
  <1>1. Types(h, st, co, sl, tx) /\ StreamsOK(h, st, co) /\ SlicesOK(h, sl, tx, None)
    BY DEF Valid
  <1>2. /\ h \in [DOMAIN h -> Block] /\ DOMAIN h \subseteq Blocks /\ None \notin DOMAIN h
        /\ st \in [Streams -> Stream] /\ co \in [Streams -> Seq(Byte)]
    BY <1>1, StreamAssumption DEF Types
  <1>3. Empty \in Stream /\ <<>> \in Seq(Byte)
    BY DEF Empty, Stream, Address
  <1>4. /\ DOMAIN g = (DOMAIN h) \ {st[s].buffer}
        /\ \A b \in DOMAIN g : g[b] = h[b]
        /\ g \in [DOMAIN g -> Block]
    BY <1>0, <1>2 DEF Free, Without
  <1>5. /\ s2 \in [Streams -> Stream] /\ c2 \in [Streams -> Seq(Byte)]
        /\ s2[s] = Empty /\ c2[s] = <<>>
        /\ \A r \in Streams : r # s => s2[r] = st[r] /\ c2[r] = co[r]
    BY <1>0, <1>2, <1>3
  <1>6. Types(g, s2, c2, sl, tx)
    BY <1>1, <1>2, <1>4, <1>5 DEF Types
  <1>7. GoodStream(h, st[s], co[s])
    BY <1>1 DEF StreamsOK
  <1>8. StreamsOK(g, s2, c2)
    <2>1. ASSUME NEW r \in Streams
          PROVE  GoodStream(g, s2[r], c2[r])
      <3>1. CASE r = s
        BY <1>5, <3>1 DEF GoodStream, Empty
      <3>2. CASE r # s
        <4>1. GoodStream(h, st[r], co[r]) /\ (st[r].buffer = st[s].buffer => st[r].buffer = None)
          BY <1>1, <3>2 DEF StreamsOK
        <4> QED
          BY <1>4, <1>5, <3>2, <4>1 DEF GoodStream
      <3> QED
        BY <3>1, <3>2
    <2>2. \A q, r \in Streams : s2[q].buffer = s2[r].buffer /\ q # r => s2[q].buffer = None
      <3>1. s2[s].buffer = None
        BY <1>5 DEF Empty
      <3> QED
        BY <1>1, <1>5, <3>1 DEF StreamsOK
    <2>3. \A b \in DOMAIN g : g[b].count = 0 => \E r \in Streams : s2[r].buffer = b
      BY <1>1, <1>4, <1>5 DEF StreamsOK
    <2> QED
      BY <2>1, <2>2, <2>3 DEF StreamsOK
  <1>9. SlicesOK(g, sl, tx, None)
    <2>1. ASSUME NEW i \in Slices
          PROVE  GoodPortion(g, sl[i], tx[i])
      <3>1. GoodPortion(h, sl[i], tx[i])
        BY <1>1 DEF SlicesOK
      <3>2. sl[i].storage # None => sl[i].storage # st[s].buffer
        BY <1>7, <3>1 DEF GoodPortion, GoodStream
      <3> QED
        BY <1>4, <3>1, <3>2 DEF GoodPortion
    <2> QED
      BY <1>1, <1>4, <2>1 DEF SlicesOK
  <1> QED
    BY <1>0, <1>6, <1>8, <1>9 DEF Valid

(* A stream without a block gets one, with what was written so far.          *)
LEMMA Installed ==
    ASSUME NEW h, NEW st, NEW co, NEW sl, NEW tx, NEW s \in Streams,
           NEW c \in Blocks \ DOMAIN h, NEW bytes \in Seq(Byte),
           NEW next \in 0..Len(bytes), NEW written \in Seq(Byte),
           Valid(h, st, co, sl, tx, None), st[s].buffer = None,
           SubSeq(bytes, 1, next) = written
    PROVE  Valid(Add(h, c, [bytes |-> bytes, count |-> 0]),
                 [st EXCEPT ![s] = [buffer |-> c, next |-> next, end |-> Len(bytes)]],
                 [co EXCEPT ![s] = written], sl, tx, None)
  <1>0. PICK g, r, s2, c2 :
            /\ g = Add(h, c, [bytes |-> bytes, count |-> 0])
            /\ r = [buffer |-> c, next |-> next, end |-> Len(bytes)]
            /\ s2 = [st EXCEPT ![s] = r] /\ c2 = [co EXCEPT ![s] = written]
    OBVIOUS
  <1>1. Types(h, st, co, sl, tx) /\ StreamsOK(h, st, co) /\ SlicesOK(h, sl, tx, None)
    BY DEF Valid
  <1>2. /\ h \in [DOMAIN h -> Block] /\ DOMAIN h \subseteq Blocks /\ c # None
        /\ st \in [Streams -> Stream] /\ co \in [Streams -> Seq(Byte)]
        /\ Len(bytes) \in Nat
    BY <1>1, StreamAssumption, LenProperties DEF Types
  <1>3. [bytes |-> bytes, count |-> 0] \in Block /\ r \in Stream
    BY <1>0, <1>2 DEF Block, Stream, Address
  <1>4. /\ DOMAIN g = DOMAIN h \union {c} /\ g[c] = [bytes |-> bytes, count |-> 0]
        /\ \A d \in DOMAIN h : g[d] = h[d]
        /\ g \in [DOMAIN g -> Block]
    BY <1>0, <1>2, <1>3 DEF Add
  <1>5. /\ s2 \in [Streams -> Stream] /\ c2 \in [Streams -> Seq(Byte)]
        /\ s2[s] = r /\ c2[s] = written
        /\ \A q \in Streams : q # s => s2[q] = st[q] /\ c2[q] = co[q]
    BY <1>0, <1>2, <1>3
  <1>6. Types(g, s2, c2, sl, tx)
    BY <1>1, <1>2, <1>4, <1>5 DEF Types
  <1>7. \A q \in Streams : st[q].buffer # c
    BY <1>1, <1>2 DEF StreamsOK, GoodStream
  <1>8. StreamsOK(g, s2, c2)
    <2>1. GoodStream(g, s2[s], c2[s])
      BY <1>0, <1>2, <1>4, <1>5 DEF GoodStream
    <2>2. ASSUME NEW q \in Streams, q # s
          PROVE  GoodStream(g, s2[q], c2[q])
      <3>1. GoodStream(h, st[q], co[q])
        BY <1>1 DEF StreamsOK
      <3> QED
        BY <1>4, <1>5, <2>2, <3>1, StaysGood
    <2>3. \A p, q \in Streams : s2[p].buffer = s2[q].buffer /\ p # q => s2[p].buffer = None
      <3>1. s2[s].buffer = c
        BY <1>0, <1>5
      <3> QED
        BY <1>1, <1>5, <1>7, <3>1, SMTT(30) DEF StreamsOK
    <2>4. \A b \in DOMAIN g : g[b].count = 0 => \E q \in Streams : s2[q].buffer = b
      <3>1. s2[s].buffer = c
        BY <1>0, <1>5
      <3>2. ASSUME NEW b \in DOMAIN h, g[b].count = 0
            PROVE  \E q \in Streams : s2[q].buffer = b
        <4>1. PICK q \in Streams : st[q].buffer = b
          BY <1>1, <1>4, <3>2 DEF StreamsOK
        <4>2. q # s
          BY <1>2, <4>1, StreamAssumption
        <4> QED
          BY <1>5, <4>1, <4>2
      <3> QED
        BY <1>4, <3>1, <3>2
    <2> QED
      BY <2>1, <2>2, <2>3, <2>4 DEF StreamsOK
  <1>9. SlicesOK(g, sl, tx, None)
    <2>1. \A i \in Slices : GoodPortion(g, sl[i], tx[i])
      BY <1>1, <1>4, StaysGood DEF SlicesOK
    <2>2. g[c].count = HoldersOf(sl, c) + One(None, c)
      <3>1. HoldersOf(sl, c) = 0
        BY <1>2, NobodyHolds
      <3> QED
        BY <1>2, <1>4, <3>1 DEF One
    <2> QED
      BY <1>1, <1>4, <2>1, <2>2 DEF SlicesOK
  <1> QED
    BY <1>0, <1>6, <1>8, <1>9 DEF Valid

(* A stream without a block gets that of another one.                        *)
LEMMA StreamMoved ==
    ASSUME NEW h, NEW st, NEW co, NEW sl, NEW tx, NEW from \in Streams, NEW to \in Streams,
           Valid(h, st, co, sl, tx, None), from # to, st[to].buffer = None
    PROVE  Valid(h, [st EXCEPT ![to] = st[from], ![from] = Empty],
                 [co EXCEPT ![to] = co[from], ![from] = <<>>], sl, tx, None)
  <1>0. PICK s2, c2 : /\ s2 = [st EXCEPT ![to] = st[from], ![from] = Empty]
                      /\ c2 = [co EXCEPT ![to] = co[from], ![from] = <<>>]
    OBVIOUS
  <1>1. Types(h, st, co, sl, tx) /\ StreamsOK(h, st, co) /\ SlicesOK(h, sl, tx, None)
    BY DEF Valid
  <1>2. st \in [Streams -> Stream] /\ co \in [Streams -> Seq(Byte)]
    BY <1>1 DEF Types
  <1>3. Empty \in Stream /\ <<>> \in Seq(Byte) /\ Empty.buffer = None
    BY DEF Empty, Stream, Address
  <1>4. /\ s2 \in [Streams -> Stream] /\ c2 \in [Streams -> Seq(Byte)]
        /\ s2[to] = st[from] /\ c2[to] = co[from] /\ s2[from] = Empty /\ c2[from] = <<>>
        /\ \A q \in Streams \ {from, to} : s2[q] = st[q] /\ c2[q] = co[q]
    BY <1>0, <1>2, <1>3
  <1>5. Types(h, s2, c2, sl, tx)
    BY <1>1, <1>4 DEF Types
  <1>6. StreamsOK(h, s2, c2)
    <2>1. GoodStream(h, s2[from], c2[from])
      BY <1>4 DEF GoodStream, Empty
    <2>2. \A q \in Streams : GoodStream(h, s2[q], c2[q])
      BY <1>1, <1>4, <2>1 DEF StreamsOK
    <2>3. ASSUME NEW p \in Streams, NEW q \in Streams, s2[p].buffer = s2[q].buffer, p # q
          PROVE  s2[p].buffer = None
      <3>1. \A a, b \in Streams : st[a].buffer = st[b].buffer /\ a # b => st[a].buffer = None
        BY <1>1 DEF StreamsOK
      <3>2. CASE p = from \/ q = from
        BY <1>3, <1>4, <2>3, <3>2
      <3>3. CASE p # from /\ q # from
        BY <1>4, <2>3, <3>1, <3>3, ZenonT(40)
      <3> QED
        BY <3>2, <3>3
    <2>4. ASSUME NEW b \in DOMAIN h, h[b].count = 0
          PROVE  \E q \in Streams : s2[q].buffer = b
      <3>1. PICK q \in Streams : st[q].buffer = b
        BY <1>1, <2>4 DEF StreamsOK
      <3>2. q # to
        BY <1>1, <3>1, StreamAssumption DEF Types
      <3> QED
        BY <1>4, <3>1, <3>2
    <2> QED
      BY <2>2, <2>3, <2>4 DEF StreamsOK
  <1> QED
    BY <1>0, <1>1, <1>5, <1>6 DEF Valid

(* A stream keeps its block, and starts again.                               *)
LEMMA Cleared ==
    ASSUME NEW h, NEW st, NEW co, NEW sl, NEW tx, NEW s \in Streams,
           Valid(h, st, co, sl, tx, None)
    PROVE  Valid(h, [st EXCEPT ![s].next = 0], [co EXCEPT ![s] = <<>>], sl, tx, None)
  <1>0. PICK r, s2, c2 : /\ r = [st[s] EXCEPT !.next = 0]
                         /\ s2 = [st EXCEPT ![s] = r] /\ c2 = [co EXCEPT ![s] = <<>>]
    OBVIOUS
  <1>1. Types(h, st, co, sl, tx) /\ StreamsOK(h, st, co) /\ SlicesOK(h, sl, tx, None)
    BY DEF Valid
  <1>2. st \in [Streams -> Stream] /\ co \in [Streams -> Seq(Byte)] /\ st[s] \in Stream
    BY <1>1 DEF Types
  <1>3. /\ r \in Stream /\ r.buffer = st[s].buffer /\ r.next = 0 /\ r.end = st[s].end
        /\ r.end \in Nat
    BY <1>0, <1>2 DEF Stream
  <1>4. /\ s2 \in [Streams -> Stream] /\ c2 \in [Streams -> Seq(Byte)]
        /\ s2[s] = r /\ c2[s] = <<>>
        /\ \A q \in Streams : q # s => s2[q] = st[q] /\ c2[q] = co[q]
    BY <1>0, <1>2, <1>3
  <1>5. Types(h, s2, c2, sl, tx)
    BY <1>1, <1>4 DEF Types
  <1>6. StreamsOK(h, s2, c2)
    <2>1. GoodStream(h, st[s], co[s])
      BY <1>1 DEF StreamsOK
    <2>2. GoodStream(h, r, <<>>)
      <3>1. CASE r.buffer = None
        <4>1. st[s] = Empty
          BY <1>3, <2>1, <3>1 DEF GoodStream
        <4>2. r = Empty
          BY <1>0, <4>1 DEF Empty
        <4> QED
          BY <1>3, <3>1, <4>2 DEF GoodStream
      <3>2. CASE r.buffer # None
        <4>1. SubSeq(h[r.buffer].bytes, 1, 0) = <<>>
          OBVIOUS
        <4> QED
          BY <1>3, <2>1, <3>2, <4>1 DEF GoodStream
      <3> QED
        BY <3>1, <3>2
    <2>3. \A q \in Streams : s2[q].buffer = st[q].buffer
      BY <1>3, <1>4
    <2>4. ASSUME NEW q \in Streams
          PROVE  GoodStream(h, s2[q], c2[q])
      <3>1. GoodStream(h, st[q], co[q])
        BY <1>1 DEF StreamsOK
      <3> QED
        BY <1>4, <2>2, <3>1
    <2>5. /\ \A p, q \in Streams : st[p].buffer = st[q].buffer /\ p # q => st[p].buffer = None
          /\ \A b \in DOMAIN h : h[b].count = 0 => \E q \in Streams : st[q].buffer = b
      BY <1>1 DEF StreamsOK
    <2> QED
      BY <2>3, <2>4, <2>5 DEF StreamsOK
  <1>7. Valid(h, s2, c2, sl, tx, None)
    BY <1>1, <1>5, <1>6 DEF Valid
  <1>8. s2 = [st EXCEPT ![s].next = 0]
    BY <1>0, Zenon
  <1> QED
    BY <1>0, <1>7, <1>8

-----------------------------------------------------------------------------
(* What the functions do to the bytes.                                       *)

Overlaid(old, next, piece) ==
    [i \in DOMAIN old |-> IF i \in next + 1 .. next + Len(piece) THEN piece[i - next] ELSE old[i]]

LEMMA PieceWritten ==
    ASSUME NEW old \in Seq(Byte), NEW next \in Nat, NEW piece \in Seq(Byte),
           next + Len(piece) <= Len(old)
    PROVE  /\ Overlaid(old, next, piece) \in Seq(Byte)
           /\ Len(Overlaid(old, next, piece)) = Len(old)
           /\ SubSeq(Overlaid(old, next, piece), 1, next + Len(piece))
                = SubSeq(old, 1, next) \o piece
  <1>0. PICK new : new = Overlaid(old, next, piece)
    OBVIOUS
  <1> DEFINE m == Len(piece)
             k == Len(old)
  <1>1. m \in Nat /\ k \in Nat /\ DOMAIN old = 1..k /\ next <= k /\ next + m <= k
    BY LenProperties
  <1>2. \A i \in 1..k : old[i] \in Byte
    BY <1>1, ElementOfSeq
  <1>3. \A i \in 1..m : piece[i] \in Byte
    BY ElementOfSeq
  <1> HIDE DEF m, k
  <1>4. new = [i \in 1..k |-> IF i \in next + 1 .. next + m THEN piece[i - next] ELSE old[i]]
    BY <1>0, <1>1 DEF m, Overlaid
  <1>5. \A i \in 1..k : new[i] \in Byte
    <2> SUFFICES ASSUME NEW i \in 1..k PROVE new[i] \in Byte
      OBVIOUS
    <2>1. CASE i \in next + 1 .. next + m
      <3>1. i - next \in 1..m
        BY <1>1, <2>1
      <3>2. new[i] = piece[i - next]
        BY <1>4, <2>1
      <3> QED
        BY <1>3, <3>1, <3>2
    <2>2. CASE i \notin next + 1 .. next + m
      BY <1>2, <1>4, <2>2
    <2> QED
      BY <2>1, <2>2
  <1>6. new \in [1..k -> Byte]
    BY <1>4, <1>5
  <1>7. new \in Seq(Byte)
    BY <1>1, <1>6, SeqDef
  <1>8. Len(new) = k
    BY <1>1, <1>6, <1>7, LenProperties
  <1>9. SubSeq(new, 1, next + m) = SubSeq(old, 1, next) \o piece
    <2>1. /\ SubSeq(new, 1, next + m) \in Seq(Byte) /\ Len(SubSeq(new, 1, next + m)) = next + m
          /\ \A i \in 1 .. next + m : SubSeq(new, 1, next + m)[i] = new[i]
      BY <1>1, <1>7, <1>8
    <2>2. /\ SubSeq(old, 1, next) \in Seq(Byte) /\ Len(SubSeq(old, 1, next)) = next
          /\ \A i \in 1 .. next : SubSeq(old, 1, next)[i] = old[i]
      BY <1>1 DEF k
    <2>3. PICK c \in Seq(Byte) : c = SubSeq(old, 1, next)
      BY <2>2
    <2>4. /\ c \o piece \in Seq(Byte) /\ Len(c \o piece) = next + m
          /\ \A i \in 1 .. next + m : (c \o piece)[i] = IF i <= next THEN old[i] ELSE piece[i - next]
      <3>1. /\ c \o piece \in Seq(Byte) /\ Len(c \o piece) = next + m
            /\ \A i \in 1 .. next + m : (c \o piece)[i] = IF i <= next THEN c[i] ELSE piece[i - next]
        BY <2>2, <2>3, ConcatProperties DEF m
      <3>2. \A i \in 1 .. next + m : i <= next => c[i] = old[i]
        BY <1>1, <2>2, <2>3
      <3> QED
        BY <3>1, <3>2
    <2>5. ASSUME NEW i \in 1 .. next + m
          PROVE  new[i] = IF i <= next THEN old[i] ELSE piece[i - next]
      <3>1. i \in 1..k
        BY <1>1
      <3>2. i <= next <=> i \notin next + 1 .. next + m
        BY <1>1
      <3>3. CASE i <= next
        BY <1>4, <3>1, <3>2, <3>3
      <3>4. CASE ~(i <= next)
        BY <1>4, <3>1, <3>2, <3>4
      <3> QED
        BY <3>3, <3>4
    <2>6. PICK d \in Seq(Byte), e \in Seq(Byte) :
              d = SubSeq(new, 1, next + m) /\ e = c \o piece
      BY <2>1, <2>4
    <2>7. d = e
      BY <1>1, <2>1, <2>4, <2>5, <2>6, SeqEqual
    <2> QED
      BY <2>3, <2>6, <2>7
  <1> QED
    BY <1>0, <1>7, <1>8, <1>9 DEF m, k

LEMMA ResizedKeeps ==
    ASSUME Inv, NEW s \in Streams, NEW length \in Nat, stream[s].next <= length
    PROVE  /\ Resized(stream[s].buffer, length) \in Seq(Byte)
           /\ Len(Resized(stream[s].buffer, length)) = length
           /\ SubSeq(Resized(stream[s].buffer, length), 1, stream[s].next) = content[s]
  <1>1. PICK b, n, new : b = stream[s].buffer /\ n = stream[s].next /\ new = Resized(b, length)
    OBVIOUS
  <1>2. /\ GoodStream(heap, stream[s], content[s]) /\ n \in Nat /\ n <= length
        /\ heap \in [DOMAIN heap -> Block] /\ content[s] \in Seq(Byte)
    BY <1>1 DEF Inv, Valid, Types, StreamsOK, Stream
  <1>3. CASE b = None
    <2>1. n = 0 /\ content[s] = <<>>
      BY <1>1, <1>2, <1>3 DEF GoodStream, Empty
    <2>2. new = [i \in 1..length |-> 0]
      BY <1>1, <1>3 DEF Resized, Junk
    <2>3. new \in [1..length -> Byte]
      BY <2>2 DEF Byte
    <2>4. new \in Seq(Byte)
      BY <2>3, SeqDef
    <2>5. Len(new) = length
      BY <2>3, <2>4, LenProperties
    <2>6. SubSeq(new, 1, 0) = <<>>
      OBVIOUS
    <2> QED
      BY <1>1, <2>1, <2>4, <2>5, <2>6
  <1>4. CASE b # None
    <2>1. PICK old \in Seq(Byte) : old = heap[b].bytes /\ SubSeq(old, 1, n) = content[s] /\ n <= Len(old)
      BY <1>1, <1>2, <1>4 DEF GoodStream, Block
    <2>2. Len(old) \in Nat /\ DOMAIN old = 1..Len(old) /\ \A i \in 1..Len(old) : old[i] \in Byte
      BY LenProperties, ElementOfSeq
    <2>3. new = [i \in 1..length |-> IF i <= Len(old) THEN old[i] ELSE 0]
      BY <1>1, <1>4, <2>1 DEF Resized, Junk
    <2>4. new \in [1..length -> Byte]
      BY <2>2, <2>3 DEF Byte
    <2>5. new \in Seq(Byte)
      BY <2>4, SeqDef
    <2>6. Len(new) = length
      BY <2>4, <2>5, LenProperties
    <2>7. SubSeq(new, 1, n) = SubSeq(old, 1, n)
      <3>1. /\ SubSeq(new, 1, n) \in Seq(Byte) /\ Len(SubSeq(new, 1, n)) = n
            /\ \A i \in 1..n : SubSeq(new, 1, n)[i] = new[i]
        BY <1>2, <2>5, <2>6
      <3>2. /\ SubSeq(old, 1, n) \in Seq(Byte) /\ Len(SubSeq(old, 1, n)) = n
            /\ \A i \in 1..n : SubSeq(old, 1, n)[i] = old[i]
        BY <1>2, <2>1, <2>2
      <3>3. \A i \in 1..n : new[i] = old[i]
        BY <1>2, <2>1, <2>2, <2>3
      <3>4. PICK d \in Seq(Byte), e \in Seq(Byte) : d = SubSeq(new, 1, n) /\ e = SubSeq(old, 1, n)
        BY <3>1, <3>2
      <3> QED
        BY <1>2, <3>1, <3>2, <3>3, <3>4, SeqEqual
    <2> QED
      BY <1>1, <2>1, <2>5, <2>6, <2>7
  <1> QED
    BY <1>3, <1>4

(* A portion of a portion.                                                   *)
LEMMA PartOfPart ==
    ASSUME NEW bytes \in Seq(Byte), NEW at \in Nat, NEW size \in Nat,
           at + size <= Len(bytes), NEW m \in Nat, NEW n \in Nat, m <= n, n <= size,
           NEW t, t = SubSeq(bytes, at + 1, at + size)
    PROVE  /\ t \in Seq(Byte) /\ Len(t) = size
           /\ SubSeq(t, m + 1, n) \in Seq(Byte)
           /\ SubSeq(t, m + 1, n) = SubSeq(bytes, at + m + 1, at + n)
  <1>1. Len(bytes) \in Nat
    BY LenProperties
  <1>2. /\ t \in Seq(Byte) /\ Len(t) = size /\ \A i \in 1..size : t[i] = bytes[at + i]
    <2>1. CASE size = 0
      BY <1>1, <2>1
    <2>2. CASE size > 0
      BY <1>1, <2>2
    <2> QED
      BY <2>1, <2>2
  <1>3. /\ SubSeq(t, m + 1, n) \in Seq(Byte) /\ Len(SubSeq(t, m + 1, n)) = n - m
        /\ \A i \in 1 .. n - m : SubSeq(t, m + 1, n)[i] = t[m + i]
    BY <1>2
  <1>4. /\ SubSeq(bytes, at + m + 1, at + n) \in Seq(Byte)
        /\ Len(SubSeq(bytes, at + m + 1, at + n)) = n - m
        /\ \A i \in 1 .. n - m : SubSeq(bytes, at + m + 1, at + n)[i] = bytes[at + m + i]
    BY <1>1, SMTT(30)
  <1>5. PICK d \in Seq(Byte), e \in Seq(Byte) :
            d = SubSeq(t, m + 1, n) /\ e = SubSeq(bytes, at + m + 1, at + n)
    BY <1>3, <1>4
  <1>6. \A i \in 1 .. n - m : t[m + i] = bytes[at + m + i]
    <2> SUFFICES ASSUME NEW i \in 1 .. n - m PROVE t[m + i] = bytes[at + m + i]
      OBVIOUS
    <2>1. m + i \in 1..size /\ at + (m + i) = at + m + i
      OBVIOUS
    <2> QED
      BY <1>2, <2>1
  <1> QED
    BY <1>2, <1>3, <1>4, <1>5, <1>6, SeqEqual

-----------------------------------------------------------------------------
(* The steps of a stream.                                                    *)

LEMMA MaxOfThree ==
    ASSUME NEW a \in Int, NEW b \in Int, NEW c \in Int
    PROVE  Max({a, b, c}) \in Int /\ Max({a, b, c}) >= a /\ Max({a, b, c}) >= b
  <1>1. \E x \in {a, b, c} : \A y \in {a, b, c} : x >= y
    OBVIOUS
  <1> QED
    BY <1>1 DEF Max

LEMMA MinOfTwo ==
    ASSUME NEW a \in Int, NEW b \in Int
    PROVE  Min({a, b}) = IF a <= b THEN a ELSE b
  <1>1. \E x \in {a, b} : \A y \in {a, b} : x <= y
    OBVIOUS
  <1>2. Min({a, b}) \in {a, b} /\ Min({a, b}) <= a /\ Min({a, b}) <= b
    BY <1>1 DEF Min
  <1> QED
    BY <1>2

(* The heap without the block of a stream.                                   *)
GoodNumbers(s) ==
    /\ stream[s].next \in Nat /\ stream[s].end \in Nat /\ stream[s].next <= stream[s].end
    /\ content[s] \in Seq(Byte)
    /\ stream[s].buffer = None => stream[s].end = 0
    /\ stream[s].buffer # None => stream[s].buffer \in Used

LEMMA NumbersOK ==
    ASSUME Inv, NEW s \in Streams
    PROVE  GoodNumbers(s)
  <1>1. /\ Types(heap, stream, content, slice, text) /\ GoodStream(heap, stream[s], content[s])
    BY DEF Inv, Valid, StreamsOK
  <1>2. stream[s] \in Stream /\ content[s] \in Seq(Byte)
    BY <1>1 DEF Types
  <1> QED
    BY <1>1, <1>2 DEF GoodNumbers, GoodStream, Used, Stream, Empty

LEMMA RestOK ==
    ASSUME Inv, NEW s \in Streams
    PROVE  /\ Valid(Free(heap, stream[s].buffer), [stream EXCEPT ![s] = Empty],
                    [content EXCEPT ![s] = <<>>], slice, text, None)
           /\ DOMAIN Free(heap, stream[s].buffer) = Used \ {stream[s].buffer}
           /\ Used \subseteq Blocks
  <1>1. Types(heap, stream, content, slice, text)
    BY DEF Inv, Valid
  <1>2. Used \subseteq Blocks /\ None \notin Used
    BY <1>1, StreamAssumption DEF Types, Used
  <1>3. DOMAIN Free(heap, stream[s].buffer) = Used \ {stream[s].buffer}
    BY <1>2 DEF Free, Without, Used
  <1> QED
    BY <1>2, <1>3, Freed DEF Inv

(* A stream whose block went, and which got another one in which its bytes   *)
(* are, writes a piece.                                                      *)
LEMMA PutOK ==
    ASSUME Inv, NEW s \in Streams, NEW c \in Blocks, NEW old \in Seq(Byte), NEW piece \in Seq(Byte),
           c \notin DOMAIN Free(heap, stream[s].buffer),
           stream[s].next + Len(piece) <= Len(old),
           SubSeq(old, 1, stream[s].next) = content[s],
           Put(s, Add(Free(heap, stream[s].buffer), c, [bytes |-> old, count |-> 0]),
               c, Len(old), piece),
           UNCHANGED <<slice, text>>
    PROVE  Inv'
  <1>1. PICK rest, st, co, n :
            /\ rest = Free(heap, stream[s].buffer) /\ st = [stream EXCEPT ![s] = Empty]
            /\ co = [content EXCEPT ![s] = <<>>] /\ n = stream[s].next
    OBVIOUS
  <1>2. Valid(rest, st, co, slice, text, None) /\ n \in Nat
    BY <1>1, RestOK, NumbersOK DEF GoodNumbers
  <1>3. stream \in [Streams -> Stream] /\ content \in [Streams -> Seq(Byte)]
    BY DEF Inv, Valid, Types
  <1>4. st[s].buffer = None
    BY <1>1, <1>3 DEF Empty
  <1>5. PICK new : new = Overlaid(old, n, piece)
    OBVIOUS
  <1>6. /\ new \in Seq(Byte) /\ Len(new) = Len(old)
        /\ SubSeq(new, 1, n + Len(piece)) = SubSeq(old, 1, n) \o piece
    BY <1>1, <1>2, <1>5, PieceWritten
  <1>7. PICK written \in Seq(Byte) : written = content[s] \o piece
    BY <1>3, ConcatProperties
  <1>8. n + Len(piece) \in 0..Len(new)
    BY <1>1, <1>2, <1>6, LenProperties, SMTT(30)
  <1>9. SubSeq(new, 1, n + Len(piece)) = written
    BY <1>1, <1>6, <1>7
  <1>10. PICK r : r = [buffer |-> c, next |-> n + Len(piece), end |-> Len(new)]
    OBVIOUS
  <1>11. Valid(Add(rest, c, [bytes |-> new, count |-> 0]), [st EXCEPT ![s] = r],
               [co EXCEPT ![s] = written], slice, text, None)
    <2>1. c \in Blocks \ DOMAIN rest
      BY <1>1
    <2> QED
      BY <1>2, <1>4, <1>6, <1>8, <1>9, <1>10, <2>1, Installed
  <1>12. heap' = Add(rest, c, [bytes |-> new, count |-> 0])
    <2>1. PICK h : h = Add(rest, c, [bytes |-> old, count |-> 0])
      OBVIOUS
    <2>2. heap' = [h EXCEPT ![c].bytes = new]
      <3>1. h[c].bytes = old
        BY <2>1 DEF Add
      <3>2. heap' = [h EXCEPT ![c].bytes =
                [i \in DOMAIN h[c].bytes |->
                    IF i \in n + 1 .. n + Len(piece) THEN piece[i - n] ELSE h[c].bytes[i]]]
        BY <1>1, <2>1 DEF Put
      <3> QED
        BY <1>5, <3>1, <3>2 DEF Overlaid
    <2>3. h[c] = [bytes |-> old, count |-> 0] /\ c \in DOMAIN h
      BY <2>1 DEF Add
    <2>4. [h[c] EXCEPT !.bytes = new] = [bytes |-> new, count |-> 0]
      BY <2>3
    <2>5. heap' = [h EXCEPT ![c] = [bytes |-> new, count |-> 0]]
      BY <2>2, <2>4, Zenon
    <2> QED
      BY <2>1, <2>5 DEF Add
  <1>13. stream' = [st EXCEPT ![s] = r] /\ content' = [co EXCEPT ![s] = written]
    BY <1>1, <1>3, <1>6, <1>7, <1>10 DEF Put
  <1> QED
    BY <1>11, <1>12, <1>13 DEF Inv

LEMMA WriteOK ==
    ASSUME Inv, NEW s \in Streams, NEW piece \in Seq(Byte), Write(s, piece),
           UNCHANGED <<slice, text>>
    PROVE  Inv'
  <1>1. PICK b : b = stream[s].buffer
    OBVIOUS
  <1>2. Len(piece) \in Nat /\ Len(piece) > 0 /\ stream[s].end - stream[s].next >= Len(piece)
    BY LenProperties DEF Write, Space
  <1>3. b # None /\ b \in Used /\ b \in Blocks
    <2>1. GoodNumbers(s)
      BY NumbersOK
    <2>2. b # None /\ b \in Used
      BY <1>1, <1>2, <2>1 DEF GoodNumbers
    <2>3. Used \subseteq Blocks
      BY RestOK
    <2> QED
      BY <2>2, <2>3
  <1>4. PICK old \in Seq(Byte) : /\ heap[b] = [bytes |-> old, count |-> 0]
                                 /\ Len(old) = stream[s].end
                                 /\ SubSeq(old, 1, stream[s].next) = content[s]
    <2>1. GoodStream(heap, stream[s], content[s]) /\ heap[b] \in Block
      BY <1>3 DEF Inv, Valid, StreamsOK, Types, Used
    <2> QED
      BY <1>1, <1>3, <2>1 DEF GoodStream, Block
  <1>5. PICK g : g = Free(heap, b)
    OBVIOUS
  <1>6. g = Without(heap, b) /\ b \notin DOMAIN g
    BY <1>3, <1>5 DEF Free, Without
  <1>7. heap = Add(g, b, [bytes |-> old, count |-> 0])
    <2>1. heap \in [DOMAIN heap -> Block]
      BY DEF Inv, Valid, Types
    <2> QED
      BY <1>3, <1>4, <1>6, <2>1 DEF Add, Without, Used
  <1>8. Put(s, Add(g, b, [bytes |-> old, count |-> 0]), b, Len(old), piece)
    BY <1>1, <1>4, <1>7 DEF Write
  <1>9. stream[s].next + Len(piece) <= Len(old)
    BY <1>2, <1>4, NumbersOK DEF GoodNumbers
  <1> QED
    BY <1>1, <1>3, <1>4, <1>5, <1>6, <1>8, <1>9, PutOK

LEMMA OverflowOK ==
    ASSUME Inv, NEW s \in Streams, NEW requested \in Nat, NEW piece \in Seq(Byte),
           Len(piece) <= requested, Overflow(s, requested, piece), UNCHANGED <<slice, text>>
    PROVE  Inv'
  <1>1. PICK b, end : b = stream[s].buffer /\ end = stream[s].end + Increase(s, requested)
    OBVIOUS
  <1>2. PICK c \in Targets(b) \ {None} :
            Put(s, Add(Free(heap, b), c, [bytes |-> Resized(b, end), count |-> 0]), c, end, piece)
    BY <1>1 DEF Overflow, Add
  <1>3. /\ stream[s].next \in Nat /\ stream[s].end \in Nat /\ stream[s].next <= stream[s].end
        /\ Len(piece) \in Nat
    BY NumbersOK, LenProperties DEF GoodNumbers
  <1>4. end \in Nat /\ stream[s].next + Len(piece) <= end
    <2>1. PICK i : i = Increase(s, requested)
      OBVIOUS
    <2>2. i \in Int /\ i >= requested - (stream[s].end - stream[s].next) /\ i >= stream[s].end
      <3>1. PICK a \in Int : a = requested - (stream[s].end - stream[s].next)
        BY <1>3
      <3>2. PICK e \in Int, m \in Int : e = stream[s].end /\ m = MinimumIncrease
        BY <1>3, StreamAssumption
      <3>3. i = Max({a, e, m})
        BY <2>1, <3>1, <3>2 DEF Increase, Space
      <3>4. Max({a, e, m}) \in Int /\ Max({a, e, m}) >= a /\ Max({a, e, m}) >= e
        BY MaxOfThree
      <3> QED
        BY <3>1, <3>2, <3>3, <3>4
    <2> QED
      BY <1>1, <1>3, <2>1, <2>2, SMTT(30)
  <1>5. PICK old \in Seq(Byte) : /\ old = Resized(b, end) /\ Len(old) = end
                                 /\ SubSeq(old, 1, stream[s].next) = content[s]
    <2>1. stream[s].next <= end
      BY <1>3, <1>4
    <2>2. /\ Resized(stream[s].buffer, end) \in Seq(Byte) /\ Len(Resized(stream[s].buffer, end)) = end
          /\ SubSeq(Resized(stream[s].buffer, end), 1, stream[s].next) = content[s]
      BY <1>4, <2>1, ResizedKeeps
    <2> QED
      BY <1>1, <2>2
  <1>6. c \in Blocks /\ c \notin DOMAIN Free(heap, b)
    <2>1. DOMAIN Free(heap, b) = Used \ {b} /\ Used \subseteq Blocks
      BY <1>1, RestOK
    <2>2. b = None \/ b \in Used
      BY <1>1, NumbersOK DEF GoodNumbers
    <2> QED
      BY <1>2, <2>1, <2>2 DEF Targets
  <1>7. Put(s, Add(Free(heap, b), c, [bytes |-> old, count |-> 0]), c, Len(old), piece)
    BY <1>2, <1>5
  <1> QED
    BY <1>1, <1>4, <1>5, <1>6, <1>7, PutOK

LEMMA StreamStep ==
    ASSUME Inv, StreamNext, UNCHANGED <<slice, text>>
    PROVE  Inv'
  <1>1. PICK s \in Streams :
            \/ \E piece \in Pieces :
                \/ Write(s, piece) \/ Overflow(s, Len(piece), piece)
                \/ Overflow(s, Len(piece), <<>>) \/ OverflowFails(s, Len(piece))
            \/ Clear(s) \/ DropStream(s)
            \/ \E to \in Streams : MoveStream(s, to)
    BY DEF StreamNext
  <1>2. ASSUME NEW piece \in Pieces,
               Write(s, piece) \/ Overflow(s, Len(piece), piece) \/ Overflow(s, Len(piece), <<>>)
        PROVE  Inv'
    <2>1. piece \in Seq(Byte) /\ Len(piece) \in Nat /\ <<>> \in Seq(Byte) /\ Len(<<>>) = 0
      BY StreamAssumption, LenProperties
    <2> QED
      <3>1. PICK n \in Nat, e \in Seq(Byte) : n = Len(piece) /\ e = <<>> /\ Len(e) = 0
        BY <2>1
      <3>2. Len(e) <= n /\ Len(piece) <= n
        BY <3>1
      <3>3. Write(s, piece) \/ Overflow(s, n, piece) \/ Overflow(s, n, e)
        BY <1>2, <3>1
      <3> QED
        BY <2>1, <3>2, <3>3, WriteOK, OverflowOK
  <1>3. ASSUME \/ \E piece \in Pieces : OverflowFails(s, Len(piece))
               \/ DropStream(s)
        PROVE  Inv'
    <2>1. /\ heap' = Free(heap, stream[s].buffer)
          /\ stream' = [stream EXCEPT ![s] = Empty] /\ content' = [content EXCEPT ![s] = <<>>]
      BY <1>3 DEF OverflowFails, DropStream
    <2> QED
      BY <2>1, Freed DEF Inv
  <1>4. CASE Clear(s)
    BY <1>4, Cleared DEF Inv, Clear
  <1>5. ASSUME NEW to \in Streams, MoveStream(s, to)
        PROVE  Inv'
    <2>1. PICK g, st, co : /\ g = Free(heap, stream[to].buffer)
                           /\ st = [stream EXCEPT ![to] = Empty]
                           /\ co = [content EXCEPT ![to] = <<>>]
      OBVIOUS
    <2>2. Valid(g, st, co, slice, text, None)
      BY <2>1, RestOK
    <2>3. stream \in [Streams -> Stream] /\ content \in [Streams -> Seq(Byte)]
      BY DEF Inv, Valid, Types
    <2>4. st[to].buffer = None /\ s # to
      BY <1>5, <2>1, <2>3 DEF Empty, MoveStream
    <2>5. Valid(g, [st EXCEPT ![to] = st[s], ![s] = Empty],
                [co EXCEPT ![to] = co[s], ![s] = <<>>], slice, text, None)
      BY <2>2, <2>4, StreamMoved
    <2>6. /\ heap' = g /\ stream' = [st EXCEPT ![to] = st[s], ![s] = Empty]
          /\ content' = [co EXCEPT ![to] = co[s], ![s] = <<>>]
      BY <1>5, <2>1, <2>3, <2>4 DEF MoveStream
    <2> QED
      BY <2>5, <2>6 DEF Inv
  <1> QED
    BY <1>1, <1>2, <1>3, <1>4, <1>5

-----------------------------------------------------------------------------
(* The steps of a slice.                                                     *)

LEMMA AssignOK ==
    ASSUME NEW h, NEW to \in Slices, NEW new \in Slice, NEW t \in Seq(Byte),
           Valid(h, stream', content', slice, text, new.storage), GoodPortion(h, new, t),
           Assign(to, new, t, h)
    PROVE  Inv'
  BY AssignedOK DEF Assign, Inv

(* A slice without bytes, wherever it points.                                *)
NoBytes(p) == p \in Slice /\ p.storage = None /\ p.size = 0

LEMMA EmptyOK ==
    /\ NoBytes(EmptySlice) /\ <<>> \in Seq(Byte)
    /\ \A h, p : NoBytes(p) => GoodPortion(h, p, <<>>)
  BY DEF EmptySlice, Slice, Address, GoodPortion, NoBytes

LEMMA AssignEmptyOK ==
    ASSUME Inv, NEW to \in Slices, NEW empty, NoBytes(empty),
           Assign(to, empty, <<>>, heap), UNCHANGED <<stream, content>>
    PROVE  Inv'
  BY EmptyOK, AssignOK DEF Inv, NoBytes

GoodSlice(i) ==
    /\ slice[i] \in Slice /\ text[i] \in Seq(Byte) /\ GoodPortion(heap, slice[i], text[i])
    /\ slice[i].at \in Nat /\ slice[i].size \in Nat /\ slice[i].storage \in Address
    /\ slice[i].storage # None => /\ slice[i].storage \in DOMAIN heap
                                 /\ heap[slice[i].storage].count > 0

LEMMA SliceOK ==
    ASSUME Inv, NEW i \in Slices
    PROVE  GoodSlice(i)
  <1>1. slice[i] \in Slice /\ text[i] \in Seq(Byte) /\ GoodPortion(heap, slice[i], text[i])
    BY DEF Inv, Valid, Types, SlicesOK
  <1> QED
    BY <1>1 DEF GoodSlice, GoodPortion, Slice

(* A part of the portion a slice has, with the same part of its bytes.       *)
LEMMA PartOK ==
    ASSUME Inv, NEW i \in Slices, NEW m \in Nat, NEW n \in Nat, m < n, n <= slice[i].size
    PROVE  /\ slice[i].storage # None /\ slice[i].block = slice[i].storage
           /\ Portion(slice[i].storage, slice[i].at + m, n - m) \in Slice
           /\ SubSeq(text[i], m + 1, n) \in Seq(Byte)
           /\ Len(text[i]) = slice[i].size
           /\ GoodPortion(heap, Portion(slice[i].storage, slice[i].at + m, n - m),
                          SubSeq(text[i], m + 1, n))
  <1>1. GoodSlice(i)
    BY SliceOK
  <1>2. PICK b \in Address, at \in Nat, size \in Nat, t \in Seq(Byte) :
            b = slice[i].storage /\ at = slice[i].at /\ size = slice[i].size /\ t = text[i]
    BY <1>1 DEF GoodSlice
  <1>3. b # None /\ b \in Address /\ n <= size
    BY <1>1, <1>2 DEF GoodSlice, GoodPortion
  <1>4. /\ b \in DOMAIN heap /\ heap[b].count > 0 /\ slice[i].block = b
        /\ at + size <= Len(heap[b].bytes)
        /\ SubSeq(heap[b].bytes, at + 1, at + size) = t
    BY <1>1, <1>2, <1>3 DEF GoodSlice, GoodPortion
  <1>5. PICK bytes \in Seq(Byte) : bytes = heap[b].bytes
    BY <1>4 DEF Inv, Valid, Types, Block
  <1>6. /\ Len(t) = size /\ SubSeq(t, m + 1, n) \in Seq(Byte)
        /\ SubSeq(t, m + 1, n) = SubSeq(bytes, at + m + 1, at + n)
    <2>1. at + size <= Len(bytes) /\ t = SubSeq(bytes, at + 1, at + size) /\ m <= n
      BY <1>4, <1>5
    <2> QED
      <3>1. at \in Nat /\ size \in Nat /\ bytes \in Seq(Byte) /\ n <= size
        BY <1>3
      <3>2. \A u : u = SubSeq(bytes, at + 1, at + size) =>
                /\ Len(u) = size /\ SubSeq(u, m + 1, n) \in Seq(Byte)
                /\ SubSeq(u, m + 1, n) = SubSeq(bytes, at + m + 1, at + n)
        BY <2>1, <3>1, PartOfPart
      <3> QED
        BY <2>1, <3>2, Zenon
  <1>7. PICK p : p = Portion(b, at + m, n - m)
    OBVIOUS
  <1>8. p \in Slice /\ p.storage = b /\ p.block = b /\ p.at = at + m /\ p.size = n - m
    BY <1>3, <1>7 DEF Portion, Slice
  <1>9. GoodPortion(heap, p, SubSeq(t, m + 1, n))
    <2>1. Len(bytes) \in Nat
      BY LenProperties
    <2>2. p.at + p.size = at + n /\ at + n <= Len(bytes) /\ p.size > 0
      <3>1. at + n <= at + size /\ at + size <= Len(bytes) /\ (at + m) + (n - m) = at + n /\ n - m > 0
        BY <1>3, <1>4, <1>5
      <3> QED
        BY <1>8, <2>1, <3>1
    <2> QED
      BY <1>3, <1>4, <1>5, <1>6, <1>8, <2>2 DEF GoodPortion
  <1> QED
    BY <1>2, <1>3, <1>4, <1>6, <1>7, <1>8, <1>9

(* Another slice of the same block.                                          *)
LEMMA ShareOK ==
    ASSUME Inv, NEW from \in Slices, NEW to \in Slices, NEW new \in Slice, NEW t \in Seq(Byte),
           new.storage = slice[from].storage, GoodPortion(heap, new, t),
           Assign(to, new, t, Hold(heap, slice[from].storage)), UNCHANGED <<stream, content>>
    PROVE  Inv'
  <1>1. PICK x : x = slice[from].storage
    OBVIOUS
  <1>2. x # None => x \in DOMAIN heap /\ heap[x].count > 0
    BY <1>1, SliceOK DEF GoodSlice
  <1>3. PICK h : h = Hold(heap, x)
    OBVIOUS
  <1>4. Valid(h, stream, content, slice, text, x) /\ GoodPortion(h, new, t)
    BY <1>2, <1>3, Held DEF Inv
  <1>5. Valid(h, stream', content', slice, text, new.storage) /\ Assign(to, new, t, h)
    BY <1>1, <1>3, <1>4
  <1> QED
    BY <1>4, <1>5, AssignOK

LEMMA CloneOK ==
    ASSUME Inv, NEW from \in Slices, NEW to \in Slices, Clone(from, to)
    PROVE  Inv'
  <1>1. slice[from] \in Slice /\ text[from] \in Seq(Byte) /\ GoodPortion(heap, slice[from], text[from])
    BY SliceOK DEF GoodSlice
  <1> QED
    BY <1>1, ShareOK DEF Clone

LEMMA GetSliceOK ==
    ASSUME Inv, NEW from \in Slices, NEW to \in Slices, NEW m \in Nat, NEW n \in Nat,
           GetSlice(from, to, m, n)
    PROVE  Inv'
  <1>1. CASE m = n
    <2>1. Assign(to, EmptySlice, <<>>, heap) /\ UNCHANGED <<stream, content>>
      BY <1>1 DEF GetSlice
    <2> QED
      BY <2>1, EmptyOK, AssignEmptyOK
  <1>2. CASE m # n
    <2>1. PICK new, t : /\ new = Portion(slice[from].storage, slice[from].at + m, n - m)
                        /\ t = SubSeq(text[from], m + 1, n)
      OBVIOUS
    <2>2. /\ m < n /\ n <= slice[from].size /\ UNCHANGED <<stream, content>>
          /\ Assign(to, new, t, Hold(heap, slice[from].storage))
      BY <1>2, <2>1 DEF GetSlice
    <2>3. new \in Slice /\ t \in Seq(Byte) /\ GoodPortion(heap, new, t)
      BY <2>1, <2>2, PartOK
    <2>4. new.storage = slice[from].storage
      BY <2>1 DEF Portion
    <2> QED
      BY <2>2, <2>3, <2>4, ShareOK
  <1> QED
    BY <1>1, <1>2

LEMMA MoveOK ==
    ASSUME Inv, NEW from \in Slices, NEW to \in Slices, from # to, NEW empty, NoBytes(empty),
           slice' = [slice EXCEPT ![to] = slice[from], ![from] = empty],
           text' = [text EXCEPT ![to] = text[from], ![from] = <<>>],
           heap' = Release(heap, slice[to].storage), UNCHANGED <<stream, content>>
    PROVE  Inv'
  <1>1. PICK p, t, s1, t1 : /\ p = slice[from] /\ t = text[from]
                            /\ s1 = [slice EXCEPT ![from] = empty]
                            /\ t1 = [text EXCEPT ![from] = <<>>]
    OBVIOUS
  <1>2. p \in Slice /\ t \in Seq(Byte) /\ GoodPortion(heap, p, t)
    BY <1>1, SliceOK DEF GoodSlice
  <1>3. slice \in [Slices -> Slice] /\ text \in [Slices -> Seq(Byte)]
    BY DEF Inv, Valid, Types
  <1>4. Valid(heap, stream, content, s1, t1, p.storage)
    <2>1. Valid(heap, stream, content, slice, text, empty.storage)
      BY DEF Inv, NoBytes
    <2> QED
      BY <1>1, <2>1, EmptyOK, Swapped DEF NoBytes
  <1>5. Valid(Release(heap, s1[to].storage), stream, content,
              [s1 EXCEPT ![to] = p], [t1 EXCEPT ![to] = t], None)
    BY <1>2, <1>4, AssignedOK
  <1>6. /\ s1[to] = slice[to] /\ slice' = [s1 EXCEPT ![to] = p] /\ text' = [t1 EXCEPT ![to] = t]
    <2>1. s1[to] = slice[to]
      BY <1>1, <1>3
    <2>2. slice' = [s1 EXCEPT ![to] = p]
      BY <1>1, <1>3
    <2>3. text' = [t1 EXCEPT ![to] = t]
      BY <1>1, <1>3
    <2> QED
      BY <2>1, <2>2, <2>3
  <1> QED
    BY <1>5, <1>6 DEF Inv

LEMMA LengthOK ==
    ASSUME Inv, NEW i \in Slices
    PROVE  Len(text[i]) = slice[i].size
  <1>1. PICK p, t : p = slice[i] /\ t = text[i]
    OBVIOUS
  <1>2. p.size \in Nat /\ GoodPortion(heap, p, t)
    BY <1>1, SliceOK DEF GoodSlice
  <1>3. CASE p.size = 0
    <2>1. p.storage = None
      BY <1>2, <1>3 DEF GoodPortion
    <2>2. t = <<>>
      BY <1>2, <2>1 DEF GoodPortion
    <2> QED
      BY <1>1, <1>3, <2>2
  <1>4. CASE p.size # 0
    <2>1. 0 < p.size /\ p.size \in Nat
      BY <1>2, <1>4
    <2> QED
      BY <1>1, <1>2, <2>1, PartOK
  <1> QED
    BY <1>3, <1>4

(* What remove_prefix leaves.                                                *)
LEMMA NothingLeft ==
    ASSUME NEW p \in Slice, NEW n \in Nat, n = p.size
    PROVE  /\ Removed(p, n).size = 0 /\ Removed(p, n).storage = p.storage
           /\ NoBytes([Removed(p, n) EXCEPT !.storage = None])
  <1>1. PICK at \in Nat : at = p.at + n
    BY DEF Slice
  <1>2. Removed(p, n) = [storage |-> p.storage, block |-> p.block, at |-> at, size |-> 0]
    <2>1. p.size - n = 0
      OBVIOUS
    <2>2. p = [storage |-> p.storage, block |-> p.block, at |-> p.at, size |-> p.size]
      BY DEF Slice
    <2>3. PICK q : q = [p EXCEPT !.at = at]
      OBVIOUS
    <2>4. q = [storage |-> p.storage, block |-> p.block, at |-> at, size |-> p.size]
      BY <2>2, <2>3
    <2>5. Removed(p, n) = [q EXCEPT !.size = 0]
      BY <1>1, <2>1, <2>3, Zenon DEF Removed
    <2> QED
      BY <2>4, <2>5
  <1>3. p.block \in Address
    BY DEF Slice
  <1> QED
    BY <1>2, <1>3 DEF NoBytes, Slice, Address

LEMMA RecordOf ==
    ASSUME NEW p \in Slice, p.block = p.storage, NEW at, NEW size
    PROVE  /\ [p EXCEPT !.at = at, !.size = size]
                = [storage |-> p.storage, block |-> p.storage, at |-> at, size |-> size]
           /\ [p EXCEPT !.size = size]
                = [storage |-> p.storage, block |-> p.storage, at |-> p.at, size |-> size]
  <1>1. PICK b, a, z : p = [storage |-> b, block |-> b, at |-> a, size |-> z]
    <2>1. p = [storage |-> p.storage, block |-> p.block, at |-> p.at, size |-> p.size]
      BY DEF Slice
    <2> QED
      BY <2>1
  <1>2. p.storage = b /\ p.at = a
    BY <1>1
  <1>4. [p EXCEPT !.at = at, !.size = size]
          = [storage |-> b, block |-> b, at |-> at, size |-> size]
    <2>1. PICK q : q = [p EXCEPT !.at = at]
      OBVIOUS
    <2>2. q = [storage |-> b, block |-> b, at |-> at, size |-> z]
      BY <1>1, <2>1
    <2>3. [q EXCEPT !.size = size] = [storage |-> b, block |-> b, at |-> at, size |-> size]
      BY <2>2
    <2>4. [p EXCEPT !.at = at, !.size = size] = [q EXCEPT !.size = size]
      BY <2>1, Zenon
    <2> QED
      BY <2>3, <2>4
  <1>3. [p EXCEPT !.size = size] = [storage |-> b, block |-> b, at |-> a, size |-> size]
    BY <1>1
  <1> QED
    BY <1>2, <1>3, <1>4

LEMMA SomethingLeft ==
    ASSUME Inv, NEW i \in Slices, NEW n \in Nat, n < slice[i].size,
           NEW left, left = Removed(slice[i], n),
           NEW t, t = SubSeq(text[i], n + 1, Len(text[i]))
    PROVE  /\ left.storage = slice[i].storage /\ left.size > 0 /\ left \in Slice
           /\ t \in Seq(Byte) /\ GoodPortion(heap, left, t)
  <1>1. PICK p \in Slice : p = slice[i] /\ p.size \in Nat /\ p.at \in Nat
    BY SliceOK DEF GoodSlice
  <1>2. PICK at, size : at = p.at + n /\ size = p.size - n
    OBVIOUS
  <1>3. PICK q : q = Portion(p.storage, at, size)
    OBVIOUS
  <1>4. q \in Slice /\ GoodPortion(heap, q, t) /\ t \in Seq(Byte) /\ p.block = p.storage
    <2>1. Len(text[i]) = p.size
      BY <1>1, LengthOK
    <2>2. PICK z \in Nat : z = p.size /\ n < z /\ z <= slice[i].size
      BY <1>1
    <2>3. /\ slice[i].block = slice[i].storage
          /\ Portion(slice[i].storage, slice[i].at + n, z - n) \in Slice
          /\ SubSeq(text[i], n + 1, z) \in Seq(Byte)
          /\ GoodPortion(heap, Portion(slice[i].storage, slice[i].at + n, z - n),
                         SubSeq(text[i], n + 1, z))
      BY <2>2, PartOK
    <2> QED
      BY <1>1, <1>2, <1>3, <2>1, <2>2, <2>3
  <1>5. left = q
    <2>1. left = [p EXCEPT !.at = at, !.size = size]
      BY <1>1, <1>2 DEF Removed
    <2>2. [p EXCEPT !.at = at, !.size = size]
            = [storage |-> p.storage, block |-> p.storage, at |-> at, size |-> size]
      BY <1>4, RecordOf, ZenonT(40)
    <2> QED
      BY <1>3, <2>1, <2>2 DEF Portion
  <1>6. q.size > 0 /\ q.storage = p.storage
    BY <1>1, <1>2, <1>3 DEF Portion
  <1> QED
    BY <1>1, <1>4, <1>5, <1>6

LEMMA RemovePrefixOK ==
    ASSUME Inv, NEW i \in Slices, NEW max \in Nat, RemovePrefix(i, max)
    PROVE  Inv'
  <1>1. slice[i].size \in Nat
    BY SliceOK DEF GoodSlice
  <1>2. PICK n \in Nat : n = Min({max, slice[i].size}) /\ n <= slice[i].size
    BY <1>1, MinOfTwo
  <1>3. PICK left, t : left = Removed(slice[i], n) /\ t = SubSeq(text[i], n + 1, Len(text[i]))
    OBVIOUS
  <1>4. /\ text' = [text EXCEPT ![i] = t] /\ UNCHANGED <<stream, content>>
        /\ \/ /\ left.size = 0
              /\ slice' = [slice EXCEPT ![i] = [left EXCEPT !.storage = None]]
              /\ heap' = Release(heap, left.storage)
           \/ left.size > 0 /\ slice' = [slice EXCEPT ![i] = left] /\ heap' = heap
    BY <1>2, <1>3 DEF RemovePrefix
  <1>5. CASE n = slice[i].size
    <2>1. /\ t = <<>> /\ left.size = 0 /\ NoBytes([left EXCEPT !.storage = None])
          /\ left.storage = slice[i].storage
      <3>1. Len(text[i]) = n /\ SubSeq(text[i], n + 1, n) = <<>>
        BY <1>5, LengthOK
      <3>2. slice[i] \in Slice
        BY SliceOK DEF GoodSlice
      <3> QED
        BY <1>3, <1>5, <3>1, <3>2, NothingLeft
    <2>2. Assign(i, [left EXCEPT !.storage = None], <<>>, heap)
      BY <1>4, <2>1 DEF Assign
    <2> QED
      BY <1>4, <2>1, <2>2, AssignEmptyOK
  <1>6. CASE n # slice[i].size
    <2>1. n < slice[i].size
      BY <1>1, <1>2, <1>6
    <2>2. /\ left.storage = slice[i].storage /\ left.size > 0 /\ left \in Slice
          /\ t \in Seq(Byte) /\ GoodPortion(heap, left, t)
      BY <1>3, <2>1, SomethingLeft
    <2>4. slice' = [slice EXCEPT ![i] = left] /\ heap' = heap
      BY <1>4, <2>2
    <2>5. Valid(heap, stream, content, [slice EXCEPT ![i] = left], [text EXCEPT ![i] = t], None)
      BY <2>2, Replaced DEF Inv
    <2> QED
      BY <1>4, <2>4, <2>5 DEF Inv
  <1> QED
    BY <1>5, <1>6

LEMMA TakeSliceOK ==
    ASSUME Inv, NEW from \in Slices, NEW to \in Slices, NEW max \in Nat, TakeSlice(from, to, max)
    PROVE  Inv'
  <1>1. GoodSlice(from) /\ slice[from].size \in Nat /\ from # to /\ max > 0
    BY SliceOK DEF GoodSlice, TakeSlice
  <1>2. PICK n \in Nat : /\ n = Min({max, slice[from].size}) /\ n <= slice[from].size
                         /\ n = 0 => slice[from].size = 0
    BY <1>1, MinOfTwo
  <1>3. PICK p, left, out, t, u :
            /\ p = slice[from] /\ left = Removed(p, n)
            /\ out = [p EXCEPT !.size = n]
            /\ t = SubSeq(text[from], n + 1, Len(text[from])) /\ u = SubSeq(text[from], 1, n)
    OBVIOUS
  <1>4. /\ text' = [text EXCEPT ![from] = t, ![to] = u] /\ UNCHANGED <<stream, content>>
        /\ \/ /\ left.size = 0
              /\ slice' = [slice EXCEPT ![from] = [left EXCEPT !.storage = None], ![to] = out]
              /\ heap' = Release(heap, slice[to].storage)
           \/ /\ left.size > 0 /\ slice' = [slice EXCEPT ![from] = left, ![to] = out]
              /\ heap' = Release(Hold(heap, p.storage), slice[to].storage)
    <2>1. Min({max, slice[from].size}) = n
      BY <1>2, Zenon
    <2> QED
      BY <1>3, <2>1 DEF TakeSlice
  <1>5. slice \in [Slices -> Slice] /\ text \in [Slices -> Seq(Byte)] /\ p \in Slice
    BY <1>3 DEF Inv, Valid, Types
  <1>6. CASE n = p.size
    <2>1. /\ t = <<>> /\ left.size = 0 /\ NoBytes([left EXCEPT !.storage = None])
          /\ Len(text[from]) = n
      <3>1. Len(text[from]) = n /\ SubSeq(text[from], n + 1, n) = <<>>
        BY <1>3, <1>6, LengthOK
      <3> QED
        BY <1>3, <1>5, <1>6, <3>1, NothingLeft
    <2>2. out = p
      <3>1. [p EXCEPT !.size = p.size] = p
        BY <1>5 DEF Slice
      <3> QED
        BY <1>3, <1>6, <3>1
    <2>3. u = text[from]
      <3>1. text[from] \in Seq(Byte)
        BY <1>1 DEF GoodSlice
      <3>2. PICK w \in Seq(Byte) : w = text[from] /\ Len(w) = n
        BY <2>1, <3>1
      <3>3. SubSeq(w, 1, Len(w)) = w
        <4>1. Len(w) \in Nat /\ \A k \in 1..Len(w) : w[k] \in Byte
          BY LenProperties, ElementOfSeq
        <4>2. /\ SubSeq(w, 1, Len(w)) \in Seq(Byte) /\ Len(SubSeq(w, 1, Len(w))) = Len(w)
              /\ \A k \in 1..Len(w) : SubSeq(w, 1, Len(w))[k] = w[k]
          BY <4>1
        <4>3. PICK y \in Seq(Byte) : y = SubSeq(w, 1, Len(w))
          BY <4>2
        <4> QED
          BY <4>2, <4>3, SeqEqual
      <3> QED
        BY <1>3, <3>2, <3>3
    <2>0. PICK empty : empty = [left EXCEPT !.storage = None]
      OBVIOUS
    <2>4. /\ slice' = [slice EXCEPT ![from] = empty, ![to] = p]
          /\ text' = [text EXCEPT ![from] = <<>>, ![to] = text[from]]
          /\ heap' = Release(heap, slice[to].storage)
      BY <1>4, <2>0, <2>1, <2>2, <2>3
    <2>5. slice' = [slice EXCEPT ![to] = slice[from], ![from] = empty]
      BY <1>1, <1>3, <1>5, <2>4
    <2>6. text' = [text EXCEPT ![to] = text[from], ![from] = <<>>]
      BY <1>1, <1>5, <2>4
    <2> QED
      BY <1>1, <1>4, <2>0, <2>1, <2>4, <2>5, <2>6, MoveOK
  <1>7. CASE n # p.size
    <2>1. n < slice[from].size /\ 0 < n /\ n \in Nat
      <3>1. PICK z \in Nat : z = slice[from].size
        BY <1>1
      <3> QED
        <4>1. n <= slice[from].size /\ (n = 0 => slice[from].size = 0) /\ n # slice[from].size
          BY <1>2, <1>3, <1>7, Zenon
        <4> QED
          BY <3>1, <4>1
    <2>2. /\ left.storage = p.storage /\ left.size > 0 /\ left \in Slice
          /\ t \in Seq(Byte) /\ GoodPortion(heap, left, t)
      BY <1>3, <2>1, SomethingLeft
    <2>3. /\ p.storage # None /\ p.block = p.storage /\ out \in Slice /\ u \in Seq(Byte)
          /\ GoodPortion(heap, out, u) /\ out.storage = p.storage
      <3>1. PICK q : q = Portion(p.storage, p.at + 0, n - 0)
        OBVIOUS
      <3>2. /\ p.storage # None /\ p.block = p.storage /\ q \in Slice
            /\ SubSeq(text[from], 0 + 1, n) \in Seq(Byte)
            /\ GoodPortion(heap, q, SubSeq(text[from], 0 + 1, n))
        <4>1. PICK k \in Nat : k = 0 /\ k < n /\ n <= slice[from].size
          BY <1>1, <2>1
        <4>2. /\ slice[from].storage # None /\ slice[from].block = slice[from].storage
              /\ Portion(slice[from].storage, slice[from].at + k, n - k) \in Slice
              /\ SubSeq(text[from], k + 1, n) \in Seq(Byte)
              /\ GoodPortion(heap, Portion(slice[from].storage, slice[from].at + k, n - k),
                             SubSeq(text[from], k + 1, n))
          BY <4>1, PartOK
        <4> QED
          BY <1>3, <3>1, <4>1, <4>2
      <3>3. q = [storage |-> p.storage, block |-> p.storage, at |-> p.at, size |-> n]
        BY <1>5, <2>1, <3>1 DEF Portion, Slice
      <3>4. [p EXCEPT !.size = n] = [storage |-> p.storage, block |-> p.storage, at |-> p.at, size |-> n]
        BY <1>5, <3>2, RecordOf
      <3>5. out = q /\ q.storage = p.storage
        BY <1>3, <2>1, <3>3, <3>4
      <3>6. u = SubSeq(text[from], 0 + 1, n)
        BY <1>3
      <3> QED
        BY <3>2, <3>5, <3>6
    <2>4. PICK s1, t1, h : /\ s1 = [slice EXCEPT ![from] = left]
                           /\ t1 = [text EXCEPT ![from] = t] /\ h = Hold(heap, p.storage)
      OBVIOUS
    <2>5. Valid(heap, stream, content, s1, t1, None)
      <3>1. left.storage = slice[from].storage
        BY <1>3, <2>2
      <3> QED
        BY <2>2, <2>4, <3>1, Replaced DEF Inv
    <2>6. Valid(h, stream, content, s1, t1, p.storage) /\ GoodPortion(h, out, u)
      <3>1. p.storage # None => p.storage \in DOMAIN heap /\ heap[p.storage].count > 0
        BY <1>1, <1>3 DEF GoodSlice
      <3> QED
        BY <2>3, <2>4, <2>5, <3>1, Held
    <2>7. Valid(Release(h, s1[to].storage), stream, content,
                [s1 EXCEPT ![to] = out], [t1 EXCEPT ![to] = u], None)
      BY <2>3, <2>6, AssignedOK
    <2>8. s1[to] = slice[to]
      BY <1>1, <1>5, <2>4
    <2>9. slice' = [slice EXCEPT ![from] = left, ![to] = out] /\ heap' = Release(h, slice[to].storage)
      BY <1>4, <2>2, <2>4
    <2> QED
      BY <1>4, <2>4, <2>7, <2>8, <2>9 DEF Inv
  <1> QED
    BY <1>6, <1>7

(* A slice of a new block, with all or the first of its bytes.               *)
LEMMA NewSliceOK ==
    ASSUME NEW rest, NEW st, NEW co, NEW to \in Slices, NEW c \in Blocks \ DOMAIN rest,
           NEW bytes \in Seq(Byte), Len(bytes) > 0, NEW t \in Seq(Byte), NEW n \in Nat \ {0},
           n <= Len(bytes), t = SubSeq(bytes, 1, n),
           Valid(rest, st, co, slice, text, None), stream' = st, content' = co,
           Assign(to, Portion(c, 0, n), t, Add(rest, c, [bytes |-> bytes, count |-> 1]))
    PROVE  Inv'
  <1>1. PICK h, p : h = Add(rest, c, [bytes |-> bytes, count |-> 1]) /\ p = Portion(c, 0, n)
    OBVIOUS
  <1>2. Valid(h, st, co, slice, text, c)
    BY <1>1, NewBlock
  <1>3. p \in Slice /\ p.storage = c /\ p.block = c /\ p.at = 0 /\ p.size = n
    BY <1>1 DEF Portion, Slice, Address
  <1>4. c # None
    BY StreamAssumption
  <1>5. GoodPortion(h, p, t)
    <2>1. c \in DOMAIN h /\ h[c].count = 1 /\ h[c].bytes = bytes
      BY <1>1 DEF Add
    <2>2. SubSeq(bytes, p.at + 1, p.at + p.size) = t /\ p.at + p.size <= Len(bytes) /\ p.size > 0
      BY <1>3
    <2> QED
      BY <1>3, <1>4, <2>1, <2>2 DEF GoodPortion
  <1>6. Valid(h, stream', content', slice, text, p.storage) /\ Assign(to, p, t, h)
    BY <1>1, <1>2, <1>3
  <1> QED
    BY <1>3, <1>5, <1>6, AssignOK

LEMMA FromSpansOK ==
    ASSUME Inv, NEW to \in Slices, NEW q \in Seq(Byte), NEW r \in Seq(Byte), FromSpans(to, q, r)
    PROVE  Inv'
  <1>1. PICK bytes \in Seq(Byte) : bytes = q \o r
    BY ConcatProperties
  <1>2. UNCHANGED <<stream, content>>
    BY DEF FromSpans
  <1>3. CASE bytes = <<>>
    <2>1. Assign(to, EmptySlice, <<>>, heap)
      BY <1>1, <1>3 DEF FromSpans
    <2> QED
      BY <1>2, <2>1, EmptyOK, AssignEmptyOK
  <1>4. CASE bytes # <<>>
    <2>1. PICK b \in Blocks \ Used :
              Assign(to, Portion(b, 0, Len(bytes)), bytes,
                     Add(heap, b, [bytes |-> bytes, count |-> 1]))
      BY <1>1, <1>4 DEF FromSpans, With, Add, Used
    <2>2. PICK n \in Nat \ {0} : n = Len(bytes)
      BY <1>4, LenProperties, EmptySeq
    <2>3. bytes = SubSeq(bytes, 1, n)
      <3>1. \A k \in 1..n : bytes[k] \in Byte
        BY <2>2, ElementOfSeq
      <3>2. /\ SubSeq(bytes, 1, n) \in Seq(Byte) /\ Len(SubSeq(bytes, 1, n)) = n
            /\ \A k \in 1..n : SubSeq(bytes, 1, n)[k] = bytes[k]
        BY <2>2
      <3>3. PICK y \in Seq(Byte) : y = SubSeq(bytes, 1, n)
        BY <3>2
      <3> QED
        BY <2>2, <3>2, <3>3, SeqEqual
    <2>4. n <= Len(bytes) /\ Len(bytes) > 0 /\ b \in Blocks \ DOMAIN heap
      BY <2>2 DEF Used
    <2>5. Assign(to, Portion(b, 0, n), bytes, Add(heap, b, [bytes |-> bytes, count |-> 1]))
      BY <2>1, <2>2
    <2>6. Valid(heap, stream, content, slice, text, None) /\ stream' = stream /\ content' = content
      BY <1>2 DEF Inv
    <2> QED
      BY <2>3, <2>4, <2>5, <2>6, NewSliceOK
  <1> QED
    BY <1>3, <1>4

LEMMA FromStreamOK ==
    ASSUME Inv, NEW to \in Slices, NEW s \in Streams, NEW shrink \in BOOLEAN,
           FromStream(to, s, shrink)
    PROVE  Inv'
  <1>1. PICK b, st, co, rest, t :
            /\ b = stream[s].buffer /\ st = [stream EXCEPT ![s] = Empty] /\ t = content[s]
            /\ co = [content EXCEPT ![s] = <<>>] /\ rest = Free(heap, b)
    OBVIOUS
  <1>2. PICK n \in Nat \ {0}, end \in Nat :
            n = stream[s].next /\ end = stream[s].end /\ n <= end /\ t \in Seq(Byte)
    <2>1. GoodNumbers(s) /\ stream[s].next > 0
      BY NumbersOK DEF FromStream, Size
    <2> QED
      BY <1>1, <2>1 DEF GoodNumbers
  <1>3. b # None /\ b \in Used /\ Used \subseteq Blocks
    <2>1. GoodNumbers(s) /\ Used \subseteq Blocks
      BY NumbersOK, RestOK
    <2> QED
      BY <1>1, <1>2, <2>1 DEF GoodNumbers
  <1>4. rest = Without(heap, b) /\ DOMAIN rest = Used \ {b}
    BY <1>1, <1>3 DEF Free, Without, Used
  <1>5. Valid(rest, st, co, slice, text, None) /\ stream' = st /\ content' = co
    BY <1>1, RestOK DEF FromStream
  <1>6. CASE shrink /\ PageSize <= Space(s)
    <2>1. PICK c \in Targets(b) :
              Assign(to, Portion(c, 0, n), t, Add(rest, c, [bytes |-> Resized(b, n), count |-> 1]))
      BY <1>1, <1>2, <1>4, <1>6 DEF FromStream, Add, Size
    <2>2. c \in Blocks \ DOMAIN rest
      BY <1>3, <1>4 DEF Targets
    <2>3. PICK bytes \in Seq(Byte) : /\ bytes = Resized(b, n) /\ Len(bytes) = n
                                    /\ SubSeq(bytes, 1, n) = t
      <3>1. n \in Nat /\ stream[s].next <= n
        BY <1>2
      <3>2. /\ Resized(stream[s].buffer, n) \in Seq(Byte) /\ Len(Resized(stream[s].buffer, n)) = n
            /\ SubSeq(Resized(stream[s].buffer, n), 1, stream[s].next) = content[s]
        BY <3>1, ResizedKeeps
      <3> QED
        BY <1>1, <1>2, <3>2
    <2>4. Len(bytes) > 0 /\ n <= Len(bytes)
      BY <2>3
    <2>5. Assign(to, Portion(c, 0, n), t, Add(rest, c, [bytes |-> bytes, count |-> 1]))
      BY <2>1, <2>3
    <2>6. t = SubSeq(bytes, 1, n) /\ t \in Seq(Byte)
      BY <1>2, <2>3
    <2> QED
      BY <1>5, <2>2, <2>4, <2>5, <2>6, NewSliceOK
  <1>7. CASE ~(shrink /\ PageSize <= Space(s))
    <2>1. Assign(to, Portion(b, 0, n), t, [heap EXCEPT ![b].count = 1])
      BY <1>1, <1>2, <1>7 DEF FromStream, Size
    <2>2. PICK bytes \in Seq(Byte) : /\ heap[b].bytes = bytes /\ Len(bytes) = end
                                    /\ SubSeq(bytes, 1, n) = t
      <3>1. GoodStream(heap, stream[s], content[s]) /\ heap[b] \in Block
        BY <1>3 DEF Inv, Valid, StreamsOK, Types, Used
      <3> QED
        BY <1>1, <1>2, <1>3, <3>1 DEF GoodStream, Block
    <2>3. [heap EXCEPT ![b].count = 1] = Add(rest, b, [bytes |-> bytes, count |-> 1])
      <3>1. heap \in [DOMAIN heap -> Block] /\ b \in DOMAIN heap
        BY <1>3 DEF Inv, Valid, Types, Used
      <3>2. PICK one \in Nat : one = 1
        OBVIOUS
      <3>3. [heap EXCEPT ![b].count = one] = Recount(heap, b, one)
        BY <3>1, RecountIs
      <3>4. Recount(heap, b, one) = Add(rest, b, [bytes |-> bytes, count |-> one])
        BY <1>4, <2>2, <3>1 DEF Recount, Add, Without
      <3> QED
        BY <3>2, <3>3, <3>4
    <2>4. b \in Blocks \ DOMAIN rest
      BY <1>3, <1>4
    <2>5. Len(bytes) > 0 /\ n <= Len(bytes)
      BY <1>2, <2>2
    <2>6. Assign(to, Portion(b, 0, n), t, Add(rest, b, [bytes |-> bytes, count |-> 1]))
      BY <2>1, <2>3
    <2>7. t = SubSeq(bytes, 1, n) /\ t \in Seq(Byte)
      BY <1>2, <2>2
    <2> QED
      BY <1>5, <2>4, <2>5, <2>6, <2>7, NewSliceOK
  <1> QED
    BY <1>6, <1>7

LEMMA SliceStep ==
    ASSUME Inv, SliceNext
    PROVE  Inv'
  <1>1. ASSUME NEW s \in Streams, FromStreamFails(s)
        PROVE  Inv'
    <2>1. /\ heap' = Free(heap, stream[s].buffer) /\ UNCHANGED <<slice, text>>
          /\ stream' = [stream EXCEPT ![s] = Empty] /\ content' = [content EXCEPT ![s] = <<>>]
      BY <1>1 DEF FromStreamFails
    <2> QED
      BY <2>1, RestOK DEF Inv
  <1>2. ASSUME NEW to \in Slices, Drop(to) \/ \E s \in Streams : FromEmptyStream(to, s)
        PROVE  Inv'
    BY <1>2, EmptyOK, AssignEmptyOK DEF Drop, FromEmptyStream
  <1>3. ASSUME NEW to \in Slices, NEW n \in 0 .. slice[to].size + 1, RemovePrefix(to, n)
        PROVE  Inv'
    <2>1. n \in Nat
      BY SliceOK DEF GoodSlice
    <2> QED
      BY <1>3, <2>1, RemovePrefixOK
  <1>4. ASSUME NEW to \in Slices, NEW p \in Pieces \union {<<>>}, NEW q \in Pieces \union {<<>>},
               FromSpans(to, p, q)
        PROVE  Inv'
    <2>1. p \in Seq(Byte) /\ q \in Seq(Byte)
      <3>1. Pieces \subseteq Seq(Byte) /\ <<>> \in Seq(Byte)
        BY StreamAssumption
      <3> HIDE DEF Byte
      <3> QED
        BY <3>1
    <2> QED
      BY <1>4, <2>1, FromSpansOK
  <1>5. ASSUME NEW to \in Slices, NEW s \in Streams, NEW shrink \in BOOLEAN, FromStream(to, s, shrink)
        PROVE  Inv'
    BY <1>5, FromStreamOK
  <1>6. ASSUME NEW from \in Slices, NEW to \in Slices, Clone(from, to)
        PROVE  Inv'
    BY <1>6, CloneOK
  <1>7. ASSUME NEW from \in Slices, NEW to \in Slices, Move(from, to)
        PROVE  Inv'
    BY <1>7, EmptyOK, MoveOK DEF Move
  <1>8. ASSUME NEW from \in Slices, NEW to \in Slices,
               NEW n \in 0 .. slice[from].size + 1, TakeSlice(from, to, n)
        PROVE  Inv'
    <2>1. n \in Nat
      BY SliceOK DEF GoodSlice
    <2> QED
      BY <1>8, <2>1, TakeSliceOK
  <1>9. ASSUME NEW from \in Slices, NEW to \in Slices, NEW m \in 0 .. slice[from].size,
               NEW n \in 0 .. slice[from].size, GetSlice(from, to, m, n)
        PROVE  Inv'
    <2>1. m \in Nat /\ n \in Nat
      BY SliceOK DEF GoodSlice
    <2> QED
      BY <1>9, <2>1, GetSliceOK
  <1> QED
    BY <1>1, <1>2, <1>3, <1>4, <1>5, <1>6, <1>7, <1>8, <1>9 DEF SliceNext

LEMMA InvInit == Init => Inv
  <1> SUFFICES ASSUME Init PROVE Inv
    OBVIOUS
  <1>1. Types(heap, stream, content, slice, text)
    <2>1. heap \in [DOMAIN heap -> Block] /\ DOMAIN heap = {}
      BY DEF Init, StreamInit
    <2>2. Empty \in Stream /\ EmptySlice \in Slice
      BY DEF Empty, Stream, EmptySlice, Slice, Address
    <2> QED
      BY <2>1, <2>2 DEF Init, StreamInit, Types
  <1>2. StreamsOK(heap, stream, content)
    BY DEF Init, StreamInit, StreamsOK, GoodStream, Empty
  <1>3. SlicesOK(heap, slice, text, None)
    BY DEF Init, StreamInit, SlicesOK, GoodPortion, EmptySlice
  <1> QED
    BY <1>1, <1>2, <1>3 DEF Inv, Valid

LEMMA InvStep == Inv /\ [Next]_vars => Inv'
  <1>1. CASE UNCHANGED vars
    BY <1>1 DEF Inv, vars
  <1> QED
    BY <1>1, StreamStep, SliceStep DEF Next

LEMMA InvCorrect == Spec => []Inv
  BY InvInit, InvStep, PTL DEF Spec

-----------------------------------------------------------------------------

(* Every block in use has exactly as many owners as it counts, one stream or *)
(* the slices with bytes in it, for any slices and streams and whatever is   *)
(* done with them in whatever order: nothing leaks, nothing is freed twice.  *)
THEOREM CountedCorrect == Spec => []Counted
  <1>1. ASSUME Inv PROVE Counted
    <2>1. ASSUME NEW i \in Slices
          PROVE  slice[i].storage # None <=> slice[i].size > 0
      BY <1>1, SliceOK DEF GoodSlice, GoodPortion
    <2>2. ASSUME NEW b \in Used
          PROVE  /\ heap[b].count = Holders(b)
                 /\ Cardinality(Writers(b)) = IF Holders(b) > 0 THEN 0 ELSE 1
      <3>1. b \in DOMAIN heap /\ b # None /\ Holders(b) \in Nat
        <4>1. b \in DOMAIN heap /\ Used \subseteq Blocks
          BY <1>1 DEF Inv, Valid, Types, Used
        <4>2. Holders(b) = HoldersOf(slice, b)
          BY DEF Holders, HoldersOf
        <4> QED
          BY <4>1, <4>2, HoldersNat, StreamAssumption
      <3>2. heap[b].count = Holders(b)
        <4>1. heap[b].count = HoldersOf(slice, b) + One(None, b)
          BY <1>1, <3>1 DEF Inv, Valid, SlicesOK
        <4>2. HoldersOf(slice, b) = Holders(b)
          BY DEF Holders, HoldersOf
        <4> QED
          BY <3>1, <4>1, <4>2 DEF One
      <3>3. CASE Holders(b) > 0
        <4>1. \A s \in Streams : stream[s].buffer # b
          BY <1>1, <3>1, <3>2, <3>3 DEF Inv, Valid, StreamsOK, GoodStream
        <4>2. Writers(b) = {}
          BY <4>1 DEF Writers
        <4> QED
          BY <3>2, <3>3, <4>2, FS_EmptySet
      <3>4. CASE ~(Holders(b) > 0)
        <4>1. heap[b].count = 0
          BY <3>1, <3>2, <3>4
        <4>2. PICK s \in Streams : stream[s].buffer = b
          BY <1>1, <3>1, <4>1 DEF Inv, Valid, StreamsOK
        <4>3. \A r \in Streams : stream[r].buffer = b => r = s
          BY <1>1, <3>1, <4>2 DEF Inv, Valid, StreamsOK
        <4>4. Writers(b) = {s}
          BY <4>2, <4>3 DEF Writers
        <4>5. Cardinality({s}) = 1
          BY FS_Singleton
        <4> QED
          BY <3>2, <3>4, <4>4, <4>5
      <3> QED
        BY <3>3, <3>4
    <2> QED
      BY <2>1, <2>2 DEF Counted
  <1> QED
    BY <1>1, InvCorrect, PTL

(* The bytes of a slice stay those it was made of, whatever becomes of the   *)
(* slices and streams that had or have the same block.                       *)
THEOREM ImmutableCorrect == Spec => []Immutable
  <1>1. ASSUME Inv PROVE Immutable
    BY <1>1, SliceOK, SMTT(30) DEF GoodSlice, GoodPortion, Immutable
  <1> QED
    BY <1>1, InvCorrect, PTL

(* A stream has what was written to it, inside a buffer of the capacity it   *)
(* believes it has, also after a failure.                                    *)
THEOREM StreamCorrect == Spec => []StreamHolds
  <1>1. ASSUME Inv PROVE StreamHolds
    BY <1>1 DEF Inv, Valid, StreamsOK, GoodStream, Empty, StreamHolds
  <1> QED
    BY <1>1, InvCorrect, PTL

=============================================================================

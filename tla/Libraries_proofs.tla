-------------------------- MODULE Libraries_proofs --------------------------
(* The libraries below the session.  The codec: a reader keeps to its bytes  *)
(* and an object to its parent, whatever arrives, and a number is read as it *)
(* was written.  expect: every object destroys exactly the value it has, for *)
(* any number of objects and any T and errors; and the objects implement a   *)
(* set of results.                                                           *)
EXTENDS Wire, Expect, FiniteSetTheorems, SequenceTheorems, WellFoundedInduction, TLAPS

(* Numbers.  What the fold of the library does is known from its definition  *)
(* only: a function on the subsets of a set, given by recursion.             *)
LEMMA LeastNumber ==
    ASSUME NEW T, T \subseteq Nat, T # {}
    PROVE  \E x \in T : \A y \in T : x <= y
<1>1. PICK R : R = OpToRel(<, Nat)
  OBVIOUS
<1>2. IsWellFoundedOn(R, Nat)
  BY <1>1, NatLessThanWellFounded
<1>3. PICK x \in T : \A y \in T : ~ (<<y, x>> \in R)
  BY <1>2, WFMin
<1>4. \A y \in T : x <= y
  <2> SUFFICES ASSUME NEW y \in T PROVE x <= y
    OBVIOUS
  <2>1. x \in Nat /\ y \in Nat
    OBVIOUS
  <2>2. y < x => <<y, x>> \in R
    BY <1>1, <2>1 DEF OpToRel
  <2> QED
    BY <1>3, <2>1, <2>2
<1> QED
  BY <1>4

LEMMA NumbersTo ==
    ASSUME NEW n \in Nat, NEW s \in SUBSET (1 .. n)
    PROVE  /\ Cardinality(s) \in 0 .. n
           /\ Cardinality(s) = 0 => s = {}
           /\ \A x \in s : Cardinality(s \ {x}) = Cardinality(s) - 1
<1>1. IsFiniteSet(1 .. n) /\ Cardinality(1 .. n) = n
  BY FS_Interval
<1>2. IsFiniteSet(s) /\ Cardinality(s) <= n
  BY <1>1, FS_Subset
<1>3. Cardinality(s) \in Nat
  BY <1>2, FS_CardinalityType
<1>4. Cardinality(s) = 0 => s = {}
  BY <1>2, FS_EmptySet
<1>5. \A x \in s : Cardinality(s \ {x}) = Cardinality(s) - 1
  BY <1>2, FS_RemoveElement
<1> QED
  BY <1>2, <1>3, <1>4, <1>5

(* The sums over the sets of the first n numbers; they exist.                *)
SumsOverSets(n, p, g) ==
    g = [s \in SUBSET (1 .. n) |->
            IF s = {} THEN 0
            ELSE p[CHOOSE x \in s : TRUE] + g[s \ {CHOOSE x \in s : TRUE}]]

LEMMA SumExists ==
    ASSUME NEW n \in Nat, NEW p \in [1 .. n -> Nat]
    PROVE  \E g \in [SUBSET (1 .. n) -> Nat] : SumsOverSets(n, p, g)
<1> DEFINE All == SUBSET (1 .. n)
           First(s) == CHOOSE x \in s : TRUE
           Sum(g, s) == IF s = {} THEN 0 ELSE p[First(s)] + g[s \ {First(s)}]
           UpTo(g, k) == \A s \in All : Cardinality(s) <= k => g[s] = Sum(g, s)
<1>1. \A s \in All : s # {} => First(s) \in s /\ First(s) \in 1 .. n /\ s \ {First(s)} \in All
  OBVIOUS
<1> HIDE DEF First
<1>5. ASSUME NEW s \in All
      PROVE  /\ Cardinality(s) \in 0 .. n
             /\ Cardinality(s) = 0 => s = {}
             /\ s # {} => Cardinality(s \ {First(s)}) = Cardinality(s) - 1
  BY <1>1, NumbersTo
<1>2. ASSUME NEW k \in Nat, NEW g \in [All -> Nat], UpTo(g, k)
      PROVE  \E h \in [All -> Nat] : UpTo(h, k + 1)
  <2> DEFINE h == [s \in All |-> Sum(g, s)]
  <2>1. h \in [All -> Nat]
    <3> SUFFICES ASSUME NEW s \in All PROVE Sum(g, s) \in Nat
      OBVIOUS
    <3>1. s # {} => p[First(s)] \in Nat /\ g[s \ {First(s)}] \in Nat
      BY <1>1, <1>2
    <3> QED
      BY <3>1
  <2>2. ASSUME NEW s \in All, Cardinality(s) <= k PROVE h[s] = g[s]
    BY <1>2, <2>2
  <2>3. UpTo(h, k + 1)
    <3> SUFFICES ASSUME NEW s \in All, Cardinality(s) <= k + 1, s # {}
                 PROVE  h[s] = Sum(h, s)
      OBVIOUS
    <3>1. s \ {First(s)} \in All /\ Cardinality(s \ {First(s)}) <= k
      BY <1>1, <1>2, <1>5
    <3>2. h[s \ {First(s)}] = g[s \ {First(s)}]
      BY <2>2, <3>1
    <3> QED
      BY <3>2
  <2> QED
    BY <2>1, <2>3
<1>3. \E h \in [All -> Nat] : UpTo(h, n)
  <2> DEFINE Lacking == {k \in Nat : ~ \E h \in [All -> Nat] : UpTo(h, k)}
  <2>1. 0 \notin Lacking
    <3> DEFINE h == [s \in All |-> 0]
    <3>1. h \in [All -> Nat]
      OBVIOUS
    <3>2. ASSUME NEW s \in All, Cardinality(s) <= 0 PROVE h[s] = Sum(h, s)
      <4>1. Cardinality(s) \in 0 .. n /\ (Cardinality(s) = 0 => s = {})
        BY <1>5
      <4>2. Cardinality(s) = 0
        BY <3>2, <4>1
      <4> QED
        BY <4>1, <4>2
    <3> QED
      BY <3>1, <3>2
  <2>2. ASSUME NEW k \in Nat, k \notin Lacking PROVE k + 1 \notin Lacking
    BY <1>2, <2>2
  <2>3. Lacking = {}
    <3> SUFFICES ASSUME Lacking # {} PROVE FALSE
      OBVIOUS
    <3>1. Lacking \subseteq Nat
      OBVIOUS
    <3> HIDE DEF Lacking
    <3>2. PICK x \in Lacking : \A y \in Lacking : x <= y
      BY <3>1, LeastNumber
    <3>3. x \in Nat /\ x # 0
      BY <2>1, <3>1
    <3>4. x - 1 \in Nat /\ x - 1 \notin Lacking
      BY <3>1, <3>2, <3>3
    <3>5. (x - 1) + 1 \notin Lacking
      BY <2>2, <3>4
    <3> QED
      BY <3>3, <3>5
  <2> QED
    BY <2>3
<1>4. PICK h \in [All -> Nat] : UpTo(h, n)
  BY <1>3
<1>6. ASSUME NEW s \in All PROVE h[s] = Sum(h, s)
  <2>1. Cardinality(s) \in 0 .. n
    BY <1>5
  <2>2. Cardinality(s) <= n
    BY <2>1
  <2> QED
    BY <1>4, <2>2
<1>7. h = [s \in All |-> Sum(h, s)]
  BY <1>6
<1> QED
  BY <1>7 DEF First, SumsOverSets

(* The order in which the numbers are added does not matter: the sum of the  *)
(* first k grows by the k-th.                                                *)
SumsUp(n, p, sums) ==
    /\ sums \in [0 .. n -> Nat] /\ sums[0] = 0
    /\ \A k \in 1 .. n : sums[k] = sums[k - 1] + p[k]

LEMMA SumSteps ==
    ASSUME NEW n \in Nat, NEW p \in [1 .. n -> Nat], NEW g, SumsOverSets(n, p, g)
    PROVE  \E sums : SumsUp(n, p, sums) /\ sums[n] = g[1 .. n]
<1> DEFINE All == SUBSET (1 .. n)
           First(s) == CHOOSE x \in s : TRUE
           Sizes == {k \in Nat : \E s \in All : Cardinality(s) = k /\ g[s] \notin Nat}
           AnyFirst(s) == \A x \in s : g[s] = p[x] + g[s \ {x}]
           Odd == {k \in Nat : \E s \in All : Cardinality(s) = k /\ ~AnyFirst(s)}
<1>1. \A s \in All : g[s] = IF s = {} THEN 0 ELSE p[First(s)] + g[s \ {First(s)}]
  BY DEF SumsOverSets
<1>2. \A s \in All : Cardinality(s) \in Nat
  BY NumbersTo
<1>3. \A s \in All : s # {} => First(s) \in s /\ First(s) \in 1 .. n /\ s \ {First(s)} \in All
  OBVIOUS
<1> HIDE DEF First
<1>4. \A s \in All : \A x \in s : Cardinality(s \ {x}) = Cardinality(s) - 1
  BY NumbersTo
<1>5. Sizes = {}
  <2> SUFFICES ASSUME Sizes # {} PROVE FALSE
    OBVIOUS
  <2>1. Sizes \subseteq Nat
    OBVIOUS
  <2>2. PICK k \in Sizes : \A j \in Sizes : k <= j
    <3> HIDE DEF Sizes
    <3> QED
      BY <2>1, LeastNumber
  <2>3. PICK s \in All : Cardinality(s) = k /\ g[s] \notin Nat
    OBVIOUS
  <2>4. s # {} /\ g[s] = p[First(s)] + g[s \ {First(s)}]
    <3>1. s = {} => g[s] = 0
      BY <1>1
    <3>2. s # {}
      BY <2>3, <3>1
    <3> QED
      BY <1>1, <3>2
  <2>5. p[First(s)] \in Nat
    BY <1>3, <2>4
  <2>6. g[s \ {First(s)}] \notin Nat
    <3> DEFINE a == p[First(s)]
               b == g[s \ {First(s)}]
    <3>1. a \in Nat /\ a + b \notin Nat
      BY <2>3, <2>4, <2>5
    <3> HIDE DEF a, b
    <3>2. b \notin Nat
      BY <3>1
    <3> QED
      BY <3>2 DEF b
  <2>7. s \ {First(s)} \in All /\ Cardinality(s \ {First(s)}) = k - 1
    BY <1>3, <1>4, <2>3, <2>4
  <2>8. k - 1 \in Sizes
    BY <1>2, <2>6, <2>7
  <2>9. k \in Nat /\ k <= k - 1
    BY <2>1, <2>2, <2>8
  <2> QED
    BY <2>9
<1>6. \A s \in All : g[s] \in Nat
  BY <1>2, <1>5
<1>7. Odd = {}
  <2> SUFFICES ASSUME Odd # {} PROVE FALSE
    OBVIOUS
  <2>1. Odd \subseteq Nat
    OBVIOUS
  <2>2. PICK k \in Odd : \A j \in Odd : k <= j
    <3> HIDE DEF Odd
    <3> QED
      BY <2>1, LeastNumber
  <2>3. PICK s \in All : Cardinality(s) = k /\ ~AnyFirst(s)
    OBVIOUS
  <2>4. PICK x \in s : g[s] # p[x] + g[s \ {x}]
    BY <2>3
  <2> DEFINE y == First(s)
             both == (s \ {x}) \ {y}
  <2>5. y \in s /\ y \in 1 .. n /\ x \in 1 .. n /\ g[s] = p[y] + g[s \ {y}]
    BY <1>1, <1>3, <2>4
  <2> HIDE DEF y
  <2>6. x # y
    BY <2>4, <2>5
  <2>7. ASSUME NEW z \in s PROVE s \ {z} \in All /\ AnyFirst(s \ {z})
    <3>1. s \ {z} \in All /\ Cardinality(s \ {z}) = k - 1
      BY <1>4, <2>3
    <3>2. k \in Nat /\ k - 1 \notin Odd
      <4> HIDE DEF Odd
      <4> QED
        BY <2>1, <2>2
    <3>3. k - 1 \in Nat
      BY <1>2, <3>1
    <3> HIDE DEF AnyFirst, All
    <3> QED
      BY <3>1, <3>2, <3>3
  <2>8. (s \ {y}) \ {x} = both /\ both \in All
    OBVIOUS
  <2>9. g[s \ {x}] = p[y] + g[both]
    <3>1. y \in s \ {x}
      BY <2>5, <2>6
    <3> QED
      BY <2>7, <3>1
  <2>10. g[s \ {y}] = p[x] + g[both]
    <3>1. x \in s \ {y}
      BY <2>6
    <3>2. AnyFirst(s \ {y})
      BY <2>5, <2>7
    <3>3. g[s \ {y}] = p[x] + g[(s \ {y}) \ {x}]
      BY <3>1, <3>2
    <3> QED
      BY <2>8, <3>3
  <2>11. p[x] \in Nat /\ p[y] \in Nat /\ g[both] \in Nat
    BY <1>6, <2>5, <2>8
  <2>12. p[y] + (p[x] + g[both]) = p[x] + (p[y] + g[both])
    <3> DEFINE a == p[x]
               b == p[y]
               c == g[both]
    <3>1. a \in Nat /\ b \in Nat /\ c \in Nat
      BY <2>11
    <3> HIDE DEF a, b, c
    <3>2. b + (a + c) = a + (b + c)
      BY <3>1
    <3> QED
      BY <3>2 DEF a, b, c
  <2> HIDE DEF both
  <2> QED
    BY <2>4, <2>5, <2>9, <2>10, <2>12
<1> DEFINE To(k) == g[1 .. k]
           sums == [k \in 0 .. n |-> To(k)]
<1>8. \A k \in 0 .. n : 1 .. k \in All
  OBVIOUS
<1> HIDE DEF All
<1>9. sums \in [0 .. n -> Nat] /\ sums[n] = g[1 .. n]
  <2>1. \A k \in 0 .. n : To(k) \in Nat
    BY <1>6, <1>8
  <2>2. To(n) = g[1 .. n] /\ n \in 0 .. n
    OBVIOUS
  <2> HIDE DEF To
  <2>3. sums \in [0 .. n -> Nat]
    BY <2>1
  <2>4. sums[n] = To(n)
    BY <2>2
  <2> QED
    BY <2>2, <2>3, <2>4
<1>10. sums[0] = 0
  <2>1. 1 .. 0 = {} /\ 0 \in 0 .. n
    OBVIOUS
  <2>2. 1 .. 0 \in All
    BY <1>8, <2>1
  <2>3. g[1 .. 0] = 0
    BY <1>1, <2>1, <2>2
  <2> QED
    BY <2>1, <2>3
<1>11. ASSUME NEW k \in 1 .. n PROVE sums[k] = sums[k - 1] + p[k]
  <2>1. 1 .. k \in All /\ Cardinality(1 .. k) \in Nat
    BY <1>2, <1>8
  <2>2. AnyFirst(1 .. k)
    <3> HIDE DEF AnyFirst
    <3> QED
      BY <1>7, <2>1
  <2>3. k \in 1 .. k /\ (1 .. k) \ {k} = 1 .. (k - 1) /\ k - 1 \in 0 .. n
    OBVIOUS
  <2>4. g[1 .. k] = p[k] + g[1 .. (k - 1)]
    BY <2>2, <2>3
  <2>5. p[k] \in Nat /\ g[1 .. (k - 1)] \in Nat
    BY <1>6, <1>8, <2>3
  <2>6. To(k) = To(k - 1) + p[k] /\ k \in 0 .. n
    <3> DEFINE a == p[k]
               b == g[1 .. (k - 1)]
    <3>1. a \in Nat /\ b \in Nat /\ To(k) = a + b
      BY <2>4, <2>5
    <3> HIDE DEF a, b
    <3>2. a + b = b + a
      BY <3>1
    <3> QED
      BY <3>1, <3>2 DEF a, b
  <2> HIDE DEF To
  <2> QED
    BY <2>3, <2>6
<1> HIDE DEF sums
<1> QED
  BY <1>9, <1>10, <1>11 DEF SumsUp

(* The value of the bytes of an integer, the way Uvarint adds it up.         *)
Value(bytes, last) ==
    MapThenSumSet(LAMBDA i : Low(bytes[i]) * 2 ^ ((i - 1) * Group), 1 .. last)

LEMMA ValueSteps ==
    ASSUME NEW bytes, NEW last \in Nat,
           \A i \in 1 .. last : Low(bytes[i]) * 2 ^ ((i - 1) * Group) \in Nat
    PROVE  \E sums \in [0 .. last -> Nat] :
                /\ sums[0] = 0 /\ sums[last] = Value(bytes, last)
                /\ \A k \in 1 .. last :
                        sums[k] = sums[k - 1] + Low(bytes[k]) * 2 ^ ((k - 1) * Group)
<1> DEFINE Part(i) == Low(bytes[i]) * 2 ^ ((i - 1) * Group)
           p == [i \in 1 .. last |-> Part(i)]
           IsSum(g) ==
               g = [s \in SUBSET (1 .. last) |->
                       IF s = {} THEN 0
                       ELSE Part(CHOOSE x \in s : TRUE) + g[s \ {CHOOSE x \in s : TRUE}]]
           sum == CHOOSE g : IsSum(g)
<1>1. p \in [1 .. last -> Nat]
  OBVIOUS
<1>2. \A g : IsSum(g) <=> SumsOverSets(last, p, g)
  <2>1. \A s \in SUBSET (1 .. last) : s # {} =>
            Part(CHOOSE x \in s : TRUE) = p[CHOOSE x \in s : TRUE]
    <3> SUFFICES ASSUME NEW s \in SUBSET (1 .. last), s # {}
                 PROVE  Part(CHOOSE x \in s : TRUE) = p[CHOOSE x \in s : TRUE]
      OBVIOUS
    <3> DEFINE first == CHOOSE x \in s : TRUE
    <3>1. first \in 1 .. last
      OBVIOUS
    <3> HIDE DEF first
    <3>2. Part(first) = p[first]
      BY <3>1
    <3> QED
      BY <3>2 DEF first
  <2> HIDE DEF Part, p
  <2> QED
    BY <2>1 DEF SumsOverSets
<1> HIDE DEF Part, p, IsSum
<1>3. \E g : IsSum(g)
  BY <1>1, <1>2, SumExists
<1>4. SumsOverSets(last, p, sum)
  BY <1>2, <1>3
<1> HIDE DEF sum
<1>5. PICK sums : SumsUp(last, p, sums) /\ sums[last] = sum[1 .. last]
  BY <1>1, <1>4, SumSteps
<1>6. Value(bytes, last) = sum[1 .. last]
  BY DEF Value, MapThenSumSet, MapThenFoldSet, sum, IsSum, Part
<1>7. \A k \in 1 .. last : p[k] = Low(bytes[k]) * 2 ^ ((k - 1) * Group)
  BY DEF p, Part
<1> HIDE DEF sum
<1> QED
  BY <1>5, <1>6, <1>7 DEF SumsUp

-----------------------------------------------------------------------------
(* The integers: an integer that is read took some of the bytes, and is one. *)
LEMMA ShiftGrows ==
    ASSUME NEW i \in Nat, NEW j \in Nat, 1 <= i, i <= j
    PROVE  (i - 1) * Group \in Nat /\ (i - 1) * Group <= (j - 1) * Group
<1>1. PICK a \in Nat, b \in Nat, c \in Nat : a = i - 1 /\ b = j - 1 /\ c = Group
  BY GroupAssumption
<1>2. a <= b
  BY <1>1
<1>3. a * c \in Nat /\ a * c <= b * c
  BY <1>2
<1> QED
  BY <1>1, <1>3

LEMMA UvarintRead ==
    ASSUME NEW bits \in Nat, NEW bytes \in Seq(Byte),
           Uvarint(bits, bytes).error = "none"
    PROVE  /\ Uvarint(bits, bytes).used \in 1 .. Len(bytes)
           /\ Base \in Nat \ {0} /\ (\A k \in 0 .. bits : 2 ^ k \in Nat)
                => Uvarint(bits, bytes).value \in Nat
<1> DEFINE Shift(i) == (i - 1) * Group
           leaves == {i \in {j \in DOMAIN bytes : Shift(j) < bits} :
                        \/ TooLarge(bits, bytes[i], Shift(i))
                        \/ bytes[i] = 0 /\ i > 1
                        \/ ~Continues(bytes[i])}
           last == Min(leaves)
<1>1. leaves # {} /\ Uvarint(bits, bytes) = Read(Value(bytes, last), last)
  BY DEF Uvarint, Bad, Value
<1>2. last \in leaves
  <2>1. leaves \subseteq Nat
    OBVIOUS
  <2> HIDE DEF leaves
  <2>2. PICK x \in leaves : \A y \in leaves : x <= y
    BY <1>1, <2>1, LeastNumber
  <2> QED
    BY <2>2 DEF Min
<1>3. last \in 1 .. Len(bytes) /\ Shift(last) < bits
  BY <1>2
<1>4. ASSUME Base \in Nat \ {0}, \A k \in 0 .. bits : 2 ^ k \in Nat
      PROVE  Value(bytes, last) \in Nat
  <2> HIDE DEF last
  <2>1. ASSUME NEW i \in 1 .. last
        PROVE  Low(bytes[i]) * 2 ^ ((i - 1) * Group) \in Nat
    <3>1. (i - 1) * Group \in 0 .. bits
      BY <1>3, GroupAssumption, ShiftGrows
    <3>2. 2 ^ ((i - 1) * Group) \in Nat
      BY <1>4, <3>1
    <3>3. bytes[i] \in Nat
      BY <1>3, <1>4 DEF Byte
    <3>4. Low(bytes[i]) \in Nat
      BY <1>4, <3>3 DEF Low
    <3> QED
      BY <3>2, <3>4
  <2>2. last \in Nat
    BY <1>3
  <2>3. PICK sums \in [0 .. last -> Nat] : sums[last] = Value(bytes, last)
    BY <2>1, <2>2, ValueSteps
  <2> QED
    BY <2>2, <2>3
<1> HIDE DEF last
<1> QED
  BY <1>1, <1>3, <1>4 DEF Read

LEMMA FixedRead ==
    ASSUME NEW size \in Nat, NEW bytes \in Seq(Byte), Fixed(size, bytes).error = "none"
    PROVE  Fixed(size, bytes).used = size /\ size <= Len(bytes)
<1> DEFINE number == MapThenSumSet(LAMBDA i : bytes[i] * (2 * Base) ^ (i - 1), 1 .. size)
<1>1. Fixed(size, bytes) =
        IF Len(bytes) < size THEN Bad("invalid_encoding") ELSE Read(number, size)
  BY DEF Fixed
<1> HIDE DEF number
<1> QED
  BY <1>1 DEF Read, Bad

-----------------------------------------------------------------------------
(* The spans and their parts.                                                *)
Spans == [at : Nat, end : Nat]

(* The reader keeps to its bytes, and has a span for every open object.      *)
ReaderInv ==
    /\ source \in Seq(Byte)
    /\ spans \in Seq(Spans)
    /\ \E objects : open \in Seq(objects)
    /\ Reading => spans # <<>>
    /\ SpansNest

LEMMA SpanInside ==
    ASSUME ReaderInv, Reading
    PROVE  /\ Len(spans) \in Nat \ {0} /\ Len(source) \in Nat
           /\ Span = spans[Len(spans)] /\ Span.at \in Nat /\ Span.end \in Nat
           /\ 1 <= Span.at /\ Span.at <= Span.end /\ Span.end <= Len(source) + 1
           /\ \A at \in Span.at .. Span.end :
                Rest(at) \in Seq(Byte) /\ Len(Rest(at)) = Span.end - at
<1>1. /\ Len(spans) \in Nat \ {0} /\ Len(spans) \in DOMAIN spans /\ Len(source) \in Nat
      /\ Span = spans[Len(spans)]
  BY DEF ReaderInv, Span, Last
<1>2. /\ Span.at \in Nat /\ Span.end \in Nat
      /\ 1 <= Span.at /\ Span.at <= Span.end /\ Span.end <= Len(source) + 1
  <2>1. spans[Len(spans)] \in Spans
    BY <1>1 DEF ReaderInv
  <2>2. LET d == Len(spans) IN
        1 <= spans[d].at /\ spans[d].at <= spans[d].end /\ spans[d].end <= Len(source) + 1
    BY <1>1 DEF ReaderInv, SpansNest
  <2> QED
    BY <1>1, <2>1, <2>2 DEF Spans
<1>3. ASSUME NEW at \in Span.at .. Span.end
      PROVE  Rest(at) \in Seq(Byte) /\ Len(Rest(at)) = Span.end - at
  <2>1. at \in Int /\ Span.end - 1 \in Int /\ at <= Span.end
    BY <1>2
  <2>2. \A i \in at .. Span.end - 1 : source[i] \in Byte
    BY <1>2 DEF ReaderInv
  <2>3. /\ SubSeq(source, at, Span.end - 1) \in Seq(Byte)
        /\ Len(SubSeq(source, at, Span.end - 1)) =
                IF at <= Span.end - 1 THEN Span.end - 1 - at + 1 ELSE 0
    <3> DEFINE end == Span.end - 1
    <3>1. end \in Int /\ \A i \in at .. end : source[i] \in Byte
      BY <2>1, <2>2
    <3> HIDE DEF end
    <3>2. /\ SubSeq(source, at, end) \in Seq(Byte)
          /\ Len(SubSeq(source, at, end)) = IF at <= end THEN end - at + 1 ELSE 0
      BY <2>1, <3>1, SubSeqProperties
    <3> QED
      BY <3>2 DEF end
  <2> QED
    BY <1>2, <2>1, <2>3 DEF Rest
<1> QED
  BY <1>1, <1>2, <1>3

(* Whatever is read ends inside the current span.                            *)
LEMMA KeyEnds ==
    ASSUME ReaderInv, AtField, Key.error = "none"
    PROVE  AfterKey \in Nat /\ Span.at <= AfterKey /\ AfterKey <= Span.end
<1>1. Span.at \in Span.at .. Span.end
  BY SpanInside DEF AtField
<1>2. Rest(Span.at) \in Seq(Byte) /\ Len(Rest(Span.at)) = Span.end - Span.at
  BY <1>1, SpanInside DEF AtField
<1>3. Key.used \in 1 .. Len(Rest(Span.at))
  BY <1>2, UvarintRead, ReaderAssumption DEF Key
<1> QED
  BY <1>2, <1>3, SpanInside DEF AfterKey, AtField

LEMMA UvarintEnds ==
    ASSUME ReaderInv, Reading, NEW at \in Span.at .. Span.end,
           Uvarint(SizeBits, Rest(at)).error = "none"
    PROVE  /\ Uvarint(SizeBits, Rest(at)).used \in 1 .. Span.end - at
           /\ Uvarint(SizeBits, Rest(at)).value \in Nat
<1>1. Rest(at) \in Seq(Byte) /\ Len(Rest(at)) = Span.end - at
  BY SpanInside
<1>2. /\ SizeBits \in Nat /\ Base \in Nat \ {0}
      /\ \A bits \in 0 .. SizeBits : 2 ^ bits \in Nat
  BY ReaderAssumption
<1> QED
  BY <1>1, <1>2, UvarintRead

LEMMA FixedEnds ==
    ASSUME ReaderInv, Reading, NEW at \in Span.at .. Span.end, NEW size \in Nat,
           Fixed(size, Rest(at)).error = "none"
    PROVE  Fixed(size, Rest(at)).used \in 0 .. Span.end - at
<1>1. Rest(at) \in Seq(Byte) /\ Len(Rest(at)) = Span.end - at
  BY SpanInside
<1> QED
  BY <1>1, FixedRead

LEMMA BytesEnd ==
    ASSUME ReaderInv, Reading, NEW at \in Span.at .. Span.end,
           Bytes(at).error = "none"
    PROVE  /\ Bytes(at).at \in Nat /\ Bytes(at).end \in Nat
           /\ at <= Bytes(at).at /\ Bytes(at).at <= Bytes(at).end
           /\ Bytes(at).end <= Span.end
<1> DEFINE size  == Uvarint(SizeBits, Rest(at))
           start == at + size.used
<1>1. size.error = "none" /\ ~ (Span.end - start < size.value)
  BY DEF Bytes, Taken
<1>2. Bytes(at).at = start /\ Bytes(at).end = start + size.value
  BY <1>1 DEF Bytes, Taken
<1>3. size.used \in 1 .. Span.end - at /\ size.value \in Nat
  BY <1>1, UvarintEnds
<1>4. at \in Nat /\ Span.end \in Nat
  BY SpanInside
<1>5. start \in Nat /\ at <= start /\ start + size.value <= Span.end
  <2> HIDE DEF size
  <2> QED
    BY <1>1, <1>3, <1>4
<1> HIDE DEF start
<1> QED
  BY <1>2, <1>3, <1>4, <1>5

LEMMA SkippedEnds ==
    ASSUME ReaderInv, AtField, Key.error = "none", Skipped.error = "none"
    PROVE  Skipped.end \in Span.at .. Span.end
<1>1. AfterKey \in Span.at .. Span.end /\ Reading
  BY KeyEnds, SpanInside DEF AtField
<1>2. CASE Type = AsBytes
  <2>1. Skipped = Bytes(AfterKey)
    BY <1>2 DEF Skipped, AsVarint, AsFixed64, AsBytes, AsFixed32
  <2> QED
    BY <1>1, <2>1, BytesEnd, SpanInside
<1>3. ASSUME NEW size \in Nat, Fixed(size, Rest(AfterKey)).error = "none",
             Skipped.end = AfterKey + Fixed(size, Rest(AfterKey)).used
      PROVE  Skipped.end \in Span.at .. Span.end
  BY <1>1, <1>3, FixedEnds, SpanInside
<1>4. CASE Type = AsFixed32
  <2>1. /\ Skipped.error = Fixed(Fixed32Size, Rest(AfterKey)).error
        /\ Skipped.end = AfterKey + Fixed(Fixed32Size, Rest(AfterKey)).used
    BY <1>4 DEF Skipped, Taken, AsVarint, AsFixed64, AsBytes, AsFixed32
  <2> QED
    BY <1>3, <2>1, ReaderAssumption
<1>5. CASE Type = AsFixed64
  <2>1. /\ Skipped.error = Fixed(Fixed64Size, Rest(AfterKey)).error
        /\ Skipped.end = AfterKey + Fixed(Fixed64Size, Rest(AfterKey)).used
    BY <1>5 DEF Skipped, Taken, AsVarint, AsFixed64, AsBytes, AsFixed32
  <2> QED
    BY <1>3, <2>1, ReaderAssumption
<1>6. CASE Type = AsVarint
  <2>1. /\ Skipped.error = Uvarint(SizeBits, Rest(AfterKey)).error
        /\ Skipped.end = AfterKey + Uvarint(SizeBits, Rest(AfterKey)).used
    BY <1>6 DEF Skipped, Taken, AsVarint, AsFixed64, AsBytes, AsFixed32
  <2> QED
    BY <1>1, <2>1, UvarintEnds, SpanInside
<1>7. CASE Type \notin {AsBytes, AsFixed32, AsFixed64, AsVarint}
  <2>1. Skipped.error = "unrecognized_type"
    BY <1>7 DEF Skipped, Taken
  <2> QED
    BY <2>1
<1> QED
  BY <1>2, <1>4, <1>5, <1>6, <1>7

LEMMA NumberEnds ==
    ASSUME ReaderInv, AtField, Key.error = "none",
           NEW size, Integer(size).error = "none"
    PROVE  AfterKey + Integer(size).used \in Span.at .. Span.end
<1>1. AfterKey \in Span.at .. Span.end /\ Reading
  BY KeyEnds, SpanInside DEF AtField
<1>2. CASE Type = AsVarint
  <2>1. Integer(size) = Uvarint(SizeBits, Rest(AfterKey))
    BY <1>2 DEF Integer, Bad, AsVarint, AsFixed64, AsBytes, AsFixed32
  <2> QED
    BY <1>1, <2>1, UvarintEnds, SpanInside
<1>3. CASE Type = AsFixed32
  <2>1. Integer(size) = Fixed(Fixed32Size, Rest(AfterKey))
    BY <1>3 DEF Integer, Bad, AsVarint, AsFixed64, AsBytes, AsFixed32
  <2>2. Integer(size).used \in 0 .. Span.end - AfterKey
    BY <1>1, <2>1, FixedEnds, ReaderAssumption
  <2> QED
    BY <1>1, <2>2, SpanInside
<1>4. CASE Type = AsFixed64
  <2>1. Integer(size) = Fixed(Fixed64Size, Rest(AfterKey))
    BY <1>4 DEF Integer, Bad, AsVarint, AsFixed64, AsBytes, AsFixed32
  <2>2. Integer(size).used \in 0 .. Span.end - AfterKey
    BY <1>1, <2>1, FixedEnds, ReaderAssumption
  <2> QED
    BY <1>1, <2>2, SpanInside
<1>5. CASE Type \notin {AsVarint, AsFixed32, AsFixed64}
  <2>1. Integer(size).error # "none"
    BY <1>5 DEF Integer, Bad
  <2> QED
    BY <2>1
<1> QED
  BY <1>2, <1>3, <1>4, <1>5

-----------------------------------------------------------------------------
(* Every step keeps the spans in order.                                      *)
LEMMA AdvanceKeeps ==
    ASSUME ReaderInv, Reading, NEW to \in Span.at .. Span.end, Advance(to),
           UNCHANGED source, Len(open') = Len(open), \E objects : open' \in Seq(objects)
    PROVE  ReaderInv'
<1>1. /\ Len(spans) \in Nat \ {0} /\ Span = spans[Len(spans)]
      /\ Span.at \in Nat /\ Span.end \in Nat /\ 1 <= Span.at
  BY SpanInside
<1>2. \A d \in DOMAIN spans : spans[d] \in Spans
  BY DEF ReaderInv
<1>3. /\ spans' \in Seq(Spans) /\ Len(spans') = Len(spans) /\ DOMAIN spans' = DOMAIN spans
      /\ \A d \in DOMAIN spans :
            /\ spans'[d].end = spans[d].end
            /\ spans'[d].at = IF d = Len(spans) THEN to ELSE spans[d].at
  <2>1. /\ spans' = [spans EXCEPT ![Len(spans)].at = to]
        /\ spans \in Seq(Spans) /\ to \in Nat
    BY <1>1 DEF Advance, ReaderInv
  <2>2. DOMAIN spans = 1 .. Len(spans)
    BY <2>1
  <2>3. \A d \in DOMAIN spans :
            /\ spans'[d] \in Spans
            /\ spans'[d].end = spans[d].end
            /\ spans'[d].at = IF d = Len(spans) THEN to ELSE spans[d].at
    BY <1>2, <2>1 DEF Spans
  <2> QED
    BY <1>1, <2>1, <2>2, <2>3
<1>4. SpansNest'
  <2>1. Len(spans') = Len(open') /\ Len(spans') < MaxDepth
    BY <1>3 DEF ReaderInv, SpansNest
  <2>2. \A d \in DOMAIN spans' :
            /\ 1 <= spans'[d].at /\ spans'[d].at <= spans'[d].end
            /\ spans'[d].end <= Len(source') + 1
    <3> SUFFICES ASSUME NEW d \in DOMAIN spans
                 PROVE  /\ 1 <= spans'[d].at /\ spans'[d].at <= spans'[d].end
                        /\ spans'[d].end <= Len(source') + 1
      BY <1>3
    <3>1. /\ 1 <= spans[d].at /\ spans[d].at <= spans[d].end
          /\ spans[d].end <= Len(source) + 1
      BY DEF ReaderInv, SpansNest
    <3>2. spans'[d].end = spans[d].end /\ source' = source
          /\ spans'[d].at = IF d = Len(spans) THEN to ELSE spans[d].at
      BY <1>3
    <3> QED
      BY <1>1, <3>1, <3>2
  <2>3. \A d \in 2 .. Len(spans') : spans'[d].end = spans'[d - 1].at
    <3> SUFFICES ASSUME NEW d \in 2 .. Len(spans)
                 PROVE  spans'[d].end = spans'[d - 1].at
      BY <1>3
    <3>1. d \in DOMAIN spans /\ d - 1 \in DOMAIN spans /\ d - 1 # Len(spans)
      BY <1>1 DEF ReaderInv
    <3>2. spans[d].end = spans[d - 1].at
      BY DEF ReaderInv, SpansNest
    <3> QED
      BY <1>3, <3>1, <3>2
  <2> QED
    BY <2>1, <2>2, <2>3 DEF SpansNest
<1> QED
  BY <1>1, <1>3, <1>4 DEF ReaderInv

(* The values of an object change, and the objects stay as many.             *)
LEMMA ObjectChanged ==
    ASSUME NEW objects, NEW before \in Seq(objects), NEW d, NEW object
    PROVE  /\ [before EXCEPT ![d] = object] \in Seq(objects \union {object})
           /\ Len([before EXCEPT ![d] = object]) = Len(before)
<1> DEFINE after == [before EXCEPT ![d] = object]
<1>1. before \in [1 .. Len(before) -> objects] /\ Len(before) \in Nat
  OBVIOUS
<1>2. after \in [1 .. Len(before) -> objects \union {object}]
  BY <1>1
<1> QED
  BY <1>1, <1>2

LEMMA KeepKeeps ==
    ASSUME ReaderInv, NEW value, Keep(value)
    PROVE  Len(open') = Len(open) /\ \E objects : open' \in Seq(objects)
<1>1. PICK objects : open \in Seq(objects)
  BY DEF ReaderInv
<1>2. PICK object : open' = [open EXCEPT ![Len(open)] = object]
  BY DEF Keep
<1> QED
  BY <1>1, <1>2, ObjectChanged

LEMMA StopKeeps ==
    ASSUME ReaderInv, UNCHANGED <<source, spans, open>>, Reading' => Reading
    PROVE  ReaderInv'
BY DEF ReaderInv, SpansNest

LEMMA FailKeeps ==
    ASSUME ReaderInv, NEW error, Fail(error)
    PROVE  ReaderInv'
<1>1. UNCHANGED <<source, spans, open>> /\ ~Reading'
  BY DEF Fail, Reading
<1> QED
  BY <1>1, StopKeeps

LEMMA FromBytesKeeps ==
    ASSUME ReaderInv, NEW bytes \in Seq(Byte), NEW schema, FromBytes(bytes, schema)
    PROVE  ReaderInv'
<1>1. FromBytes(source', schema)
  BY DEF FromBytes
<1>2. source' \in Seq(Byte) /\ Len(source') \in Nat
  BY DEF FromBytes
<1>3. /\ spans' = <<[at |-> 1, end |-> Len(source') + 1]>>
      /\ open' = <<[schema |-> schema, place |-> 0, values |-> NoValues]>>
  BY <1>1 DEF FromBytes
<1>4. /\ spans' \in Seq(Spans) /\ Len(spans') = 1 /\ DOMAIN spans' = {1}
      /\ spans'[1].at = 1 /\ spans'[1].end = Len(source') + 1
      /\ spans' # <<>>
  BY <1>2, <1>3 DEF Spans
<1>5. Len(open') = 1 /\ \E objects : open' \in Seq(objects)
  <2> DEFINE object == [schema |-> schema, place |-> 0, values |-> NoValues]
  <2>1. open' = <<object>>
    BY <1>3
  <2> HIDE DEF object
  <2>2. <<object>> \in Seq({object})
    OBVIOUS
  <2> QED
    BY <2>1, <2>2
<1>6. SpansNest'
  <2>1. Len(spans') = Len(open') /\ Len(spans') < MaxDepth
    BY <1>4, <1>5, ReaderAssumption
  <2>2. \A d \in DOMAIN spans' :
            /\ 1 <= spans'[d].at /\ spans'[d].at <= spans'[d].end
            /\ spans'[d].end <= Len(source') + 1
    BY <1>2, <1>4
  <2>3. 2 .. Len(spans') = {}
    BY <1>4
  <2> QED
    BY <2>1, <2>2, <2>3 DEF SpansNest
<1> QED
  BY <1>2, <1>4, <1>5, <1>6 DEF ReaderInv

LEMMA SkipKeeps ==
    ASSUME ReaderInv, SkipField
    PROVE  ReaderInv'
<1>1. AtField /\ Key.error = "none" /\ Reading
  BY DEF SkipField, AtField
<1>2. CASE Skipped.error = "none" /\ Advance(Skipped.end) /\ UNCHANGED <<source, open, outcome>>
  <2>1. Skipped.end \in Span.at .. Span.end
    BY <1>1, <1>2, SkippedEnds
  <2>2. Len(open') = Len(open) /\ \E objects : open' \in Seq(objects)
    BY <1>2 DEF ReaderInv
  <2> QED
    BY <1>1, <1>2, <2>1, <2>2, AdvanceKeeps
<1>3. CASE Fail(Skipped.error)
  BY <1>3, FailKeeps
<1> QED
  BY <1>2, <1>3 DEF SkipField

LEMMA ReadUintKeeps ==
    ASSUME ReaderInv, ReadUint
    PROVE  ReaderInv'
<1> DEFINE n == Integer(Current.schema[Place].size)
<1>1. AtField /\ Key.error = "none" /\ Reading
  BY DEF ReadUint, Unread, AtField
<1>2. CASE /\ n.error = "none" /\ Keep(n.value) /\ Advance(AfterKey + n.used)
           /\ UNCHANGED <<source, outcome>>
  <2>1. AfterKey + n.used \in Span.at .. Span.end
    BY <1>1, <1>2, NumberEnds
  <2>2. Len(open') = Len(open) /\ \E objects : open' \in Seq(objects)
    BY <1>2, KeepKeeps
  <2> HIDE DEF n
  <2> QED
    BY <1>1, <1>2, <2>1, <2>2, AdvanceKeeps
<1>3. CASE Fail(n.error)
  BY <1>3, FailKeeps
<1> QED
  BY <1>2, <1>3 DEF ReadUint

LEMMA ReadBytesKeeps ==
    ASSUME ReaderInv, ReadBytes
    PROVE  ReaderInv'
<1> DEFINE taken == Bytes(AfterKey)
           value == SubSeq(source, taken.at, taken.end - 1)
<1>1. AtField /\ Key.error = "none" /\ Reading
  BY DEF ReadBytes, Unread, AtField
<1>2. CASE /\ taken.error = "none" /\ Keep(value) /\ Advance(taken.end)
           /\ UNCHANGED <<source, outcome>>
  <2>1. AfterKey \in Span.at .. Span.end
    BY <1>1, KeyEnds, SpanInside
  <2>2. taken.end \in Span.at .. Span.end
    BY <1>1, <1>2, <2>1, BytesEnd, SpanInside
  <2>3. Len(open') = Len(open) /\ \E objects : open' \in Seq(objects)
    BY <1>2, KeepKeeps
  <2> HIDE DEF taken
  <2> QED
    BY <1>1, <1>2, <2>2, <2>3, AdvanceKeeps
<1>3. ASSUME NEW error, Fail(error) PROVE ReaderInv'
  BY <1>3, FailKeeps
<1> QED
  BY <1>2, <1>3 DEF ReadBytes

LEMMA StartObjectKeeps ==
    ASSUME ReaderInv, StartObject
    PROVE  ReaderInv'
<1> DEFINE taken == Bytes(AfterKey)
           parent == [spans EXCEPT ![Len(spans)].at = taken.end]
           child == [at |-> taken.at, end |-> taken.end]
           object == [schema |-> Current.schema[Place].fields, place |-> Place,
                      values |-> NoValues]
<1>1. AtField /\ Key.error = "none" /\ Reading
  BY DEF StartObject, Unread, AtField
<1>2. CASE /\ Len(spans) + 1 < MaxDepth /\ taken.error = "none"
           /\ spans' = Append(parent, child) /\ open' = Append(open, object)
           /\ UNCHANGED <<source, outcome>>
  <2>1. /\ Len(spans) \in Nat \ {0} /\ Span = spans[Len(spans)] /\ spans \in Seq(Spans)
        /\ Span.at \in Nat /\ Span.end \in Nat /\ 1 <= Span.at
    BY <1>1, SpanInside DEF ReaderInv
  <2>2. /\ taken.at \in Nat /\ taken.end \in Nat
        /\ Span.at <= taken.at /\ taken.at <= taken.end /\ taken.end <= Span.end
    <3>1. AfterKey \in Span.at .. Span.end
      BY <1>1, KeyEnds, SpanInside
    <3>2. /\ taken.at \in Nat /\ taken.end \in Nat
          /\ AfterKey <= taken.at /\ taken.at <= taken.end /\ taken.end <= Span.end
      BY <1>1, <1>2, <3>1, BytesEnd
    <3> HIDE DEF taken
    <3> QED
      BY <2>1, <3>1, <3>2
  <2>3. child \in Spans /\ child.at = taken.at /\ child.end = taken.end
    BY <2>2 DEF Spans
  <2> HIDE DEF taken
  <2>4. /\ parent \in Seq(Spans) /\ Len(parent) = Len(spans)
        /\ \A d \in 1 .. Len(spans) :
              /\ parent[d].end = spans[d].end
              /\ parent[d].at = IF d = Len(spans) THEN taken.end ELSE spans[d].at
    <3>1. \A d \in 1 .. Len(spans) : spans[d] \in Spans
      BY <2>1
    <3>2. \A d \in 1 .. Len(spans) :
              /\ parent[d] \in Spans
              /\ parent[d].end = spans[d].end
              /\ parent[d].at = IF d = Len(spans) THEN taken.end ELSE spans[d].at
      BY <2>1, <2>2, <3>1 DEF Spans
    <3> QED
      BY <2>1, <3>2
  <2> HIDE DEF parent, child, object
  <2>5. /\ spans' \in Seq(Spans) /\ spans' # <<>> /\ Len(spans') = Len(spans) + 1
        /\ DOMAIN spans' = 1 .. Len(spans) + 1 /\ spans'[Len(spans) + 1] = child
        /\ \A d \in 1 .. Len(spans) : spans'[d] = parent[d]
    BY <1>2, <2>1, <2>3, <2>4, AppendProperties
  <2>6. Len(open') = Len(open) + 1 /\ \E objects : open' \in Seq(objects)
    <3>1. PICK objects : open \in Seq(objects)
      BY DEF ReaderInv
    <3>2. open \in Seq(objects \union {object})
      BY <3>1
    <3> QED
      BY <1>2, <3>2, AppendProperties
  <2>7. SpansNest'
    <3>1. Len(spans') = Len(open') /\ Len(spans') < MaxDepth
      BY <1>2, <2>5, <2>6 DEF ReaderInv, SpansNest
    <3>2. \A d \in 1 .. Len(spans) :
                /\ 1 <= spans[d].at /\ spans[d].at <= spans[d].end
                /\ spans[d].end <= Len(source) + 1
      BY <2>1 DEF ReaderInv, SpansNest
    <3>3. \A d \in DOMAIN spans' :
                /\ 1 <= spans'[d].at /\ spans'[d].at <= spans'[d].end
                /\ spans'[d].end <= Len(source') + 1
      <4> SUFFICES ASSUME NEW d \in 1 .. Len(spans) + 1
                   PROVE  /\ 1 <= spans'[d].at /\ spans'[d].at <= spans'[d].end
                          /\ spans'[d].end <= Len(source') + 1
        BY <2>5
      <4>1. CASE d = Len(spans) + 1
        <5>1. Span.end <= Len(source) + 1 /\ Len(source) \in Nat
          BY <1>1, SpanInside
        <5> QED
          BY <1>2, <2>1, <2>2, <2>3, <2>5, <4>1, <5>1
      <4>2. CASE d \in 1 .. Len(spans)
        <5>1. /\ 1 <= spans[d].at /\ spans[d].at <= spans[d].end
              /\ spans[d].end <= Len(source) + 1 /\ source' = source
          BY <1>2, <3>2, <4>2
        <5>2. /\ spans'[d].end = spans[d].end
              /\ spans'[d].at = IF d = Len(spans) THEN taken.end ELSE spans[d].at
          BY <2>4, <2>5, <4>2
        <5> QED
          BY <2>1, <2>2, <5>1, <5>2
      <4> QED
        BY <2>1, <4>1, <4>2
    <3>4. \A d \in 2 .. Len(spans') : spans'[d].end = spans'[d - 1].at
      <4> SUFFICES ASSUME NEW d \in 2 .. Len(spans) + 1
                   PROVE  spans'[d].end = spans'[d - 1].at
        BY <2>5
      <4>1. d - 1 \in 1 .. Len(spans)
        BY <2>1
      <4>2. CASE d = Len(spans) + 1
        BY <2>1, <2>3, <2>4, <2>5, <4>1, <4>2
      <4>3. CASE d \in 2 .. Len(spans)
        <5>1. spans[d].end = spans[d - 1].at
          BY <4>3 DEF ReaderInv, SpansNest
        <5>2. d \in 1 .. Len(spans) /\ d - 1 # Len(spans)
          BY <2>1, <4>3
        <5> QED
          BY <2>4, <2>5, <4>1, <5>1, <5>2
      <4> QED
        BY <2>1, <4>2, <4>3
    <3> QED
      BY <3>1, <3>3, <3>4 DEF SpansNest
  <2>8. source' \in Seq(Byte) /\ spans' # <<>>
    BY <1>2, <2>5 DEF ReaderInv
  <2> QED
    BY <2>5, <2>6, <2>7, <2>8 DEF ReaderInv
<1>3. ASSUME NEW error, Fail(error) PROVE ReaderInv'
  BY <1>3, FailKeeps
<1> QED
  BY <1>2, <1>3 DEF StartObject

LEMMA EndObjectKeeps ==
    ASSUME ReaderInv, EndObject
    PROVE  ReaderInv'
<1> DEFINE last == Len(spans) - 1
<1>1. PICK objects : open \in Seq(objects)
  BY DEF ReaderInv
<1>2. Len(open) > 1 /\ Len(open) = Len(spans) /\ last \in Nat \ {0} /\ last \in Int
  BY <1>1 DEF EndObject, ReaderInv, SpansNest
<1>3. /\ spans' = SubSeq(spans, 1, last) /\ spans \in Seq(Spans)
      /\ UNCHANGED <<source, outcome>>
  BY DEF EndObject, Front, ReaderInv
<1>4. PICK object : open' = [SubSeq(open, 1, last) EXCEPT ![last] = object]
  <2>1. Front(open) = SubSeq(open, 1, last) /\ Len(open) - 1 = last
    BY <1>2 DEF Front
  <2> QED
    BY <2>1 DEF EndObject
<1>5. \A d \in 1 .. last : spans[d] \in Spans
  BY <1>2, <1>3
<1>6. \A d \in 1 .. last : open[d] \in objects
  BY <1>1, <1>2
<1>7. Len(spans) = last + 1 /\ Len(spans) \in Nat
  BY <1>2, <1>3
<1> HIDE DEF last
<1>8. /\ spans' \in Seq(Spans) /\ Len(spans') = last
      /\ \A d \in 1 .. last : spans'[d] = spans[d]
  BY <1>2, <1>3, <1>5, SubSeqProperties
<1>9. SubSeq(open, 1, last) \in Seq(objects) /\ Len(SubSeq(open, 1, last)) = last
  BY <1>2, <1>6, SubSeqProperties
<1>10. open' \in Seq(objects \union {object}) /\ Len(open') = last
  <2> DEFINE front == SubSeq(open, 1, last)
             after == [front EXCEPT ![last] = object]
  <2>1. open' = after /\ front \in Seq(objects) /\ Len(front) = last
    BY <1>4, <1>9
  <2> HIDE DEF front
  <2>2. front \in [1 .. last -> objects]
    BY <2>1
  <2>3. after \in [1 .. last -> objects \union {object}]
    BY <2>2
  <2> HIDE DEF after
  <2> QED
    BY <1>2, <2>1, <2>3
<1>11. SpansNest'
  <2>1. Len(spans') = Len(open') /\ Len(spans') < MaxDepth
    BY <1>2, <1>7, <1>8, <1>10, ReaderAssumption DEF ReaderInv, SpansNest
  <2>2. DOMAIN spans' = 1 .. last /\ 1 .. last \subseteq DOMAIN spans
    BY <1>2, <1>3, <1>7, <1>8
  <2>3. \A d \in DOMAIN spans' :
            /\ 1 <= spans'[d].at /\ spans'[d].at <= spans'[d].end
            /\ spans'[d].end <= Len(source') + 1
    BY <1>3, <1>8, <2>2 DEF ReaderInv, SpansNest
  <2>4. \A d \in 2 .. Len(spans') : spans'[d].end = spans'[d - 1].at
    <3> SUFFICES ASSUME NEW d \in 2 .. last PROVE spans'[d].end = spans'[d - 1].at
      BY <1>8
    <3>1. d \in 1 .. last /\ d - 1 \in 1 .. last /\ d \in 2 .. Len(spans)
      BY <1>2, <1>7
    <3> QED
      BY <1>8, <3>1 DEF ReaderInv, SpansNest
  <2> QED
    BY <2>1, <2>3, <2>4 DEF SpansNest
<1>12. source' \in Seq(Byte) /\ spans' # <<>>
  BY <1>2, <1>3, <1>8 DEF ReaderInv
<1> QED
  BY <1>8, <1>10, <1>11, <1>12 DEF ReaderInv

LEMMA ReaderKeeps ==
    ASSUME ReaderInv, ReaderNext
    PROVE  ReaderInv'
<1>1. ASSUME NEW error, Fail(error) PROVE ReaderInv'
  BY <1>1, FailKeeps
<1>2. CASE KeyFails \/ Duplicate \/ MissingKey
  BY <1>1, <1>2 DEF KeyFails, Duplicate, MissingKey
<1>3. CASE Complete
  BY <1>3, StopKeeps DEF Complete, Reading
<1> QED
  BY <1>2, <1>3, SkipKeeps, ReadUintKeeps, ReadBytesKeeps, StartObjectKeeps,
     EndObjectKeeps DEF ReaderNext

LEMMA ReaderStarts == ReaderInit => ReaderInv
<1> SUFFICES ASSUME ReaderInit PROVE ReaderInv
  OBVIOUS
<1>1. source = <<>> /\ spans = <<>> /\ open = <<>> /\ ~Reading
  BY DEF ReaderInit, Reading
<1>2. <<>> \in Seq(Byte) /\ <<>> \in Seq(Spans) /\ <<>> \in Seq({}) /\ Len(<<>>) = 0
  OBVIOUS
<1>3. SpansNest
  BY <1>1, <1>2, ReaderAssumption, ReaderAssumption DEF SpansNest
<1> QED
  BY <1>1, <1>2, <1>3 DEF ReaderInv

-----------------------------------------------------------------------------
(* The bytes of a number, as the writer makes them of the number's groups.   *)
Groups(g, v) ==
    IF v < Base THEN <<v>> ELSE <<(v % Base) + Base>> \o g[v \div Base]

MadeUpTo(g, k) == \A v \in 0 .. k : g[v] = Groups(g, v)

LEMMA Division ==
    ASSUME NEW a \in Nat, NEW b \in Nat, b > 0
    PROVE  a \div b \in Nat /\ a % b \in 0 .. b - 1 /\ a = b * (a \div b) + (a % b)
OBVIOUS

LEMMA Smaller ==
    ASSUME NEW v \in Nat, ~ (v < Base)
    PROVE  v \div Base \in 0 .. v - 1 /\ (v % Base) + Base \in Byte
<1>1. PICK b \in Nat : b = Base /\ b > 1
  BY ReaderAssumption
<1>2. v % b \in 0 .. b - 1 /\ v \div b \in Nat /\ v = b * (v \div b) + (v % b)
  BY <1>1, Division
<1>3. v \div b < v
  <2>1. PICK q \in Nat : q = v \div b
    BY <1>2
  <2>2. q < b * q \/ q = 0
    BY <1>1
  <2> QED
    BY <1>1, <1>2, <2>1, <2>2
<1> QED
  BY <1>1, <1>2, <1>3 DEF Byte

LEMMA GroupType ==
    ASSUME NEW g \in [Nat -> Seq(Byte)], NEW v \in Nat
    PROVE  Groups(g, v) \in Seq(Byte)
<1>1. Base \in Nat \ {0, 1}
  BY ReaderAssumption
<1>2. CASE v < Base
  <2>1. v \in Byte
    BY <1>1, <1>2 DEF Byte
  <2>2. <<v>> \in Seq(Byte)
    BY <2>1
  <2> QED
    BY <1>2, <2>2 DEF Groups
<1>3. CASE ~ (v < Base)
  <2>1. v \div Base \in Nat /\ (v % Base) + Base \in Byte
    BY <1>3, Smaller
  <2> DEFINE byte == (v % Base) + Base
             rest == g[v \div Base]
  <2>2. <<byte>> \in Seq(Byte) /\ rest \in Seq(Byte)
    BY <2>1
  <2> HIDE DEF byte, rest
  <2>3. <<byte>> \o rest \in Seq(Byte)
    BY <2>2
  <2> QED
    BY <1>3, <2>3 DEF Groups, byte, rest
<1> QED
  BY <1>2, <1>3

LEMMA GroupDepends ==
    ASSUME NEW g, NEW h, NEW v \in Nat, \A w \in 0 .. v - 1 : g[w] = h[w]
    PROVE  Groups(g, v) = Groups(h, v)
<1>1. CASE v < Base
  BY <1>1 DEF Groups
<1>2. CASE ~ (v < Base)
  <2>1. v \div Base \in 0 .. v - 1
    BY <1>2, Smaller
  <2> QED
    BY <1>2, <2>1 DEF Groups
<1> QED
  BY <1>1, <1>2

LEMMA MadeAlike ==
    ASSUME NEW g, NEW h, NEW k \in Nat, NEW j \in 0 .. k, MadeUpTo(g, k), MadeUpTo(h, j)
    PROVE  g[j] = h[j]
<1> DEFINE Apart == {v \in 0 .. j : g[v] # h[v]}
<1>1. SUFFICES ASSUME Apart # {} PROVE FALSE
  BY DEF MadeUpTo
<1>2. Apart \subseteq Nat /\ Apart \subseteq 0 .. j
  OBVIOUS
<1>3. PICK v \in Apart : \A w \in Apart : v <= w
  <2> HIDE DEF Apart
  <2> QED
    BY <1>1, <1>2, LeastNumber
<1>4. v \in Nat /\ v \in 0 .. j /\ v \in 0 .. k /\ g[v] # h[v]
  OBVIOUS
<1>5. \A w \in 0 .. v - 1 : g[w] = h[w]
  <2> SUFFICES ASSUME NEW w \in 0 .. v - 1, g[w] # h[w] PROVE FALSE
    OBVIOUS
  <2>1. w \in Apart
    BY <1>4
  <2> QED
    BY <1>3, <1>4, <2>1
<1>6. Groups(g, v) = Groups(h, v)
  BY <1>4, <1>5, GroupDepends
<1> QED
  BY <1>4, <1>6 DEF MadeUpTo

LEMMA MadeExists ==
    ASSUME NEW k \in Nat
    PROVE  \E g \in [Nat -> Seq(Byte)] : MadeUpTo(g, k)
<1> DEFINE MadeBelow(g, j) == \A v \in 0 .. j - 1 : g[v] = Groups(g, v)
           Lacking == {j \in Nat : ~ \E g \in [Nat -> Seq(Byte)] : MadeUpTo(g, j)}
<1>1. ASSUME NEW j \in Nat, NEW g \in [Nat -> Seq(Byte)], MadeBelow(g, j)
      PROVE  j \notin Lacking
  <2> DEFINE h == [v \in Nat |-> IF v = j THEN Groups(g, j) ELSE g[v]]
  <2>1. h \in [Nat -> Seq(Byte)]
    BY GroupType
  <2>2. \A v \in 0 .. j : h[v] = Groups(h, v)
    <3> SUFFICES ASSUME NEW v \in 0 .. j PROVE h[v] = Groups(h, v)
      OBVIOUS
    <3>1. \A w \in 0 .. v - 1 : h[w] = g[w]
      OBVIOUS
    <3>4. v \in Nat
      OBVIOUS
    <3>2. h[v] = Groups(g, v)
      BY <1>1
    <3> HIDE DEF h
    <3>3. Groups(h, v) = Groups(g, v)
      BY <3>1, <3>4, GroupDepends
    <3> QED
      BY <3>2, <3>3
  <2> HIDE DEF h
  <2> QED
    BY <2>1, <2>2 DEF MadeUpTo
<1>2. 0 \notin Lacking
  <2> DEFINE g == [v \in Nat |-> <<>>]
  <2>1. g \in [Nat -> Seq(Byte)]
    OBVIOUS
  <2> HIDE DEF g, Lacking
  <2>2. MadeBelow(g, 0)
    OBVIOUS
  <2> HIDE DEF MadeBelow
  <2> QED
    BY <1>1, <2>1, <2>2
<1>3. ASSUME NEW j \in Nat, j \notin Lacking PROVE j + 1 \notin Lacking
  <2>1. PICK g \in [Nat -> Seq(Byte)] : MadeUpTo(g, j)
    BY <1>3
  <2>2. MadeBelow(g, j + 1)
    <3>1. \A v \in 0 .. (j + 1) - 1 : v \in 0 .. j
      OBVIOUS
    <3> QED
      BY <2>1, <3>1 DEF MadeUpTo
  <2> HIDE DEF Lacking, MadeBelow
  <2> QED
    BY <1>1, <2>2
<1>4. Lacking = {}
  <2> SUFFICES ASSUME Lacking # {} PROVE FALSE
    OBVIOUS
  <2>1. Lacking \subseteq Nat
    OBVIOUS
  <2> HIDE DEF Lacking
  <2>2. PICK x \in Lacking : \A y \in Lacking : x <= y
    BY <2>1, LeastNumber
  <2>3. x \in Nat /\ x # 0
    BY <1>2, <2>1
  <2>4. x - 1 \in Nat /\ x - 1 \notin Lacking
    BY <2>1, <2>2, <2>3
  <2>5. (x - 1) + 1 \notin Lacking
    BY <1>3, <2>4
  <2> QED
    BY <2>3, <2>5
<1> QED
  BY <1>4

(* The bytes of any number are bytes.                                        *)
LEMMA WriteVarintType ==
    /\ Out!WriteVarint \in [Nat -> Seq(Byte)]
    /\ \A v \in Nat : Out!WriteVarint[v] = Groups(Out!WriteVarint, v)
<1> DEFINE Made(k) == CHOOSE g \in [Nat -> Seq(Byte)] : MadeUpTo(g, k)
           h == [v \in Nat |-> Made(v)[v]]
           IsMade(g) == g = [v \in Nat |-> Groups(g, v)]
           made == CHOOSE g : IsMade(g)
<1>1. \A k \in Nat : Made(k) \in [Nat -> Seq(Byte)] /\ MadeUpTo(Made(k), k)
  BY MadeExists
<1> HIDE DEF Made
<1>2. ASSUME NEW v \in Nat PROVE h[v] = Groups(h, v)
  <2>1. h[v] = Groups(Made(v), v)
    BY <1>1 DEF MadeUpTo
  <2>2. ASSUME NEW w \in 0 .. v - 1 PROVE h[w] = Made(v)[w]
    <3>1. w \in Nat /\ w \in 0 .. v /\ h[w] = Made(w)[w]
      OBVIOUS
    <3> QED
      BY <1>1, <3>1, MadeAlike
  <2> HIDE DEF h
  <2>3. Groups(h, v) = Groups(Made(v), v)
    BY <2>2, GroupDepends
  <2> QED
    BY <2>1, <2>3
<1>3. IsMade(h)
  <2>1. h = [v \in Nat |-> h[v]]
    OBVIOUS
  <2> HIDE DEF h
  <2> QED
    BY <1>2, <2>1
<1>4. IsMade(made)
  <2> HIDE DEF IsMade, h
  <2> QED
    BY <1>3
<1>5. Out!WriteVarint = made
  BY DEF Out!WriteVarint, Out!Base, Base, made, IsMade, Groups
<1> HIDE DEF made
<1>6. \A v \in Nat : made[v] = Groups(made, v)
  BY <1>4
<1>7. \A v \in Nat : made[v] \in Seq(Byte)
  <2> DEFINE Wrong == {v \in Nat : made[v] \notin Seq(Byte)}
  <2> SUFFICES ASSUME Wrong # {} PROVE FALSE
    OBVIOUS
  <2>1. Wrong \subseteq Nat
    OBVIOUS
  <2>2. PICK v \in Wrong : \A w \in Wrong : v <= w
    <3> HIDE DEF Wrong
    <3> QED
      BY <2>1, LeastNumber
  <2>3. v \in Nat /\ made[v] \notin Seq(Byte)
    OBVIOUS
  <2> DEFINE g == [w \in Nat |-> IF w < v THEN made[w] ELSE <<>>]
  <2>4. g \in [Nat -> Seq(Byte)]
    <3> SUFFICES ASSUME NEW w \in Nat, w < v PROVE made[w] \in Seq(Byte)
      OBVIOUS
    <3>1. w \notin Wrong
      BY <2>2, <2>3
    <3> QED
      BY <3>1
  <2>5. \A w \in 0 .. v - 1 : g[w] = made[w]
    BY <2>3
  <2> HIDE DEF g
  <2>6. Groups(made, v) = Groups(g, v)
    BY <2>3, <2>5, GroupDepends
  <2> QED
    BY <1>6, <2>3, <2>4, <2>6, GroupType
<1>8. made \in [Nat -> Seq(Byte)]
  <2>1. made = [v \in Nat |-> Groups(made, v)]
    BY <1>4
  <2> HIDE DEF IsMade
  <2> QED
    BY <1>6, <1>7, <2>1
<1> QED
  BY <1>5, <1>6, <1>8

(* The elements of an array, one after the other.                            *)
LEMMA FlattenType ==
    ASSUME NEW seqs \in Seq(Seq(Byte))
    PROVE  Out!FlattenSeq(seqs) \in Seq(Byte)
<1> DEFINE n == Len(seqs)
           Joined(g, i) == IF i = 1 THEN seqs[i] ELSE g[i - 1] \o seqs[i]
           UpTo(g, k) == \A i \in 1 .. k : g[i] = Joined(g, i)
           IsJoined(g) == g = [i \in 1 .. n |-> Joined(g, i)]
           joined == CHOOSE g : IsJoined(g)
           Lacking == {k \in Nat : k <= n /\ ~ \E g \in [1 .. n -> Seq(Byte)] : UpTo(g, k)}
<1>1. n \in Nat /\ \A i \in 1 .. n : seqs[i] \in Seq(Byte)
  OBVIOUS
<1>2. CASE n = 0
  <2>1. seqs = <<>>
    BY <1>2
  <2> QED
    BY <1>2, <2>1 DEF Out!FlattenSeq
<1> HIDE DEF n
<1>3. ASSUME n # 0 PROVE Out!FlattenSeq(seqs) = joined[n]
  BY <1>3 DEF Out!FlattenSeq, n
<1>4. ASSUME NEW k \in Nat, k + 1 <= n, NEW g \in [1 .. n -> Seq(Byte)], UpTo(g, k)
      PROVE  \E h \in [1 .. n -> Seq(Byte)] : UpTo(h, k + 1)
  <2> DEFINE h == [i \in 1 .. n |-> IF i = k + 1 THEN Joined(g, i) ELSE g[i]]
  <2>1. Joined(g, k + 1) \in Seq(Byte)
    <3>1. CASE k = 0
      BY <1>1, <1>4, <3>1
    <3>2. CASE k # 0
      <4>1. k \in 1 .. n /\ g[k] \in Seq(Byte) /\ seqs[k + 1] \in Seq(Byte)
        BY <1>1, <1>4, <3>2
      <4>2. g[k] \o seqs[k + 1] \in Seq(Byte)
        BY <4>1
      <4>3. (k + 1) - 1 = k /\ k + 1 # 1
        BY <3>2
      <4> QED
        BY <4>2, <4>3
    <3> QED
      BY <3>1, <3>2
  <2> HIDE DEF Joined
  <2>2. h \in [1 .. n -> Seq(Byte)]
    BY <2>1
  <2>3. ASSUME NEW i \in 1 .. k + 1 PROVE h[i] = Joined(h, i)
    <3>1. i \in 1 .. n /\ h[i] = Joined(g, i)
      BY <1>1, <1>4, <2>3
    <3>2. i # 1 => i - 1 \in 1 .. n /\ h[i - 1] = g[i - 1]
      BY <1>1, <1>4
    <3> HIDE DEF h
    <3>3. Joined(h, i) = Joined(g, i)
      BY <3>2 DEF Joined
    <3> QED
      BY <3>1, <3>3
  <2> HIDE DEF h
  <2> QED
    BY <2>2, <2>3
<1>5. 0 \notin Lacking
  <2> DEFINE g == [i \in 1 .. n |-> <<>>]
  <2>1. g \in [1 .. n -> Seq(Byte)] /\ UpTo(g, 0)
    OBVIOUS
  <2> HIDE DEF g, UpTo
  <2> QED
    BY <2>1
<1>6. Lacking = {}
  <2> SUFFICES ASSUME Lacking # {} PROVE FALSE
    OBVIOUS
  <2>1. Lacking \subseteq Nat
    OBVIOUS
  <2>2. PICK x \in Lacking : \A y \in Lacking : x <= y
    <3> HIDE DEF Lacking
    <3> QED
      BY <2>1, LeastNumber
  <2>3. x \in Nat /\ x # 0 /\ x <= n
    BY <1>5
  <2>4. x - 1 \in Nat /\ x - 1 \notin Lacking
    BY <2>2, <2>3
  <2> HIDE DEF UpTo
  <2>5. PICK g \in [1 .. n -> Seq(Byte)] : UpTo(g, x - 1)
    BY <1>1, <2>3, <2>4
  <2>6. \E h \in [1 .. n -> Seq(Byte)] : UpTo(h, (x - 1) + 1)
    BY <1>4, <2>3, <2>4, <2>5
  <2> QED
    BY <2>3, <2>6
<1>7. \E g : IsJoined(g)
  <2>1. n \notin Lacking
    BY <1>6
  <2>2. PICK g \in [1 .. n -> Seq(Byte)] : UpTo(g, n)
    <3> HIDE DEF UpTo
    <3> QED
      BY <1>1, <2>1
  <2> HIDE DEF Joined
  <2> QED
    BY <2>2
<1>8. IsJoined(joined)
  <2> HIDE DEF IsJoined
  <2> QED
    BY <1>7
<1> HIDE DEF joined
<1>9. \A i \in 1 .. n : joined[i] = Joined(joined, i)
  BY <1>8
<1>10. \A i \in 1 .. n : joined[i] \in Seq(Byte)
  <2> DEFINE Wrong == {i \in 1 .. n : joined[i] \notin Seq(Byte)}
  <2> SUFFICES ASSUME Wrong # {} PROVE FALSE
    OBVIOUS
  <2>1. Wrong \subseteq Nat
    BY <1>1
  <2>2. PICK i \in Wrong : \A j \in Wrong : i <= j
    <3> HIDE DEF Wrong
    <3> QED
      BY <2>1, LeastNumber
  <2>3. i \in 1 .. n /\ joined[i] \notin Seq(Byte) /\ seqs[i] \in Seq(Byte)
    BY <1>1
  <2>4. i # 1 /\ joined[i] = joined[i - 1] \o seqs[i]
    BY <1>9, <2>3
  <2>5. i - 1 \in 1 .. n /\ i - 1 \notin Wrong
    BY <1>1, <2>2, <2>3, <2>4
  <2>6. joined[i - 1] \in Seq(Byte)
    BY <2>5
  <2>7. joined[i - 1] \o seqs[i] \in Seq(Byte)
    BY <2>3, <2>6
  <2> QED
    BY <2>3, <2>4, <2>7
<1> QED
  BY <1>1, <1>2, <1>3, <1>10

-----------------------------------------------------------------------------
(* What may be written: fields with numbers and bytes where their kind says  *)
(* so, and objects made of such fields.                                      *)
WellFormed(fields) ==
    \A f \in fields :
        /\ f.kind # "absent" => f.id \in Nat
        /\ f.kind = "uint" => f.value \in Nat
        /\ f.kind = "uints" => f.value \in Seq(Nat)
        /\ f.kind = "bytes" => f.value \in Seq(Byte)
        /\ f.kind = "object" => f.value \in Seq(fields)

(* The writer puts bytes together, in the streams of its levels.             *)
WriterInv(fields) ==
    /\ todo \in Seq(Seq(fields))
    /\ streams \in [Out!Level -> Seq(Byte)]
    /\ ids \in [Out!Level -> Nat] /\ lastId \in Nat
    /\ written \in [status : {"idle", "writing", "written", "thrown"}, bytes : Seq(Byte)]
    /\ written.status = "idle" => index = -1
    /\ written.status = "writing" => index \in Out!Level

LEMMA TagType ==
    ASSUME NEW id \in Nat, NEW type \in Nat
    PROVE  Out!Tag(id, type) \in Seq(Byte)
<1>1. id * 8 + type \in Nat
  OBVIOUS
<1> QED
  BY <1>1, WriteVarintType DEF Out!Tag, Out!Types

LEMMA Join ==
    ASSUME NEW a \in Seq(Byte), NEW b \in Seq(Byte)
    PROVE  a \o b \in Seq(Byte)
OBVIOUS

(* The next field is one of those that may be written, and what is left to   *)
(* write after it is of that kind too.                                       *)
LEMMA NextField ==
    ASSUME NEW fields, WellFormed(fields), WriterInv(fields), NEW kind, Out!Pending(kind)
    PROVE  /\ Out!Field \in fields /\ Out!Field.kind = kind
           /\ Out!Advanced \in Seq(Seq(fields))
           /\ index \in Out!Level /\ written.status = "writing"
<1>1. todo \in Seq(Seq(fields)) /\ todo # <<>> /\ Head(todo) # <<>>
  BY DEF WriterInv, Out!Pending
<1> DEFINE first == Head(todo)
<1>2. first \in Seq(fields) /\ Tail(todo) \in Seq(Seq(fields))
  BY <1>1
<1>3. Head(first) \in fields /\ Tail(first) \in Seq(fields)
  <2> HIDE DEF first
  <2>1. first # <<>>
    BY <1>1 DEF first
  <2> QED
    BY <1>2, <2>1
<1> DEFINE rest == Tail(first)
<1>4. <<rest>> \o Tail(todo) \in Seq(Seq(fields))
  <2> HIDE DEF rest, first
  <2>1. rest \in Seq(fields) /\ <<rest>> \in Seq(Seq(fields))
    BY <1>3 DEF rest
  <2> QED
    BY <1>2, <2>1
<1>5. Out!Field.kind = kind /\ written.status = "writing"
  BY DEF Out!Pending, Out!Field, Out!Writing
<1> QED
  BY <1>3, <1>4, <1>5 DEF Out!Field, Out!Advanced, WriterInv

LEMMA PutKeeps ==
    ASSUME NEW fields, WriterInv(fields), index \in Out!Level,
           NEW bytes \in Seq(Byte), Out!Put(bytes), lastId' \in Nat,
           todo' \in Seq(Seq(fields)), UNCHANGED <<ids, index, written>>
    PROVE  WriterInv(fields)'
<1>1. streams[index] \in Seq(Byte)
  BY DEF WriterInv
<1>2. streams[index] \o bytes \in Seq(Byte)
  BY <1>1, Join
<1>3. streams' \in [Out!Level -> Seq(Byte)]
  BY <1>2 DEF Out!Put, WriterInv
<1>4. Out!Level' = Out!Level
  BY DEF Out!Level
<1> QED
  BY <1>3, <1>4 DEF WriterInv

LEMMA WriteUintKeeps ==
    ASSUME NEW fields, WellFormed(fields), WriterInv(fields), Out!WriteUint
    PROVE  WriterInv(fields)'
<1>1. /\ Out!Field \in fields /\ Out!Field.kind = "uint"
      /\ Out!Advanced \in Seq(Seq(fields)) /\ index \in Out!Level
  BY NextField DEF Out!WriteUint
<1>2. Out!Field.id \in Nat /\ Out!Field.value \in Nat
  BY <1>1 DEF WellFormed
<1> DEFINE tag == Out!Tag(Out!Field.id, Out!AsVarint)
           number == Out!WriteVarint[Out!Field.value]
<1>3. tag \in Seq(Byte) /\ number \in Seq(Byte)
  BY <1>2, TagType, WriteVarintType DEF Out!AsVarint
<1>4. /\ Out!Put(tag \o number) /\ lastId' = Out!Field.id /\ todo' = Out!Advanced
      /\ UNCHANGED <<ids, index, written>>
  BY DEF Out!WriteUint
<1> HIDE DEF tag, number
<1>5. tag \o number \in Seq(Byte)
  BY <1>3, Join
<1> QED
  BY <1>1, <1>2, <1>4, <1>5, PutKeeps

LEMMA WriteUintsKeeps ==
    ASSUME NEW fields, WellFormed(fields), WriterInv(fields), Out!WriteUints
    PROVE  WriterInv(fields)'
<1>1. /\ Out!Field \in fields /\ Out!Field.kind = "uints"
      /\ Out!Advanced \in Seq(Seq(fields)) /\ index \in Out!Level
  BY NextField DEF Out!WriteUints
<1>2. Out!Field.id \in Nat /\ Out!Field.value \in Seq(Nat)
  BY <1>1 DEF WellFormed
<1> DEFINE tag == Out!Tag(Out!Field.id, Out!AsVarint)
           values == Out!Field.value
           elements == [i \in DOMAIN values |-> tag \o Out!WriteVarint[values[i]]]
<1>3. tag \in Seq(Byte)
  BY <1>2, TagType DEF Out!AsVarint
<1>4. /\ Out!Put(Out!FlattenSeq(elements)) /\ lastId' = Out!Field.id /\ todo' = Out!Advanced
      /\ UNCHANGED <<ids, index, written>>
  BY DEF Out!WriteUints
<1> HIDE DEF tag
<1>5. elements \in Seq(Seq(Byte))
  <2>1. values \in Seq(Nat)
    BY <1>2
  <2> HIDE DEF values
  <2>2. \A i \in DOMAIN values : tag \o Out!WriteVarint[values[i]] \in Seq(Byte)
    <3> SUFFICES ASSUME NEW i \in DOMAIN values
                 PROVE  tag \o Out!WriteVarint[values[i]] \in Seq(Byte)
      OBVIOUS
    <3> DEFINE number == Out!WriteVarint[values[i]]
    <3>1. values[i] \in Nat
      BY <2>1
    <3>2. number \in Seq(Byte)
      BY <3>1, WriteVarintType
    <3> HIDE DEF number
    <3> QED
      BY <1>3, <3>2, Join DEF number
  <2>3. DOMAIN values = 1 .. Len(values) /\ Len(values) \in Nat
    BY <2>1
  <2> QED
    BY <2>2, <2>3
<1> HIDE DEF elements
<1>6. Out!FlattenSeq(elements) \in Seq(Byte)
  BY <1>5, FlattenType
<1> QED
  BY <1>1, <1>2, <1>4, <1>6, PutKeeps

LEMMA WriteBytesKeeps ==
    ASSUME NEW fields, WellFormed(fields), WriterInv(fields), Out!WriteBytes
    PROVE  WriterInv(fields)'
<1>1. /\ Out!Field \in fields /\ Out!Field.kind = "bytes"
      /\ Out!Advanced \in Seq(Seq(fields)) /\ index \in Out!Level
  BY NextField DEF Out!WriteBytes
<1>2. Out!Field.id \in Nat /\ Out!Field.value \in Seq(Byte)
  BY <1>1 DEF WellFormed
<1> DEFINE tag == Out!Tag(Out!Field.id, Out!AsBytes)
           number == Out!WriteVarint[Len(Out!Field.value)]
           bytes == tag \o number \o Out!Field.value
<1>3. tag \in Seq(Byte) /\ number \in Seq(Byte)
  <2>1. Len(Out!Field.value) \in Nat
    BY <1>2
  <2> QED
    BY <1>2, <2>1, TagType, WriteVarintType DEF Out!AsBytes
<1>4. /\ Out!Put(bytes) /\ lastId' = Out!Field.id /\ todo' = Out!Advanced
      /\ UNCHANGED <<ids, index, written>>
  BY DEF Out!WriteBytes
<1>5. bytes \in Seq(Byte)
  <2> HIDE DEF tag, number
  <2>1. tag \o number \in Seq(Byte)
    BY <1>3, Join
  <2> QED
    BY <1>2, <2>1, Join
<1> HIDE DEF bytes
<1> QED
  BY <1>1, <1>2, <1>4, <1>5, PutKeeps

LEMMA StartObjectWrites ==
    ASSUME NEW fields, WellFormed(fields), WriterInv(fields), Out!StartObject
    PROVE  WriterInv(fields)'
<1>1. /\ Out!Field \in fields /\ Out!Field.kind = "object"
      /\ Out!Advanced \in Seq(Seq(fields)) /\ index \in Out!Level /\ written.status = "writing"
  BY NextField DEF Out!StartObject
<1>2. Out!Field.id \in Nat /\ Out!Field.value \in Seq(fields)
  BY <1>1 DEF WellFormed
<1> DEFINE message == Out!Field.value
           rest == Out!Advanced
<1>3. <<message>> \o rest \in Seq(Seq(fields))
  <2>1. message \in Seq(fields) /\ rest \in Seq(Seq(fields))
    BY <1>1, <1>2
  <2> HIDE DEF message, rest
  <2>2. <<message>> \in Seq(Seq(fields))
    BY <2>1
  <2> QED
    BY <2>1, <2>2
<1>4. /\ todo' = <<message>> \o rest /\ lastId' = Out!Field.id /\ index' = index + 1
      /\ ids' = [ids EXCEPT ![index + 1] = Out!Field.id] /\ MaxDepth - index > 1
      /\ UNCHANGED <<streams, written>>
  BY DEF Out!StartObject
<1> HIDE DEF message, rest
<1>5. index' \in Out!Level
  BY <1>1, <1>4, ReaderAssumption DEF Out!Level
<1>6. ids' \in [Out!Level -> Nat]
  BY <1>2, <1>4 DEF WriterInv
<1>7. Out!Level' = Out!Level
  BY DEF Out!Level
<1> QED
  BY <1>1, <1>2, <1>3, <1>4, <1>5, <1>6, <1>7 DEF WriterInv

LEMMA EndObjectWrites ==
    ASSUME NEW fields, WriterInv(fields), Out!EndObject
    PROVE  WriterInv(fields)'
<1>1. written.status = "writing" /\ index \in Out!Level /\ index > 0 /\ todo # <<>>
  BY DEF Out!EndObject, Out!Writing, WriterInv
<1>2. index - 1 \in Out!Level
  BY <1>1, ReaderAssumption DEF Out!Level
<1> DEFINE inner == streams[index]
           tag == Out!Tag(ids[index], Out!AsBytes)
           number == Out!WriteVarint[Len(inner)]
           outer == streams[index - 1] \o tag \o number \o inner
<1>3. outer \in Seq(Byte)
  <2>1. inner \in Seq(Byte) /\ streams[index - 1] \in Seq(Byte) /\ ids[index] \in Nat
    BY <1>1, <1>2 DEF WriterInv
  <2>2. tag \in Seq(Byte)
    BY <2>1, TagType DEF Out!AsBytes
  <2>3. number \in Seq(Byte)
    BY <2>1, WriteVarintType
  <2> HIDE DEF inner, tag, number
  <2>4. streams[index - 1] \o tag \in Seq(Byte)
    BY <2>1, <2>2, Join
  <2>5. streams[index - 1] \o tag \o number \in Seq(Byte)
    BY <2>3, <2>4, Join
  <2> QED
    BY <2>1, <2>5, Join
<1>4. /\ streams' = [streams EXCEPT ![index - 1] = outer, ![index] = <<>>]
      /\ todo' = Tail(todo) /\ lastId' = ids[index] /\ index' = index - 1
      /\ UNCHANGED <<ids, written>>
  BY DEF Out!EndObject
<1> HIDE DEF outer
<1>5. streams' \in [Out!Level -> Seq(Byte)]
  <2>1. <<>> \in Seq(Byte)
    OBVIOUS
  <2> QED
    BY <1>3, <1>4, <2>1 DEF WriterInv
<1>6. todo' \in Seq(Seq(fields)) /\ lastId' \in Nat
  BY <1>1, <1>4 DEF WriterInv
<1>7. Out!Level' = Out!Level
  BY DEF Out!Level
<1> QED
  BY <1>1, <1>2, <1>4, <1>5, <1>6, <1>7 DEF WriterInv

LEMMA WriterKeeps ==
    ASSUME NEW fields, WellFormed(fields), WriterInv(fields), Out!WriterNext
    PROVE  WriterInv(fields)'
<1>1. Out!Level' = Out!Level
  BY DEF Out!Level
<1>2. CASE Out!OmitAbsent
  <2>1. Out!Advanced \in Seq(Seq(fields))
    BY <1>2, NextField DEF Out!OmitAbsent
  <2> QED
    BY <1>1, <1>2, <2>1 DEF Out!OmitAbsent, WriterInv
<1>3. CASE Out!StartFails
  <2>1. Out!Field \in fields /\ Out!Field.kind = "object"
    BY <1>3, NextField DEF Out!StartFails
  <2>2. Out!Field.id \in Nat
    BY <2>1 DEF WellFormed
  <2>3. written' \in [status : {"idle", "writing", "written", "thrown"}, bytes : Seq(Byte)]
        /\ written'.status = "thrown"
    <3>1. <<>> \in Seq(Byte)
      OBVIOUS
    <3> QED
      BY <1>3, <3>1 DEF Out!StartFails
  <2> QED
    BY <1>1, <1>3, <2>2, <2>3 DEF Out!StartFails, WriterInv
<1>4. CASE Out!TakeSink
  <2>1. 0 \in Out!Level /\ <<>> \in Seq(Byte) /\ <<>> \in Seq(Seq(fields))
    BY ReaderAssumption DEF Out!Level
  <2>2. streams[0] \in Seq(Byte)
    BY <2>1 DEF WriterInv
  <2>3. written' \in [status : {"idle", "writing", "written", "thrown"}, bytes : Seq(Byte)]
        /\ written'.status = "written"
    BY <1>4, <2>2 DEF Out!TakeSink
  <2>4. streams' \in [Out!Level -> Seq(Byte)]
    BY <1>4, <2>1 DEF Out!TakeSink, WriterInv
  <2> QED
    BY <1>1, <1>4, <2>1, <2>3, <2>4 DEF Out!TakeSink, WriterInv
<1> QED
  BY <1>2, <1>3, <1>4, WriteUintKeeps, WriteUintsKeeps, WriteBytesKeeps,
     StartObjectWrites, EndObjectWrites DEF Out!WriterNext

LEMMA ToBytesKeeps ==
    ASSUME NEW fields, WriterInv(fields), NEW message \in Seq(fields), Out!ToBytes(message)
    PROVE  WriterInv(fields)'
<1>1. Out!Level' = Out!Level /\ 0 \in Out!Level
  BY ReaderAssumption DEF Out!Level
<1>2. written.status = "idle" /\ index = -1 /\ index' = 0
  BY DEF Out!ToBytes, WriterInv
<1>3. ids' \in [Out!Level -> Nat]
  BY DEF Out!ToBytes, WriterInv
<1>4. written' \in [status : {"idle", "writing", "written", "thrown"}, bytes : Seq(Byte)]
      /\ written'.status = "writing"
  BY DEF Out!ToBytes, WriterInv
<1>5. <<message>> \in Seq(Seq(fields))
  OBVIOUS
<1> QED
  BY <1>1, <1>2, <1>3, <1>4, <1>5 DEF Out!ToBytes, WriterInv

LEMMA WriterStarts ==
    ASSUME NEW fields, Out!WriterInit
    PROVE  WriterInv(fields)
<1>1. <<>> \in Seq(Byte) /\ <<>> \in Seq(Seq(fields))
  OBVIOUS
<1>2. written \in [status : {"idle", "writing", "written", "thrown"}, bytes : Seq(Byte)]
      /\ written.status = "idle" /\ index = -1
  BY <1>1 DEF Out!WriterInit
<1>3. streams \in [Out!Level -> Seq(Byte)] /\ ids \in [Out!Level -> Nat]
  BY <1>1 DEF Out!WriterInit
<1> QED
  BY <1>1, <1>2, <1>3 DEF Out!WriterInit, WriterInv

-----------------------------------------------------------------------------
(* Whatever is written, and whatever bytes come instead of it, an object is  *)
(* read inside its parent and no span goes back or over its end: for         *)
(* messages of any size, any schema, any number of levels, and integers of   *)
(* any width (read.cpp:226).                                                 *)
THEOREM SpansCorrect ==
    ASSUME NEW fields, WellFormed(fields),
           \A c \in Cases : c.message \in Seq(fields),
           \A bytes \in Seq(Byte) : Arrivals(bytes) \subseteq Seq(Byte)
    PROVE  WireSpec => []SpansNest
<1> DEFINE WireInv == case \in Cases /\ WriterInv(fields) /\ ReaderInv
<1>1. WireInit => WireInv
  BY WriterStarts, ReaderStarts DEF WireInit
<1>2. ASSUME WireInv, [WireNext]_wireVars PROVE WireInv'
  <2>1. ASSUME UNCHANGED rvars PROVE ReaderInv'
    BY <1>2, <2>1, StopKeeps DEF rvars, Reading
  <2>2. ASSUME UNCHANGED wvars PROVE WriterInv(fields)'
    <3>1. Out!Level' = Out!Level
      BY DEF Out!Level
    <3> QED
      BY <1>2, <2>2, <3>1 DEF wvars, WriterInv
  <2>3. CASE Write
    <3>1. case.message \in Seq(fields)
      BY <1>2
    <3>2. WriterInv(fields)'
      BY <1>2, <2>3, <3>1, ToBytesKeeps DEF Write
    <3> QED
      BY <1>2, <2>1, <2>3, <3>2 DEF Write
  <2>4. CASE WriterStep
    <3>1. WriterInv(fields)'
      BY <1>2, <2>4, WriterKeeps DEF WriterStep
    <3> QED
      BY <1>2, <2>1, <2>4, <3>1 DEF WriterStep
  <2>5. CASE Deliver
    <3>1. written.bytes \in Seq(Byte)
      BY <1>2 DEF WriterInv
    <3>2. PICK bytes \in {written.bytes} \union Arrivals(written.bytes) :
                FromBytes(bytes, case.schema)
      BY <2>5 DEF Deliver
    <3>3. bytes \in Seq(Byte)
      BY <3>1
    <3>4. ReaderInv'
      BY <1>2, <3>2, <3>3, FromBytesKeeps
    <3> QED
      BY <1>2, <2>2, <2>5, <3>4 DEF Deliver
  <2>6. CASE ReaderStep
    <3>1. ReaderInv'
      BY <1>2, <2>6, ReaderKeeps DEF ReaderStep
    <3> QED
      BY <1>2, <2>2, <2>6, <3>1 DEF ReaderStep
  <2>7. CASE UNCHANGED wireVars
    BY <1>2, <2>1, <2>2, <2>7 DEF wireVars
  <2> QED
    BY <1>2, <2>3, <2>4, <2>5, <2>6, <2>7 DEF WireNext
<1>3. WireInv => SpansNest
  BY DEF ReaderInv
<1>4. WireInv /\ [WireNext]_wireVars => WireInv'
  BY <1>2
<1> QED
  BY <1>1, <1>3, <1>4, PTL DEF WireSpec

-----------------------------------------------------------------------------
(* The round trip of a number.  The prover knows nothing of powers: these    *)
(* two equations are their definition.                                       *)
PowersOfTwo == 2 ^ 0 = 1 /\ \A a \in Nat : 2 ^ (a + 1) = 2 * 2 ^ a

LEMMA PowerType ==
    ASSUME PowersOfTwo, NEW a \in Nat
    PROVE  2 ^ a \in Nat \ {0}
<1> DEFINE Wrong == {x \in Nat : 2 ^ x \notin Nat \ {0}}
<1> SUFFICES ASSUME Wrong # {} PROVE FALSE
  OBVIOUS
<1>1. Wrong \subseteq Nat
  OBVIOUS
<1>2. PICK x \in Wrong : \A y \in Wrong : x <= y
  <2> HIDE DEF Wrong
  <2> QED
    BY <1>1, LeastNumber
<1>3. x \in Nat /\ x # 0
  <2>1. 2 ^ 0 \in Nat \ {0}
    BY DEF PowersOfTwo
  <2>2. 0 \notin Wrong
    BY <2>1
  <2>3. x \in Nat
    OBVIOUS
  <2> HIDE DEF Wrong
  <2> QED
    BY <2>2, <2>3
<1>4. x - 1 \in Nat /\ x - 1 \notin Wrong
  <2> HIDE DEF Wrong
  <2> QED
    BY <1>2, <1>3
<1>5. 2 ^ (x - 1) \in Nat \ {0}
  BY <1>4
<1>6. 2 ^ x = 2 * 2 ^ (x - 1)
  <2>1. (x - 1) + 1 = x
    BY <1>3
  <2> QED
    BY <1>4, <2>1 DEF PowersOfTwo
<1>7. 2 ^ x \in Nat \ {0}
  BY <1>5, <1>6
<1> QED
  BY <1>7

LEMMA PowerAdds ==
    ASSUME PowersOfTwo, NEW a \in Nat, NEW b \in Nat
    PROVE  2 ^ (a + b) = 2 ^ a * 2 ^ b
<1> DEFINE Wrong == {x \in Nat : 2 ^ (a + x) # 2 ^ a * 2 ^ x}
<1> SUFFICES ASSUME Wrong # {} PROVE FALSE
  OBVIOUS
<1>1. Wrong \subseteq Nat
  OBVIOUS
<1>2. PICK x \in Wrong : \A y \in Wrong : x <= y
  <2> HIDE DEF Wrong
  <2> QED
    BY <1>1, LeastNumber
<1>3. x \in Nat
  OBVIOUS
<1>4. x # 0
  <2>1. a + 0 = a /\ 2 ^ a \in Nat /\ 2 ^ 0 = 1
    BY PowerType DEF PowersOfTwo
  <2>2. 2 ^ a * 1 = 2 ^ a
    BY <2>1
  <2>3. 0 \notin Wrong
    BY <2>1, <2>2
  <2> HIDE DEF Wrong
  <2> QED
    BY <2>3
<1>5. PICK y \in Nat : x = y + 1 /\ y \notin Wrong
  <2> HIDE DEF Wrong
  <2>1. x - 1 \in Nat /\ x = (x - 1) + 1 /\ x - 1 \notin Wrong
    BY <1>2, <1>3, <1>4
  <2> QED
    BY <2>1
<1>6. 2 ^ x = 2 * 2 ^ y /\ 2 ^ (a + x) = 2 * 2 ^ (a + y)
  <2>1. a + x = (a + y) + 1 /\ a + y \in Nat
    BY <1>5
  <2> QED
    BY <1>5, <2>1 DEF PowersOfTwo
<1>7. 2 ^ (a + y) = 2 ^ a * 2 ^ y
  BY <1>5
<1>8. 2 ^ a \in Nat /\ 2 ^ y \in Nat
  BY <1>5, PowerType
<1>9. 2 * (2 ^ a * 2 ^ y) = 2 ^ a * (2 * 2 ^ y)
  <2>1. PICK c \in Nat, d \in Nat : c = 2 ^ a /\ d = 2 ^ y
    BY <1>8
  <2>2. 2 * (c * d) = c * (2 * d)
    OBVIOUS
  <2> QED
    BY <2>1, <2>2
<1>10. 2 ^ (a + x) = 2 ^ a * 2 ^ x
  BY <1>6, <1>7, <1>9
<1> QED
  BY <1>10

LEMMA PowerGrows ==
    ASSUME PowersOfTwo, NEW a \in Nat, NEW b \in Nat, a <= b
    PROVE  2 ^ a <= 2 ^ b
<1>1. PICK c \in Nat : b = a + c
  <2>1. b - a \in Nat /\ b = a + (b - a)
    OBVIOUS
  <2> QED
    BY <2>1
<1>2. 2 ^ b = 2 ^ a * 2 ^ c /\ 2 ^ a \in Nat /\ 2 ^ c \in Nat \ {0}
  BY <1>1, PowerAdds, PowerType
<1>3. PICK x \in Nat, y \in Nat \ {0} : x = 2 ^ a /\ y = 2 ^ c
  BY <1>2
<1>4. x <= x * y
  OBVIOUS
<1> QED
  BY <1>2, <1>3, <1>4

(* The value bits of the byte that write_varint makes of a group.            *)
LEMMA LowOfGroup ==
    ASSUME NEW r \in 0 .. Base - 1
    PROVE  Low(r) = r /\ Low(r + Base) = r
<1>1. PICK b \in Nat : b = Base /\ b > 1
  BY ReaderAssumption
<1>2. r \in Nat /\ r < b
  BY <1>1
<1>3. r % b = r
  BY <1>1, <1>2
<1>4. (r + b) % b = r
  <2>1. PICK d \in Nat, m \in 0 .. b - 1 :
            d = (r + b) \div b /\ m = (r + b) % b /\ r + b = b * d + m
    BY <1>1, <1>2, Division
  <2>2. d = 1
    <3>1. d # 0
      BY <1>1, <1>2, <2>1
    <3>2. ~ (d >= 2)
      <4> SUFFICES ASSUME d >= 2 PROVE FALSE
        OBVIOUS
      <4>1. b * d >= b * 2
        BY <1>1
      <4> QED
        BY <1>1, <1>2, <2>1, <4>1
    <3> QED
      BY <3>1, <3>2
  <2> QED
    BY <1>1, <1>2, <2>1, <2>2
<1> QED
  BY <1>1, <1>3, <1>4 DEF Low

(* The first byte of a number, and the bytes behind it.                      *)
LEMMA FirstByte ==
    ASSUME NEW q \in Nat
    PROVE  LET bytes == Out!WriteVarint[q]
               more  == Out!WriteVarint[q \div Base]
           IN  /\ bytes \in Seq(Byte) /\ Len(bytes) >= 1
               /\ q < Base => Len(bytes) = 1 /\ bytes[1] = q
               /\ ~ (q < Base) =>
                      /\ bytes[1] = (q % Base) + Base
                      /\ q \div Base \in Nat \ {0}
                      /\ Len(bytes) = Len(more) + 1
                      /\ \A j \in 1 .. Len(more) : bytes[j + 1] = more[j]
<1> DEFINE bytes == Out!WriteVarint[q]
           more  == Out!WriteVarint[q \div Base]
<1>1. bytes \in Seq(Byte) /\ bytes = Groups(Out!WriteVarint, q)
  BY WriteVarintType
<1>2. CASE q < Base
  <2>1. bytes = <<q>>
    BY <1>1, <1>2 DEF Groups
  <2> HIDE DEF bytes
  <2>2. Len(bytes) = 1 /\ bytes[1] = q
    BY <2>1
  <2> QED
    BY <1>1, <1>2, <2>2 DEF bytes
<1>3. CASE ~ (q < Base)
  <2> DEFINE byte == (q % Base) + Base
  <2>1. bytes = <<byte>> \o more
    BY <1>1, <1>3 DEF Groups
  <2>2. q \div Base \in Nat \ {0}
    <3>1. PICK b \in Nat : b = Base /\ b > 1
      BY ReaderAssumption
    <3>2. q \div b \in Nat /\ q % b \in 0 .. b - 1 /\ q = b * (q \div b) + (q % b)
      BY <3>1, Division
    <3>3. ~ (q < b)
      BY <1>3, <3>1
    <3>4. q \div b # 0
      <4> SUFFICES ASSUME q \div b = 0 PROVE FALSE
        OBVIOUS
      <4>1. b * (q \div b) = 0
        BY <3>1
      <4> QED
        BY <3>1, <3>2, <3>3, <4>1
    <3> QED
      BY <3>1, <3>2, <3>4
  <2>3. more \in Seq(Byte)
    BY <2>2, WriteVarintType
  <2> HIDE DEF bytes, more, byte
  <2>4. Len(bytes) = Len(more) + 1 /\ bytes[1] = byte
    BY <2>1, <2>3
  <2>5. \A j \in 1 .. Len(more) : bytes[j + 1] = more[j]
    BY <2>1, <2>3
  <2> QED
    BY <1>1, <1>3, <2>2, <2>3, <2>4, <2>5 DEF bytes, more, byte
<1> QED
  BY <1>2, <1>3

(* The value of the bytes before the i-th and what is left of the number for *)
(* the others, which are its encoding.                                       *)
LeftFor(i, q, bytes, value, sums) ==
    LET more == Out!WriteVarint[q]
    IN  /\ q \in Nat /\ (i > 1 => q > 0)
        /\ Len(bytes) = i - 1 + Len(more)
        /\ \A j \in 1 .. Len(more) : bytes[i - 1 + j] = more[j]
        /\ value = sums[i - 1] + 2 ^ ((i - 1) * Group) * q

(* A byte holds the low bits of what is left, which are no more than the     *)
(* number; and it announces another byte unless it is the last.              *)
HoldsLowBits(i, q, bytes, value) ==
    LET n    == Len(bytes)
        unit == 2 ^ ((i - 1) * Group)
    IN  /\ Low(bytes[i]) \in Nat /\ unit \in Nat \ {0}
        /\ unit * Low(bytes[i]) <= value
        /\ i > 1 => unit <= value
        /\ Continues(bytes[i]) <=> i < n
        /\ i = n => bytes[i] = q /\ Low(q) = q
        /\ i < n => Low(bytes[i]) = q % Base /\ bytes[i] >= Base /\ q \div Base \in Nat \ {0}

LEMMA ByteOf ==
    ASSUME PowersOfTwo, NEW value \in Nat, NEW bytes \in Seq(Byte), NEW sums,
           NEW i \in 1 .. Len(bytes), sums[i - 1] \in Nat, NEW q,
           LeftFor(i, q, bytes, value, sums)
    PROVE  HoldsLowBits(i, q, bytes, value)
<1> DEFINE more  == Out!WriteVarint[q]
           unit  == 2 ^ ((i - 1) * Group)
           n     == Len(bytes)
<1>1. q \in Nat /\ n \in Nat /\ Len(more) = n - (i - 1) /\ more \in Seq(Byte) /\ Len(more) >= 1
  BY FirstByte DEF LeftFor
<1>2. bytes[i] = more[1]
  <2>1. 1 \in 1 .. Len(more) /\ i - 1 + 1 = i
    BY <1>1
  <2>2. bytes[i - 1 + 1] = more[1]
    BY <2>1 DEF LeftFor
  <2> QED
    BY <2>1, <2>2
<1>3. PICK b \in Nat : b = Base /\ b > 1
  BY ReaderAssumption
<1>4. q % b \in 0 .. b - 1 /\ q \div b \in Nat /\ q = b * (q \div b) + (q % b) /\ q % b <= q
  <2>1. PICK d \in Nat, m \in 0 .. b - 1 :
            d = q \div b /\ m = q % b /\ q = b * d + m
    <3>1. q \div b \in Nat /\ q % b \in 0 .. b - 1 /\ q = b * (q \div b) + (q % b)
      <4>1. q \in Nat /\ b > 0
        BY <1>1, <1>3
      <4> QED
        BY <4>1, Division
    <3> QED
      BY <3>1
  <2>2. b * d \in Nat
    BY <1>3
  <2> QED
    BY <2>1, <2>2
<1>5. unit \in Nat \ {0}
  <2>1. (i - 1) * Group \in Nat
    BY ShiftGrows
  <2> QED
    BY <2>1, PowerType
<1> HIDE DEF unit
<1>6. sums[i - 1] \in Nat /\ value = sums[i - 1] + unit * q
  BY <1>1 DEF LeftFor, unit
<1>7. PICK s \in Nat, u \in Nat \ {0}, r \in Nat :
            s = sums[i - 1] /\ u = unit /\ r = q /\ value = s + u * r
  BY <1>1, <1>5, <1>6
<1>8. i > 1 => u <= value
  <2> SUFFICES ASSUME i > 1 PROVE u <= value
    OBVIOUS
  <2>1. r > 0
    BY <1>7 DEF LeftFor
  <2>2. PICK x \in Nat : x = u * r /\ u <= x
    BY <1>7, <2>1
  <2> QED
    BY <1>7, <2>2
<1>9. ASSUME NEW low \in Nat, low <= q PROVE u * low <= value
  <2>1. low <= r
    BY <1>7, <1>9
  <2>2. PICK x \in Nat, y \in Nat : x = u * low /\ y = u * r /\ x <= y
    BY <1>9, <2>1
  <2>3. value = s + y
    BY <1>7, <2>2
  <2> QED
    BY <2>2, <2>3
<1>10. CASE q < Base
  <2>1. Len(more) = 1 /\ bytes[i] = q
    BY <1>1, <1>2, <1>10, FirstByte
  <2>2. i = n
    <3>1. n - (i - 1) = 1
      BY <1>1, <2>1
    <3> QED
      BY <3>1
  <2>3. Low(q) = q
    BY <1>1, <1>3, <1>10, LowOfGroup
  <2>4. ~ Continues(q)
    BY <1>1, <1>3, <1>10 DEF Continues
  <2>5. u * Low(q) <= value
    BY <1>1, <1>9, <2>3
  <2> QED
    BY <1>1, <1>5, <1>7, <1>8, <2>1, <2>2, <2>3, <2>4, <2>5 DEF unit, HoldsLowBits
<1>11. CASE ~ (q < Base)
  <2>1. bytes[i] = (q % Base) + Base /\ Len(more) = Len(Out!WriteVarint[q \div Base]) + 1
        /\ q \div Base \in Nat \ {0}
    BY <1>1, <1>2, <1>11, FirstByte
  <2>2. Len(Out!WriteVarint[q \div Base]) >= 1 /\ Len(Out!WriteVarint[q \div Base]) \in Nat
    BY <2>1, FirstByte
  <2>3. i < n
    BY <1>1, <2>1, <2>2
  <2>4. Low(bytes[i]) = q % Base
    BY <1>3, <1>4, <2>1, LowOfGroup
  <2>5. bytes[i] >= Base
    BY <1>3, <1>4, <2>1
  <2>6. q % Base \in Nat /\ u * (q % Base) <= value
    BY <1>1, <1>3, <1>4, <1>9
  <2> QED
    BY <1>1, <1>5, <1>7, <1>8, <2>1, <2>3, <2>4, <2>5, <2>6 DEF unit, Continues, HoldsLowBits
<1> QED
  BY <1>10, <1>11

(* From one byte to the next.                                                *)
LEMMA NextByte ==
    ASSUME PowersOfTwo, NEW value \in Nat, NEW bytes \in Seq(Byte), NEW n \in Nat, n = Len(bytes),
           NEW sums \in [0 .. n -> Nat], NEW i \in 1 .. n, i < n, NEW q,
           sums[i] = sums[i - 1] + Low(bytes[i]) * 2 ^ ((i - 1) * Group),
           LeftFor(i, q, bytes, value, sums)
    PROVE  LeftFor(i + 1, q \div Base, bytes, value, sums)
<1> DEFINE more  == Out!WriteVarint[q]
           next  == Out!WriteVarint[q \div Base]
           unit  == 2 ^ ((i - 1) * Group)
<1>1. q \in Nat /\ Len(bytes) = i - 1 + Len(more) /\ value = sums[i - 1] + unit * q
      /\ \A j \in 1 .. Len(more) : bytes[i - 1 + j] = more[j]
  BY DEF LeftFor
<1>2. Low(bytes[i]) = q % Base /\ q \div Base \in Nat \ {0} /\ unit \in Nat \ {0}
      /\ bytes[i] >= Base
  <2>1. HoldsLowBits(i, q, bytes, value)
    BY ByteOf
  <2> QED
    BY <2>1 DEF HoldsLowBits
<1>3. ~ (q < Base)
  <2> SUFFICES ASSUME q < Base PROVE FALSE
    OBVIOUS
  <2>1. Len(more) = 1
    BY <1>1, FirstByte
  <2> QED
    BY <1>1, <2>1
<1>4. Len(more) = Len(next) + 1 /\ \A j \in 1 .. Len(next) : more[j + 1] = next[j]
  BY <1>1, <1>3, FirstByte
<1>5. Len(next) \in Nat
  <2>1. next \in Seq(Byte)
    BY <1>2, FirstByte
  <2> QED
    BY <2>1
<1> HIDE DEF more, next, unit
<1>6. Len(bytes) = (i + 1) - 1 + Len(next)
  BY <1>1, <1>4, <1>5
<1>7. ASSUME NEW j \in 1 .. Len(next) PROVE bytes[(i + 1) - 1 + j] = next[j]
  <2>1. j + 1 \in 1 .. Len(more) /\ i - 1 + (j + 1) = (i + 1) - 1 + j
    BY <1>4, <1>5
  <2>2. bytes[i - 1 + (j + 1)] = more[j + 1]
    BY <1>1, <2>1
  <2> QED
    BY <1>4, <2>1, <2>2
<1>8. value = sums[i] + 2 ^ (i * Group) * (q \div Base)
  <2>1. PICK b \in Nat : b = Base /\ b > 1
    BY ReaderAssumption
  <2>2. PICK d \in Nat, m \in Nat : d = q \div b /\ m = q % b /\ q = b * d + m
    <3>1. q \div b \in Nat /\ q % b \in 0 .. b - 1 /\ q = b * (q \div b) + (q % b)
      <4>1. q \in Nat /\ b > 0
        BY <1>1, <2>1
      <4> QED
        BY <4>1, Division
    <3> QED
      BY <3>1
  <2>3. 2 ^ (i * Group) = unit * b
    <3>1. PICK g \in Nat, k \in Nat : g = Group /\ k = (i - 1) * g /\ i * g = k + g
      <4>1. PICK g \in Nat, h \in Nat : g = Group /\ h = i - 1
        BY GroupAssumption
      <4>2. h * g \in Nat /\ i * g = h * g + g
        BY <4>1
      <4> QED
        BY <4>1, <4>2
    <3>2. 2 ^ (k + g) = 2 ^ k * 2 ^ g
      BY PowerAdds
    <3> QED
      BY <2>1, <3>1, <3>2 DEF unit, Base
  <2>4. PICK s \in Nat, u \in Nat : s = sums[i - 1] /\ u = unit
    BY <1>2
  <2>5. value = s + u * (b * d + m)
    BY <1>1, <2>2, <2>4
  <2>6. sums[i] = s + m * u
    BY <1>2, <2>1, <2>2, <2>4 DEF unit
  <2>7. s + u * (b * d + m) = (s + m * u) + (u * b) * d
    OBVIOUS
  <2> QED
    BY <2>1, <2>2, <2>3, <2>4, <2>5, <2>6, <2>7
<1>9. q \div Base > 0
  BY <1>2
<1>10. (i + 1) - 1 = i
  OBVIOUS
<1> QED
  BY <1>2, <1>6, <1>7, <1>8, <1>9, <1>10 DEF LeftFor, next

(* Whatever number write_varint writes, protobuf_uvarint reads it back from  *)
(* exactly the bytes that were written, whatever comes behind them, if the   *)
(* type has room for it: not one byte more, nothing refused, for types of    *)
(* any width and any number of bits in a byte.                               *)
THEOREM VarintRoundTrip ==
    ASSUME PowersOfTwo, NEW bits \in Nat \ {0}, NEW value \in Nat, value < 2 ^ bits,
           NEW rest \in Seq(Byte)
    PROVE  Uvarint(bits, Out!WriteVarint[value] \o rest)
                = Read(value, Len(Out!WriteVarint[value]))
<1> DEFINE bytes  == Out!WriteVarint[value]
           stream == bytes \o rest
           n      == Len(bytes)
           Shift(i) == (i - 1) * Group
           leaves == {i \in {j \in DOMAIN stream : Shift(j) < bits} :
                        \/ TooLarge(bits, stream[i], Shift(i))
                        \/ stream[i] = 0 /\ i > 1
                        \/ ~Continues(stream[i])}
           last   == Min(leaves)
<1>1. bytes \in Seq(Byte) /\ n \in Nat \ {0}
  BY FirstByte
<1>2. stream \in Seq(Byte) /\ 1 .. n \subseteq DOMAIN stream
      /\ \A i \in 1 .. n : stream[i] = bytes[i]
  <2> HIDE DEF bytes
  <2>1. stream \in Seq(Byte) /\ Len(stream) = n + Len(rest) /\ Len(rest) \in Nat
    BY <1>1
  <2>2. \A i \in 1 .. n : stream[i] = bytes[i]
    BY <1>1
  <2>3. 1 .. n \subseteq DOMAIN stream
    BY <1>1, <2>1
  <2> QED
    BY <2>1, <2>2, <2>3
<1>3. ASSUME NEW i \in 1 .. n
      PROVE  Low(stream[i]) \in Nat /\ Shift(i) \in Nat /\ 2 ^ Shift(i) \in Nat \ {0}
  <2>1. Shift(i) \in Nat
    BY ShiftGrows
  <2>2. stream[i] \in Nat
    BY <1>1, <1>2, ReaderAssumption DEF Byte
  <2>3. Low(stream[i]) \in Nat
    BY <2>2, ReaderAssumption DEF Low
  <2> QED
    BY <2>1, <2>3, PowerType
<1>4. PICK sums \in [0 .. n -> Nat] :
            /\ sums[0] = 0 /\ sums[n] = Value(stream, n)
            /\ \A i \in 1 .. n : sums[i] = sums[i - 1] + Low(bytes[i]) * 2 ^ Shift(i)
  <2> HIDE DEF bytes, n, stream
  <2>1. \A i \in 1 .. n : Low(stream[i]) * 2 ^ ((i - 1) * Group) \in Nat
    BY <1>3
  <2>2. n \in Nat
    BY <1>1
  <2>3. PICK sums \in [0 .. n -> Nat] :
            /\ sums[0] = 0 /\ sums[n] = Value(stream, n)
            /\ \A i \in 1 .. n :
                    sums[i] = sums[i - 1] + Low(stream[i]) * 2 ^ ((i - 1) * Group)
    BY <2>1, <2>2, ValueSteps
  <2> QED
    BY <1>2, <2>3
<1>5. ASSUME NEW i \in 1 .. n PROVE \E q : LeftFor(i, q, bytes, value, sums)
  <2> DEFINE Wrong == {j \in 1 .. n : ~ \E q : LeftFor(j, q, bytes, value, sums)}
  <2> SUFFICES ASSUME Wrong # {} PROVE FALSE
    OBVIOUS
  <2>1. Wrong \subseteq Nat
    BY <1>1
  <2> HIDE DEF bytes, n
  <2>2. PICK j \in Wrong : \A k \in Wrong : j <= k
    <3> HIDE DEF Wrong
    <3> QED
      BY <2>1, LeastNumber
  <2>3. j \in 1 .. n /\ ~ \E q : LeftFor(j, q, bytes, value, sums)
    OBVIOUS
  <2>4. LeftFor(1, value, bytes, value, sums)
    <3>1. (1 - 1) * Group = 0
      BY GroupAssumption
    <3>2. 2 ^ ((1 - 1) * Group) * value = value
      <4>1. 2 ^ ((1 - 1) * Group) = 1
        BY <3>1 DEF PowersOfTwo
      <4>2. 1 * value = value
        OBVIOUS
      <4> QED
        BY <4>1, <4>2
    <3>3. Len(bytes) = 1 - 1 + Len(bytes) /\ sums[1 - 1] = 0
      BY <1>1, <1>4 DEF n
    <3>4. \A k \in 1 .. Len(bytes) : bytes[1 - 1 + k] = bytes[k]
      BY <1>1 DEF n
    <3> QED
      BY <3>2, <3>3, <3>4 DEF LeftFor, bytes
  <2>5. j # 1
    BY <2>3, <2>4
  <2>6. PICK k \in 1 .. n : j = k + 1 /\ k < n /\ k \notin Wrong
    <3>1. j - 1 \in 1 .. n /\ j = (j - 1) + 1 /\ j - 1 < n
      BY <1>1, <2>3, <2>5
    <3>2. j - 1 \notin Wrong
      <4> HIDE DEF Wrong
      <4> QED
        BY <1>1, <2>1, <2>2
    <3> QED
      BY <3>1, <3>2
  <2>7. PICK q : LeftFor(k, q, bytes, value, sums)
    BY <2>6
  <2>8. LeftFor(k + 1, q \div Base, bytes, value, sums)
    BY <1>1, <1>4, <2>6, <2>7, NextByte DEF n
  <2> QED
    BY <2>3, <2>6, <2>8
<1> HIDE DEF bytes, n, stream, Shift
<1>6. ASSUME NEW i \in 1 .. n, NEW q, LeftFor(i, q, bytes, value, sums)
      PROVE  /\ Low(bytes[i]) \in Nat /\ 2 ^ Shift(i) \in Nat \ {0}
             /\ 2 ^ Shift(i) * Low(bytes[i]) <= value
             /\ i > 1 => 2 ^ Shift(i) <= value
             /\ Continues(bytes[i]) <=> i < n
             /\ i = n => bytes[i] = q /\ Low(q) = q
             /\ i < n => bytes[i] >= Base
  <2>1. n = Len(bytes) /\ bytes \in Seq(Byte) /\ i \in 1 .. Len(bytes) /\ sums[i - 1] \in Nat
    BY <1>1, <1>4 DEF n
  <2>2. HoldsLowBits(i, q, bytes, value)
    BY <1>6, <2>1, ByteOf
  <2> QED
    BY <2>1, <2>2 DEF HoldsLowBits, Shift
<1>7. ASSUME NEW i \in 1 .. n
      PROVE  Shift(i) < bits /\ ~ TooLarge(bits, stream[i], Shift(i))
             /\ (Continues(stream[i]) <=> i < n) /\ ~ (stream[i] = 0 /\ i > 1)
  <2>1. PICK q : LeftFor(i, q, bytes, value, sums)
    BY <1>5
  <2> DEFINE low  == Low(bytes[i])
             unit == 2 ^ Shift(i)
  <2>2. /\ low \in Nat /\ unit \in Nat \ {0} /\ unit * low <= value
        /\ i > 1 => unit <= value
        /\ Continues(bytes[i]) <=> i < n
        /\ i = n => bytes[i] = q
        /\ i < n => bytes[i] >= Base
    BY <1>6, <2>1
  <2>3. Shift(i) < bits
    <3>1. CASE i = 1
      <4>1. (1 - 1) * Group = 0
        BY GroupAssumption
      <4> QED
        BY <3>1, <4>1 DEF Shift
    <3>2. CASE i > 1
      <4> SUFFICES ASSUME bits <= Shift(i) PROVE FALSE
        BY <1>3
      <4>1. 2 ^ bits <= unit
        BY <1>3, PowerGrows
      <4>2. 2 ^ bits \in Nat
        BY PowerType
      <4> QED
        BY <2>2, <3>2, <4>1, <4>2
    <3> QED
      BY <3>1, <3>2
  <2>4. ~ TooLarge(bits, stream[i], Shift(i))
    <3>1. PICK left \in Nat : bits = Shift(i) + left /\ bits - Shift(i) = left
      <4>1. bits - Shift(i) \in Nat /\ bits = Shift(i) + (bits - Shift(i))
        BY <1>3, <2>3
      <4> QED
        BY <4>1
    <3>2. 2 ^ bits = unit * 2 ^ left
      BY <1>3, <3>1, PowerAdds
    <3>3. PICK u \in Nat \ {0}, x \in Nat, l \in Nat :
              u = unit /\ x = 2 ^ left /\ l = low
      BY <2>2, <3>1, PowerType
    <3>4. u * l < u * x
      <4>1. PICK y \in Nat, z \in Nat : y = u * l /\ z = u * x
        BY <3>3
      <4>2. y <= value /\ value < z
        BY <2>2, <3>2, <3>3, <4>1
      <4> QED
        BY <4>1, <4>2
    <3>5. l < x
      <4> SUFFICES ASSUME x <= l PROVE FALSE
        OBVIOUS
      <4>1. u * x <= u * l
        OBVIOUS
      <4> QED
        BY <3>4, <4>1
    <3> QED
      BY <1>2, <3>1, <3>3, <3>5 DEF TooLarge
  <2>5. ~ (stream[i] = 0 /\ i > 1)
    <3> SUFFICES ASSUME stream[i] = 0, i > 1 PROVE FALSE
      OBVIOUS
    <3>1. bytes[i] = 0
      BY <1>2
    <3>2. i = n
      BY <1>1, <2>2, <3>1, ReaderAssumption
    <3>3. q = 0
      BY <2>2, <3>1, <3>2
    <3> QED
      BY <2>1, <3>3 DEF LeftFor
  <2> QED
    BY <1>2, <2>2, <2>3, <2>4, <2>5
<1>8. n \in leaves /\ \A i \in leaves : i \in Nat /\ n <= i
  <2>1. n \in 1 .. n
    BY <1>1
  <2>2. n \in leaves
    BY <1>2, <1>7, <2>1
  <2>3. ASSUME NEW i \in leaves PROVE i \in Nat \ {0} /\ n <= i
    <3>1. i \in 1 .. Len(stream)
      BY <1>2
    <3>2. Len(stream) \in Nat
      BY <1>2
    <3>3. i \in Nat \ {0}
      BY <3>1, <3>2
    <3>4. ~ (i \in 1 .. n /\ i < n)
      BY <1>7
    <3> QED
      BY <1>1, <3>3, <3>4
  <2> QED
    BY <2>2, <2>3
<1>9. last = n
  <2> HIDE DEF leaves
  <2>1. \E x \in leaves : \A y \in leaves : x <= y
    BY <1>8
  <2>2. last \in leaves /\ \A y \in leaves : last <= y
    BY <2>1 DEF Min
  <2>3. last <= n /\ n <= last /\ last \in Nat /\ n \in Nat
    BY <1>1, <1>8, <2>2
  <2> HIDE DEF last
  <2> QED
    BY <2>3
<1>10. Value(stream, n) = value
  <2>1. n \in 1 .. n
    BY <1>1
  <2>2. PICK q : LeftFor(n, q, bytes, value, sums)
    BY <1>5, <2>1
  <2>3. Low(bytes[n]) = q
    BY <1>6, <2>1, <2>2
  <2>4. value = sums[n - 1] + 2 ^ Shift(n) * q /\ q \in Nat
    BY <2>2 DEF LeftFor, Shift
  <2>5. sums[n] = sums[n - 1] + q * 2 ^ Shift(n)
    BY <1>4, <2>1, <2>3
  <2>6. PICK u \in Nat : u = 2 ^ Shift(n)
    BY <1>3, <2>1
  <2>7. u * q = q * u
    BY <2>4
  <2> QED
    BY <1>4, <2>4, <2>5, <2>6, <2>7
<1>11. Uvarint(bits, stream) = Read(Value(stream, last), last)
  <2>1. leaves # {} /\ ~ TooLarge(bits, stream[last], Shift(last))
        /\ ~ (stream[last] = 0 /\ last > 1)
    <3>1. n \in 1 .. n
      BY <1>1
    <3> HIDE DEF leaves, last
    <3> QED
      BY <1>7, <1>8, <1>9, <3>1
  <2> QED
    BY <2>1 DEF Uvarint, Value, Shift
<1> HIDE DEF last
<1> QED
  BY <1>9, <1>10, <1>11 DEF bytes, stream, n

-----------------------------------------------------------------------------
(* expect.                                                                   *)
TypeInv ==
    /\ exists \subseteq Objects
    /\ code \in [Objects -> Errors \union ZeroCodes]
    /\ storage \in [Objects -> Values \union {Gone, Raw}]
    /\ alive \in Int

Inv == TypeInv /\ EachValueDestroyedOnce

(* The types hold in the beginning and after every step, since a value is    *)
(* copied and moved only where there is one.                                 *)
LEMMA TypeStep ==
    ASSUME Inv, [Next]_vars
    PROVE  TypeInv'
<1> USE ExpectAssumption DEF Inv, TypeInv, EachValueDestroyedOnce, HasValue, HasError
<1>1. CASE UNCHANGED vars
  BY <1>1 DEF vars
<1>2. ASSUME NEW o \in Objects, FromError(o) PROVE TypeInv'
  BY <1>2 DEF FromError, Create
<1>3. ASSUME NEW o \in Objects, FromValue(o) PROVE TypeInv'
  BY <1>3 DEF FromValue, Create, Store
<1>4. ASSUME NEW o \in Objects, Destroy(o) PROVE TypeInv'
  BY <1>4 DEF Destroy, DestroyValue
<1>5. ASSUME NEW o \in Objects, MoveOut(o) PROVE TypeInv'
  BY <1>5 DEF MoveOut
<1>6. ASSUME NEW o \in Objects, NEW src \in Objects, CopyFrom(o, src) PROVE TypeInv'
  BY <1>6 DEF CopyFrom, Create, Store
<1>7. ASSUME NEW o \in Objects, NEW src \in Objects, MoveFrom(o, src) PROVE TypeInv'
  BY <1>7 DEF MoveFrom, Create
<1>8. ASSUME NEW o \in Objects, NEW src \in Objects, CopyAssign(o, src) PROVE TypeInv'
  BY <1>8 DEF CopyAssign, Assigning, Store, DropValue, KeepError, DestroyValue, TakeCode
<1>9. ASSUME NEW o \in Objects, NEW src \in Objects, CopyAssignThrows(o, src) PROVE TypeInv'
  BY <1>9 DEF CopyAssignThrows, Assigning
<1>10. ASSUME NEW o \in Objects, NEW src \in Objects, MoveAssign(o, src) PROVE TypeInv'
  BY <1>10 DEF MoveAssign, Assigning, DropValue, KeepError, DestroyValue, TakeCode
<1> QED
  BY <1>1, <1>2, <1>3, <1>4, <1>5, <1>6, <1>7, <1>8, <1>9, <1>10 DEF Next

(* A step that gives or takes the T of one object only, and counts it.       *)
LEMMA Balance ==
    ASSUME Inv, TypeInv', NEW o \in Objects,
           \A p \in Objects \ {o} :
               /\ p \in exists' <=> p \in exists
               /\ p \in Holders' <=> p \in Holders
               /\ storage'[p] = Raw <=> storage[p] = Raw,
           o \in Holders' <=> storage'[o] # Raw,
           alive' = alive + (IF o \in Holders' THEN 1 ELSE 0)
                          - (IF o \in Holders THEN 1 ELSE 0)
    PROVE  EachValueDestroyedOnce'
<1>1. /\ IsFiniteSet(Holders) /\ Holders \subseteq Objects /\ Holders' \subseteq Objects
  BY FS_Subset, ExpectAssumption DEF Inv, TypeInv, Holders
<1>2. Cardinality(Holders) = alive
  BY DEF Inv, EachValueDestroyedOnce
<1>3. Cardinality(Holders') = alive'
  <2>1. CASE o \in Holders' /\ o \notin Holders
    <3>1. Holders' = Holders \union {o}
      BY <1>1, <2>1
    <3>2. Cardinality(Holders \union {o}) = Cardinality(Holders) + 1
      BY <1>1, <2>1, FS_AddElement
    <3>3. alive' = alive + 1
      BY <2>1 DEF Inv, TypeInv
    <3> QED
      BY <1>2, <3>1, <3>2, <3>3
  <2>2. CASE o \notin Holders' /\ o \in Holders
    <3>1. Holders' = Holders \ {o}
      BY <1>1, <2>2
    <3>2. Cardinality(Holders \ {o}) = Cardinality(Holders) - 1
      BY <1>1, <2>2, FS_RemoveElement
    <3>3. alive' = alive - 1
      BY <2>2 DEF Inv, TypeInv
    <3> QED
      BY <1>2, <3>1, <3>2, <3>3
  <2>3. CASE o \in Holders' <=> o \in Holders
    <3>1. Holders' = Holders
      BY <1>1, <2>3
    <3> QED
      BY <1>2, <2>3, <3>1 DEF Inv, TypeInv
  <2> QED
    BY <2>1, <2>2, <2>3
<1>4. \A p \in exists : p \in Holders <=> storage[p] # Raw
  BY DEF Inv, EachValueDestroyedOnce, Holders
<1>5. \A p \in exists' : p \in Holders' <=> storage'[p] # Raw
  BY <1>4 DEF Inv, TypeInv
<1>6. \A p \in Objects \ exists' : storage'[p] = Raw
  <2> TAKE p \in Objects \ exists'
  <2>1. p \notin Holders'
    BY DEF Holders
  <2> QED
    BY <2>1 DEF Inv, EachValueDestroyedOnce
<1> QED
  BY <1>3, <1>5, <1>6 DEF EachValueDestroyedOnce, Holders

LEMMA ValueStep ==
    ASSUME Inv, [Next]_vars
    PROVE  EachValueDestroyedOnce'
<1>1. TypeInv'
  BY TypeStep
<1>2. ASSUME NEW o \in Objects,
             FromError(o) \/ FromValue(o) \/ Destroy(o) \/ MoveOut(o)
      PROVE  EachValueDestroyedOnce'
  <2> USE ExpectAssumption DEF Inv, TypeInv, EachValueDestroyedOnce, Holders, HasValue, HasError
  <2>1. CASE FromError(o)
    BY <1>1, <2>1, Balance DEF FromError, Create
  <2>2. CASE FromValue(o)
    BY <1>1, <2>2, Balance DEF FromValue, Create, Store
  <2>3. CASE Destroy(o)
    BY <1>1, <2>3, Balance DEF Destroy, DestroyValue
  <2>4. CASE MoveOut(o)
    BY <1>1, <2>4, Balance DEF MoveOut
  <2> QED
    BY <1>2, <2>1, <2>2, <2>3, <2>4
<1>3. ASSUME NEW o \in Objects, NEW src \in Objects,
             \/ CopyFrom(o, src) \/ MoveFrom(o, src)
             \/ CopyAssign(o, src) \/ CopyAssignThrows(o, src) \/ MoveAssign(o, src)
      PROVE  EachValueDestroyedOnce'
  <2> USE ExpectAssumption DEF Inv, TypeInv, EachValueDestroyedOnce, Holders, HasValue, HasError
  <2>1. CASE CopyFrom(o, src)
    BY <1>1, <2>1, Balance DEF CopyFrom, Create, Store
  <2>2. CASE MoveFrom(o, src)
    BY <1>1, <2>2, Balance DEF MoveFrom, Create
  <2>3. CASE CopyAssign(o, src)
    BY <1>1, <2>3, Balance
       DEF CopyAssign, Assigning, Store, DropValue, KeepError, DestroyValue, TakeCode
  <2>4. CASE CopyAssignThrows(o, src)
    BY <1>1, <2>4, Balance DEF CopyAssignThrows, Assigning
  <2>5. CASE MoveAssign(o, src)
    BY <1>1, <2>5, Balance
       DEF MoveAssign, Assigning, DropValue, KeepError, DestroyValue, TakeCode
  <2> QED
    BY <1>3, <2>1, <2>2, <2>3, <2>4, <2>5
<1>4. CASE UNCHANGED vars
  BY <1>4 DEF vars, Inv, EachValueDestroyedOnce, Holders, HasValue, HasError
<1> QED
  BY <1>2, <1>3, <1>4 DEF Next

LEMMA InvCorrect == Spec => []Inv
<1>1. Init => Inv
  BY ExpectAssumption, FS_EmptySet
     DEF Init, Inv, TypeInv, EachValueDestroyedOnce, Holders
<1>2. Inv /\ [Next]_vars => Inv'
  BY TypeStep, ValueStep DEF Inv
<1> QED
  BY <1>1, <1>2, PTL DEF Spec

(* No value is lost, destroyed twice or used unconstructed, whatever is      *)
(* assigned to what and whichever copy throws.                               *)
THEOREM ValuesCorrect == Spec => []EachValueDestroyedOnce
<1>1. Inv => EachValueDestroyedOnce
  BY DEF Inv
<1> QED
  BY <1>1, InvCorrect, PTL

-----------------------------------------------------------------------------
R == [o \in Objects |-> AsResult(o)]

(* The result o becomes, the other objects staying what they are.            *)
LEMMA BecomesResult ==
    ASSUME NEW o \in Objects, NEW r, AsResult(o)' = r,
           \A p \in Objects \ {o} : AsResult(p)' = AsResult(p)
    PROVE  Results!Become(o, r)
BY DEF Results!Become

LEMMA MovesResult ==
    ASSUME NEW o \in Objects, NEW src \in Objects, o # src, src \in exists,
           Call("move", o, src), AsResult(o)' = AsResult(src),
           AsResult(src)' = IF HasValue(src) THEN Results!Value(Gone) ELSE AsResult(src),
           \A p \in Objects \ {o, src} : AsResult(p)' = AsResult(p)
    PROVE  Results!Move(o, src)
<1>1. Results!Absent # AsResult(src) /\ (Results!IsValue(AsResult(src)) <=> HasValue(src))
  BY DEF AsResult, Results!Absent, Results!IsValue
<1>2. R[src] = AsResult(src) /\ R[o] = AsResult(o)
  BY DEF R
<1>3. R' = [R EXCEPT ![o] = R[src], ![src] = Results!Moved(@)]
  BY <1>1, <1>2 DEF R, Results!Moved
<1> QED
  BY <1>1, <1>2, <1>3 DEF Results!Move, R, Call, Results!Call

(* Every call does to the results what one of its name and operand should:   *)
(* it makes, copies, moves, spoils or drops one.                             *)
LEMMA ResultStep ==
    ASSUME Inv, [Next]_vars
    PROVE  [Results!Next]_<<R, called>>
<1> USE ExpectAssumption DEF Inv, TypeInv, EachValueDestroyedOnce, HasValue, HasError
<1>0. \A p \in Objects : R[p] = AsResult(p)
  BY DEF R
<1>1. CASE UNCHANGED vars
  BY <1>1 DEF vars, R, AsResult
<1>2. ASSUME NEW o \in Objects, FromError(o) PROVE Results!Make(o)
  <2>1. PICK c \in Errors \union ZeroCodes :
          /\ Call("error", o, c)
          /\ code'[o] = IF c \in ZeroCodes THEN InvalidErrorCode ELSE c
    BY <1>2 DEF FromError
  <2>3. AsResult(o)' = Results!Error(code'[o]) /\ R[o] = Results!Absent
    BY <1>0, <1>2, <2>1 DEF FromError, Create, AsResult, Results!Error, Results!Absent
  <2>2. \A p \in Objects \ {o} : AsResult(p)' = AsResult(p)
    BY <1>2 DEF FromError, Create, AsResult
  <2>4. Results!Become(o, Results!Error(code'[o])) /\ Results!Call("error", o, c)
    BY <2>1, <2>2, <2>3, BecomesResult DEF Call, Results!Call
  <2> QED
    BY <2>1, <2>3, <2>4 DEF Results!Make, R
<1>3. ASSUME NEW o \in Objects, FromValue(o) PROVE Results!Make(o)
  <2>1. PICK v \in Values : Call("value", o, v) /\ Store(o, v)
    BY <1>3 DEF FromValue
  <2>3. AsResult(o)' = Results!Value(v) /\ R[o] = Results!Absent
    BY <1>0, <1>3, <2>1 DEF FromValue, Create, Store, AsResult, Results!Value, Results!Absent
  <2>2. \A p \in Objects \ {o} : AsResult(p)' = AsResult(p)
    BY <1>3 DEF FromValue, Create, Store, AsResult
  <2>4. Results!Become(o, Results!Value(v)) /\ Results!Call("value", o, v)
    BY <2>1, <2>2, <2>3, BecomesResult DEF Call, Results!Call
  <2> QED
    BY <2>3, <2>4 DEF Results!Make, R
<1>4. ASSUME NEW o \in Objects, Destroy(o) PROVE Results!Drop(o)
  <2>1. AsResult(o)' = Results!Absent
    BY <1>4 DEF Destroy, AsResult, Results!Absent
  <2>4. R[o] # Results!Absent
    <3>1. AsResult(o) # Results!Absent
      BY <1>4 DEF Destroy, AsResult, Results!Absent
    <3> QED
      BY <1>0, <3>1
  <2>2. \A p \in Objects \ {o} : AsResult(p)' = AsResult(p)
    BY <1>4 DEF Destroy, DestroyValue, AsResult
  <2>3. Results!Call("destroy", o, o)
    BY <1>4 DEF Destroy, Call, Results!Call
  <2> QED
    BY <2>1, <2>2, <2>3, <2>4, BecomesResult DEF Results!Drop, R
<1>5. ASSUME NEW o \in Objects, NEW src \in Objects,
             (MoveOut(o) /\ src = o) \/ CopyAssignThrows(o, src)
      PROVE  Results!Spoil(o, src)
  <2>1. AsResult(o)' = Results!Value(Gone) /\ Results!IsValue(AsResult(o))
    BY <1>5 DEF MoveOut, CopyAssignThrows, Assigning, AsResult, Results!Value, Results!IsValue
  <2>2. \A p \in Objects \ {o} : AsResult(p)' = AsResult(p)
    BY <1>5 DEF MoveOut, CopyAssignThrows, Assigning, AsResult
  <2>3. IF o = src THEN Results!Call("take", o, src)
        ELSE Results!IsValue(AsResult(src)) /\ Results!Call("fail", o, src)
    BY <1>5 DEF MoveOut, CopyAssignThrows, Assigning, AsResult, Results!IsValue,
                Call, Results!Call
  <2> QED
    BY <1>0, <2>1, <2>2, <2>3, BecomesResult DEF Results!Spoil
<1>6. ASSUME NEW o \in Objects, NEW src \in Objects,
             CopyFrom(o, src) \/ CopyAssign(o, src)
      PROVE  Results!Copy(o, src)
  <2>1. AsResult(o)' = AsResult(src) /\ AsResult(src) # Results!Absent
    <3>1. CASE CopyFrom(o, src)
      BY <3>1 DEF CopyFrom, Create, Store, AsResult, Results!Absent
    <3>2. CASE CopyAssign(o, src)
      BY <3>2 DEF CopyAssign, Assigning, Store, DropValue, KeepError, DestroyValue,
                  TakeCode, AsResult, Results!Absent
    <3> QED
      BY <1>6, <3>1, <3>2
  <2>2. \A p \in Objects \ {o} : AsResult(p)' = AsResult(p)
    BY <1>6 DEF CopyFrom, Create, Store, CopyAssign, Assigning, DropValue, KeepError,
                DestroyValue, TakeCode, AsResult
  <2>3. o # src /\ Results!Call("copy", o, src)
    BY <1>6 DEF CopyFrom, Create, CopyAssign, Assigning, Call, Results!Call
  <2> QED
    BY <1>0, <2>1, <2>2, <2>3, BecomesResult DEF Results!Copy
<1>7. ASSUME NEW o \in Objects, NEW src \in Objects,
             MoveFrom(o, src) \/ MoveAssign(o, src)
      PROVE  Results!Move(o, src)
  <2>1. o # src /\ src \in exists /\ Call("move", o, src)
    BY <1>7 DEF MoveFrom, Create, MoveAssign, Assigning
  <2>2. AsResult(o)' = AsResult(src)
    BY <1>7, <2>1 DEF MoveFrom, Create, MoveAssign, Assigning, DropValue, KeepError,
                DestroyValue, TakeCode, AsResult
  <2>3. AsResult(src)' = IF HasValue(src) THEN Results!Value(Gone) ELSE AsResult(src)
    BY <1>7, <2>1 DEF MoveFrom, Create, MoveAssign, Assigning, DropValue, KeepError,
                DestroyValue, TakeCode, AsResult, Results!Value
  <2>4. \A p \in Objects \ {o, src} : AsResult(p)' = AsResult(p)
    BY <1>7 DEF MoveFrom, Create, MoveAssign, Assigning, DropValue, KeepError,
                DestroyValue, TakeCode, AsResult
  <2> QED
    BY <2>1, <2>2, <2>3, <2>4, MovesResult
<1> QED
  BY <1>1, <1>2, <1>3, <1>4, <1>5, <1>6, <1>7 DEF Next, Results!Next

(* The objects are values or errors that are handed on as they are: each     *)
(* call gives its object what the operand it names was, and changes no other *)
(* object but the one a value was moved from.                                *)
THEOREM Refines == Spec => ImplementsResult
<1>1. Init => Results!Init
  BY DEF Init, Results!Init, Results!Absent, AsResult
<1>2. Inv /\ [Next]_vars => [Results!Next]_<<R, called>>
  BY ResultStep
<1> QED
  BY <1>1, <1>2, InvCorrect, PTL DEF Spec, ImplementsResult, Results!Spec, R

-----------------------------------------------------------------------------
(* equal of two objects, and with a code, is equality of the results: a code *)
(* that stands for no error is in no object that has an error.               *)
THEOREM EqualCorrect == Spec => []EqualIsSameResult
<1>1. Inv => EqualIsSameResult
  <2> SUFFICES ASSUME Inv, NEW o \in exists, NEW p \in exists
               PROVE  /\ Equal(o, p) <=> AsResult(o) = AsResult(p)
                      /\ \A c \in ZeroCodes : ~EqualCode(o, c)
    BY DEF EqualIsSameResult
  <2>1. Equal(o, p) <=> AsResult(o) = AsResult(p)
    BY DEF Equal, AsResult, HasValue, HasError
  <2>2. \A c \in ZeroCodes : ~EqualCode(o, c)
    BY DEF EqualCode, HasError
  <2> QED
    BY <2>1, <2>2
<1> QED
  BY <1>1, InvCorrect, PTL

=============================================================================

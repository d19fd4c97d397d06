------------------------------- MODULE MCWire --------------------------------
(* Wire for TLC, with bytes of 5 bits (4 bits of an integer), and the format *)
(* stated once more, as what a message is and not as how it is read.         *)
EXTENDS Wire, Messages

-----------------------------------------------------------------------------
(* The format.                                                               *)

(* No number here has more bytes than this.                                  *)
Longest == 5

(* The only encoding of a number, and the numbers at the front of a sequence *)
(* of bytes: at most one.                                                    *)
Encoding(n) ==
    LET size == Min({k \in 1 .. Longest : n < Base ^ k})
    IN  [i \in 1 .. size |->
            ((n \div Base ^ (i - 1)) % Base) + (IF i < size THEN Base ELSE 0)]

NumberOf(bytes) ==
    LET Digit(i) == (bytes[i] % Base) * Base ^ (i - 1)
    IN  MapThenSumSet(Digit, DOMAIN bytes)

NumbersIn(bits, bytes) ==
    {n \in {[value |-> NumberOf(front), rest |-> SubSeq(bytes, Len(front) + 1, Len(bytes))] :
                front \in {SubSeq(bytes, 1, k) : k \in 1 .. Min({Longest, Len(bytes)})}} :
        /\ n.value < 2 ^ bits
        /\ bytes = Encoding(n.value) \o n.rest}

(* The bytes of a length-delimited value, and a number of a fixed size.      *)
BytesIn(bytes) ==
    {[value |-> SubSeq(n.rest, 1, n.value),
      rest  |-> SubSeq(n.rest, n.value + 1, Len(n.rest))] :
        n \in {m \in NumbersIn(SizeBits, bytes) : m.value <= Len(m.rest)}}

FixedIn(size, bytes) ==
    LET Part(i) == bytes[i] * (2 * Base) ^ (i - 1)
    IN  IF Len(bytes) < size THEN {}
        ELSE {[value |-> MapThenSumSet(Part, 1 .. size),
               rest  |-> SubSeq(bytes, size + 1, Len(bytes))]}

(* The values a tag of this type may be followed by.                         *)
OfType(type, bytes) ==
    CASE type = 0 -> NumbersIn(SizeBits, bytes)
      [] type = 1 -> FixedIn(Fixed64Size, bytes)
      [] type = 2 -> BytesIn(bytes)
      [] type = 5 -> FixedIn(Fixed32Size, bytes)
      [] OTHER    -> {}

(* The messages of a schema that some bytes stand for, at most one: the      *)
(* values of the fields by their place in the schema.  Whatever the tag says *)
(* of its type, a string, a blob and an object are length-delimited.         *)
RECURSIVE MessagesIn(_, _, _)
MessagesIn(schema, bytes, depth) ==
    LET Fitting(field, type, rest) ==
            CASE field.kind = "uint" ->
                    {v \in OfType(type, rest) : type # 2 /\ v.value <= field.size}
              [] field.kind = "string" -> BytesIn(rest)
              [] field.kind = "blob"   -> {v \in BytesIn(rest) : Len(v.value) = field.size}
              [] OTHER -> UNION {{[value |-> m, rest |-> v.rest] :
                                    m \in MessagesIn(field.fields, v.value, depth + 1)} :
                                 v \in IF depth + 1 < MaxDepth THEN BytesIn(rest) ELSE {}}

        After(rest) == Len(bytes) + 1 - Len(rest)

        Values[from \in 1 .. Len(bytes) + 1, left \in SUBSET DOMAIN schema] ==
            IF from > Len(bytes)
            THEN IF \E i \in left : schema[i].required THEN {} ELSE {NoValues}
            ELSE UNION {
                LET id    == tag.value \div 8
                    type  == tag.value % 8
                    known == {i \in DOMAIN schema : schema[i].id = id}
                IN  IF known = {}
                    THEN UNION {Values[After(v.rest), left] : v \in OfType(type, tag.rest)}
                    ELSE UNION {UNION {
                            {With(values, i, v.value) :
                                values \in Values[After(v.rest), left \ {i}]} :
                            v \in Fitting(schema[i], type, tag.rest)} :
                         i \in known \intersect left} :
                tag \in NumbersIn(TagBits, SubSeq(bytes, from, Len(bytes)))}
    IN  Values[1, DOMAIN schema]

(* The bytes that stand for a message.                                       *)
RECURSIVE BytesOf(_)
BytesOf(message) ==
    LET Tagged(id, type) == Encoding(8 * id + type)
        Sized(bytes) == Encoding(Len(bytes)) \o bytes
        OfField(field) ==
            CASE field.kind = "uint"   -> Tagged(field.id, 0) \o Encoding(field.value)
              [] field.kind = "uints"  ->
                    FlattenSeq([i \in DOMAIN field.value |->
                        Tagged(field.id, 0) \o Encoding(field.value[i])])
              [] field.kind = "bytes"  -> Tagged(field.id, 2) \o Sized(field.value)
              [] field.kind = "object" -> Tagged(field.id, 2) \o Sized(BytesOf(field.value))
              [] OTHER                 -> <<>>
    IN  FlattenSeq([i \in DOMAIN message |-> OfField(message[i])])

RECURSIVE Levels(_)
Levels(message) ==
    1 + Max({0} \union {Levels(message[i].value) :
                            i \in {j \in DOMAIN message : message[j].kind = "object"}})

RECURSIVE ValuesOf(_)
ValuesOf(message) ==
    [i \in {j \in DOMAIN message : message[j].kind # "absent"} |->
        IF message[i].kind = "object" THEN ValuesOf(message[i].value)
        ELSE message[i].value]

-----------------------------------------------------------------------------
(* What is written and read, and how what arrives may differ from it.        *)
Case(message, schema, fits) ==
    [message |-> message, schema |-> schema, fits |-> fits]

Chain(depth) == FoldLeft(LAMBDA inner, i : <<Nested(1, inner)>>, <<>>, [i \in 1 .. depth - 1 |-> i])
ChainSchema(depth) ==
    FoldLeft(LAMBDA inner, i : <<Object(1, inner)>>, <<>>, [i \in 1 .. depth - 1 |-> i])

a == <<10>>             \* looks like the tag of a string
b == <<18, 1>>
user == Identity(<<>>, a, b)
identity == [i \in 1 .. 3 |-> Line(i)]

MCCases ==
    {Case(Initialize, Features, TRUE), Case(Ack(b), Failure, FALSE),
     Case(<<Text(2, a)>>, Failure, TRUE),
     Case(<<Uint(1, 9), Text(2, a)>>, Failure, FALSE),
     Case(<<Text(3, b)>>, SignedIdentity, TRUE),
     Case(<<Text(1, b), Text(2, b)>>, EcdhSession, TRUE),
     Case(<<Nested(1, <<Text(6, b)>>)>>, PublicKey, TRUE),
     Case(<<Nested(1, <<Text(2, a), Text(6, b)>>), Uint(2, 17)>>, PublicKey, FALSE),
     Case(GetPublicKey(<<1, 16, 300>>, a), Features, FALSE),
     Case(SignIdentity(user, a, <<>>, b),
          <<Object(1, identity), Line(2), Line(3), Line(4)>>, TRUE),
     Case(GetEcdhSession(user, b, a),
          <<Object(1, identity), Blob(2, KeySize), Line(3)>>, TRUE),
     Case(<<Nested(1, <<Text(2, b), Absent(1)>>), Nested(2, Ack(a))>>,
          <<Object(1, <<Line(2), Optional(Line(1))>>), Object(2, <<Line(1)>>)>>, TRUE)}
    \union {Case(<<Uint(1, n)>>, ButtonRequest(2 ^ SizeBits - 1), TRUE) :
                n \in {0, 15, 16, 300, 511}}
    \union {Case(<<Uint(1, 400)>>, <<Number(1, 400)>>, TRUE)}
    \union {Case(Chain(d), ChainSchema(d), TRUE) : d \in 2 .. 5}

(* One byte is another, is missing or is added, the end is missing, or the   *)
(* device sends something short of its own.                                  *)
MCArrivals(bytes) ==
    {ReplaceAt(bytes, i, x) : i \in DOMAIN bytes, x \in Byte}
        \union {RemoveAt(bytes, i) : i \in DOMAIN bytes}
        \union {Append(bytes, x) : x \in Byte}
        \union {SubSeq(bytes, 1, i) : i \in DOMAIN bytes}
        \union BoundedSeq(Byte, 1)
        \union {<<x, y, z>> : x \in {2, 8, 10, 13, 9}, y \in Byte, z \in {0, 1, 10, 31}}

-----------------------------------------------------------------------------
(* Properties.                                                               *)

Ended == outcome.status \in {"read", "failed", "thrown"}

(* What to_bytes returns is the message in the format, with every object     *)
(* inside its parent (write.cpp:129); it throws for too many levels.         *)
WritesExactly ==
    /\ written.status = "written" =>
            /\ written.bytes = BytesOf(case.message)
            /\ Levels(case.message) <= MaxDepth
    /\ written.status = "thrown" => Levels(case.message) > MaxDepth

(* from_bytes accepts exactly the messages of the schema: every required     *)
(* field once, no known field twice, unknown ones stepped over, no object    *)
(* over its end (read.cpp:232, read.hpp:367).                                *)
ReadsExactly ==
    Ended => MessagesIn(case.schema, source, 1) =
                IF outcome.status = "read" THEN {outcome.values} ELSE {}

(* What was written comes back when it is read by its own schema, up to one  *)
(* level less than the writer allows (read.cpp:34, write.cpp:108).           *)
RoundTrip ==
    Ended /\ case.fits /\ source = written.bytes =>
        IF Levels(case.message) < MaxDepth
        THEN outcome.status = "read" /\ outcome.values = ValuesOf(case.message)
        ELSE outcome.error = "maximum_depth"

=============================================================================

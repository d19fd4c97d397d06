--------------------------- MODULE ProtobufReader ----------------------------
(* wire::protobuf_reader, driven by wire_read::object and its trackers:      *)
(* from_bytes goes once over the bytes of a message and fills in the fields  *)
(* of a schema, a nested object by a span inside the span of its parent.     *)
(*                                                                           *)
(* A schema is a sequence of fields [id, kind, size, required, fields] as    *)
(* the read_bytes functions of the messages list them.  The kinds are "uint" *)
(* (size is the largest value), "string", "blob" (size bytes) and "object"   *)
(* (read by the schema fields).                                              *)
EXTENDS Varint, SequencesExt

CONSTANTS
    MaxDepth,       \* max_read_depth(), 100 in the code
    TagBits,        \* bits of unsigned, 32 in the code
    SizeBits,       \* bits of size_t, 64 in the code
    Fixed32Size,    \* bytes of a fixed32, 4 in the code
    Fixed64Size     \* bytes of a fixed64, 8 in the code

(* The sizes of the types, which may be any.  That a power of two is a       *)
(* number is arithmetic, and here for the proofs.                            *)
ASSUME ReaderAssumption ==
    /\ MaxDepth \in Nat \ {0, 1} /\ TagBits \in Nat /\ SizeBits \in Nat
    /\ Fixed32Size \in Nat /\ Fixed64Size \in Nat
    /\ Base \in Nat \ {0, 1} /\ \A bits \in 0 .. SizeBits : 2 ^ bits \in Nat

VARIABLES
    source,     \* the bytes of the message
    spans,      \* objects_: for every open object, the part still to read
    open,       \* for every open object its schema, its place in the schema
                \* of its parent, and the fields read so far
    outcome     \* [status, error, values]: what from_bytes returns or throws

rvars == <<source, spans, open, outcome>>

(* The wire types, with the numbers of the format.                           *)
AsVarint  == 0
AsFixed64 == 1
AsBytes   == 2
AsFixed32 == 5
Types     == 8

NoValues == [i \in {} |-> 0]

ReaderInit ==
    /\ source = <<>> /\ spans = <<>> /\ open = <<>>
    /\ outcome = [status |-> "idle", error |-> "none", values |-> NoValues]

(* What from_bytes begins with: a new reader on the bytes, and the outermost *)
(* start_object.                                                             *)
FromBytes(bytes, schema) ==
    /\ outcome.status = "idle"
    /\ outcome' = [outcome EXCEPT !.status = "reading"]
    /\ source' = bytes
    /\ spans' = <<[at |-> 1, end |-> Len(bytes) + 1]>>
    /\ open' = <<[schema |-> schema, place |-> 0, values |-> NoValues]>>

Reading == outcome.status = "reading"

Fail(error) ==
    /\ outcome' = [status |-> IF error = "runtime_error" THEN "thrown" ELSE "failed",
                   error |-> error, values |-> NoValues]
    /\ UNCHANGED <<source, spans, open>>

-----------------------------------------------------------------------------
Span     == Last(spans)
Current   == Last(open)
Rest(at) == SubSeq(source, at, Span.end - 1)

(* The bytes of a length-delimited value at a position of the current span,  *)
(* as a span of their own.                                                   *)
Taken(error, at, end) == [error |-> error, at |-> at, end |-> end]

(* A mutant: the length is not compared with what the object has left.       *)
BytesUnchecked(at) ==
    LET size  == Uvarint(SizeBits, Rest(at))
        start == at + size.used
    IN  IF size.error # "none" THEN Taken(size.error, at, at)
        ELSE IF Len(source) + 1 - start < size.value THEN Taken("invalid_encoding", at, at)
        ELSE Taken("none", start, start + size.value)

Bytes(at) ==
    LET size  == Uvarint(SizeBits, Rest(at))
        start == at + size.used
    IN  IF size.error # "none" THEN Taken(size.error, at, at)
        ELSE IF Span.end - start < size.value THEN Taken("invalid_encoding", at, at)
        ELSE Taken("none", start, start + size.value)

(* key: the tag at the beginning of what is left of the current object.      *)
AtField   == Reading /\ Span.at < Span.end
Key       == Uvarint(TagBits, Rest(Span.at))
AfterKey  == Span.at + Key.used
Type      == Key.value % Types
Id        == Key.value \div Types
Known     == {i \in DOMAIN Current.schema : Current.schema[i].id = Id}
Place     == CHOOSE i \in Known : \A j \in Known : i <= j

KeyFails ==
    /\ AtField /\ Key.error # "none"
    /\ Fail(Key.error)

Advance(at) == spans' = [spans EXCEPT ![Len(spans)].at = at]

(* A number at the tag's type: where it ends, or the error.                  *)
Integer(size) ==
    LET n == CASE Type = AsVarint  -> Uvarint(SizeBits, Rest(AfterKey))
               [] Type = AsFixed32 -> Fixed(Fixed32Size, Rest(AfterKey))
               [] Type = AsFixed64 -> Fixed(Fixed64Size, Rest(AfterKey))
               [] Type = AsBytes   -> Bad("runtime_error")
               [] OTHER            -> Bad("integer")
    IN  IF n.error = "none" /\ n.value > size THEN Bad("smaller_integer") ELSE n

(* protobuf_skip: an unknown field is stepped over by its type.              *)
Skipped ==
    CASE Type = AsBytes   -> Bytes(AfterKey)
      [] Type = AsFixed32 -> LET n == Fixed(Fixed32Size, Rest(AfterKey))
                             IN  Taken(n.error, AfterKey, AfterKey + n.used)
      [] Type = AsFixed64 -> LET n == Fixed(Fixed64Size, Rest(AfterKey))
                             IN  Taken(n.error, AfterKey, AfterKey + n.used)
      [] Type = AsVarint  -> LET n == Uvarint(SizeBits, Rest(AfterKey))
                             IN  Taken(n.error, AfterKey, AfterKey + n.used)
      [] OTHER            -> Taken("unrecognized_type", AfterKey, AfterKey)

SkipField ==
    /\ AtField /\ Key.error = "none" /\ Known = {}
    /\ \/ Skipped.error = "none" /\ Advance(Skipped.end)
          /\ UNCHANGED <<source, open, outcome>>
       \/ Skipped.error # "none" /\ Fail(Skipped.error)

(* tracker::try_read of a field that was read before.                        *)
Duplicate ==
    /\ AtField /\ Key.error = "none" /\ Known # {}
    /\ Place \in DOMAIN Current.values
    /\ Fail("invalid_key")

(* The field the tag names is one of these and was not read yet.             *)
Unread(kinds) ==
    /\ AtField /\ Key.error = "none" /\ Known # {}
    /\ Place \notin DOMAIN Current.values
    /\ Current.schema[Place].kind \in kinds

With(values, place, value) ==
    [i \in DOMAIN values \union {place} |-> IF i = place THEN value ELSE values[i]]

Keep(value) == open' = [open EXCEPT ![Len(open)].values = With(@, Place, value)]

ReadUint ==
    /\ Unread({"uint"})
    /\ LET n == Integer(Current.schema[Place].size) IN
       \/ /\ n.error = "none"
          /\ Keep(n.value) /\ Advance(AfterKey + n.used)
          /\ UNCHANGED <<source, outcome>>
       \/ n.error # "none" /\ Fail(n.error)

(* string and binary do not look at the type in the tag; a blob has to have  *)
(* its exact size.                                                           *)
ReadBytes ==
    /\ Unread({"string", "blob"})
    /\ LET taken == Bytes(AfterKey)
           field == Current.schema[Place]
           fits  == field.kind = "blob" => taken.end - taken.at = field.size
       IN
       \/ /\ taken.error = "none" /\ fits
          /\ Keep(SubSeq(source, taken.at, taken.end - 1)) /\ Advance(taken.end)
          /\ UNCHANGED <<source, outcome>>
       \/ taken.error = "none" /\ ~fits /\ Fail("fixed_binary")
       \/ taken.error # "none" /\ Fail(taken.error)

(* start_object: the depth is raised first, then the object gets its span,   *)
(* which is taken out of the span of its parent.                             *)
StartObject ==
    /\ Unread({"object"})
    /\ LET taken == Bytes(AfterKey) IN
       \/ /\ Len(spans) + 1 < MaxDepth /\ taken.error = "none"
          /\ spans' = Append([spans EXCEPT ![Len(spans)].at = taken.end],
                             [at |-> taken.at, end |-> taken.end])
          /\ open' = Append(open, [schema |-> Current.schema[Place].fields,
                                   place |-> Place, values |-> NoValues])
          /\ UNCHANGED <<source, outcome>>
       \/ Len(spans) + 1 >= MaxDepth /\ Fail("maximum_depth")
       \/ Len(spans) + 1 < MaxDepth /\ taken.error # "none" /\ Fail(taken.error)

Missing(object) ==
    {i \in DOMAIN object.schema :
        object.schema[i].required /\ i \notin DOMAIN object.values}

AtEnd == Reading /\ Span.at = Span.end

MissingKey == AtEnd /\ Missing(Current) # {} /\ Fail("missing_key")

(* end_object of a nested object: it becomes the value of its field.         *)
EndObject ==
    /\ AtEnd /\ Missing(Current) = {} /\ Len(open) > 1
    /\ spans' = Front(spans)
    /\ open' = [Front(open) EXCEPT
            ![Len(open) - 1].values = With(@, Current.place, Current.values)]
    /\ UNCHANGED <<source, outcome>>

(* end_object of the outermost object, and check_complete.                   *)
Complete ==
    /\ AtEnd /\ Missing(Current) = {} /\ Len(open) = 1
    /\ outcome' = [status |-> "read", error |-> "none", values |-> Current.values]
    /\ UNCHANGED <<source, spans, open>>

ReaderNext ==
    \/ KeyFails \/ SkipField \/ Duplicate
    \/ ReadUint \/ ReadBytes \/ StartObject
    \/ MissingKey \/ EndObject \/ Complete

-----------------------------------------------------------------------------
(* Properties.                                                               *)

(* An object is read inside its parent: its span ends before what its parent *)
(* has left to read begins, and no span goes back or over its end            *)
(* (read.cpp:226, the spans handed out by protobuf_bytes).                   *)
SpansNest ==
    /\ Len(spans) = Len(open) /\ Len(spans) < MaxDepth
    /\ \A d \in DOMAIN spans :
        /\ 1 <= spans[d].at /\ spans[d].at <= spans[d].end
        /\ spans[d].end <= Len(source) + 1
    /\ \A d \in 2 .. Len(spans) : spans[d].end = spans[d - 1].at

=============================================================================

--------------------------- MODULE ProtobufWriter ----------------------------
(* wire::protobuf_writer, driven by wire_write::object: an object is written *)
(* field by field into the stream of its level; an object inside it gets the *)
(* stream of the next level, whose bytes go into the outer one, with their   *)
(* length in front, when the inner object ends.                              *)
(*                                                                           *)
(* A message is a sequence of fields [id, kind, value] in the order in which *)
(* the code lists them.  The kinds are "uint", "uints" (an array), "bytes"   *)
(* (strings and blobs), "object" (the value is a message) and "absent" (an   *)
(* optional field without a value).                                          *)
EXTENDS Varint, SequencesExt

CONSTANT MaxDepth       \* levels of objects, 100 in the code

VARIABLES
    todo,       \* the fields still to write, of every open object
    streams,    \* objects_[level].stream
    ids,        \* objects_[level].id
    index,      \* index_, with -1 for the value the code starts with
    lastId,     \* last_id_
    written     \* [status, bytes]: what to_bytes returns

wvars == <<todo, streams, ids, index, lastId, written>>

Level == 0 .. MaxDepth - 1

(* The wire types, with the numbers of the format.                           *)
AsVarint == 0
AsFixed64 == 1
AsBytes == 2
AsFixed32 == 5
Types == 8

Tag(id, type) == WriteVarint[id * Types + type]

Writing == written.status = "writing"

(* The object that is being written has a next field of this kind.           *)
Pending(kind) ==
    /\ Writing /\ todo # <<>> /\ Head(todo) # <<>>
    /\ Head(Head(todo)).kind = kind

Field    == Head(Head(todo))
Advanced == <<Tail(Head(todo))>> \o Tail(todo)

WriterInit ==
    /\ todo = <<>>
    /\ streams = [level \in Level |-> <<>>]
    /\ ids = [level \in Level |-> 0]
    /\ index = -1 /\ lastId = 0
    /\ written = [status |-> "idle", bytes |-> <<>>]

-----------------------------------------------------------------------------
(* What to_bytes begins with: a new writer, and the outermost start_object.  *)
ToBytes(message) ==
    /\ written.status = "idle"
    /\ written' = [written EXCEPT !.status = "writing"]
    /\ index' = index + 1
    /\ ids' = [ids EXCEPT ![index + 1] = lastId]
    /\ todo' = <<message>>
    /\ UNCHANGED <<streams, lastId>>

Put(bytes) == streams' = [streams EXCEPT ![index] = @ \o bytes]

(* unsigned_integer, for a field or for each element of an array, which all  *)
(* have the tag of the field.                                                *)
WriteUint ==
    /\ Pending("uint")
    /\ lastId' = Field.id
    /\ Put(Tag(Field.id, AsVarint) \o WriteVarint[Field.value])
    /\ todo' = Advanced
    /\ UNCHANGED <<ids, index, written>>

WriteUints ==
    /\ Pending("uints")
    /\ lastId' = Field.id
    /\ LET Element(v) == Tag(Field.id, AsVarint) \o WriteVarint[v]
       IN  Put(FlattenSeq([i \in DOMAIN Field.value |-> Element(Field.value[i])]))
    /\ todo' = Advanced
    /\ UNCHANGED <<ids, index, written>>

(* string and binary.                                                        *)
WriteBytes ==
    /\ Pending("bytes")
    /\ lastId' = Field.id
    /\ Put(Tag(Field.id, AsBytes) \o WriteVarint[Len(Field.value)] \o Field.value)
    /\ todo' = Advanced
    /\ UNCHANGED <<ids, index, written>>

OmitAbsent ==
    /\ Pending("absent")
    /\ todo' = Advanced
    /\ UNCHANGED <<streams, ids, index, lastId, written>>

(* A mutant: the level keeps the id the level had before.                    *)
StartObjectKeepsId ==
    /\ Pending("object")
    /\ lastId' = Field.id
    /\ MaxDepth - index > 1
    /\ index' = index + 1
    /\ todo' = <<Field.value>> \o Advanced
    /\ UNCHANGED <<streams, ids, written>>

(* start_object: the id under which the object will be put into the outer    *)
(* one is kept in its level, last_id_ is going to change.                    *)
StartObject ==
    /\ Pending("object")
    /\ lastId' = Field.id
    /\ MaxDepth - index > 1
    /\ index' = index + 1
    /\ ids' = [ids EXCEPT ![index + 1] = Field.id]
    /\ todo' = <<Field.value>> \o Advanced
    /\ UNCHANGED <<streams, written>>

(* Too many levels: to_bytes clears its result and throws.                   *)
StartFails ==
    /\ Pending("object")
    /\ MaxDepth - index <= 1
    /\ lastId' = Field.id
    /\ written' = [status |-> "thrown", bytes |-> <<>>]
    /\ UNCHANGED <<todo, streams, ids, index>>

(* A mutant: the inner stream is not cleared.                                *)
EndObjectUncleared ==
    /\ Writing /\ todo # <<>> /\ Head(todo) = <<>> /\ index > 0
    /\ index' = index - 1
    /\ lastId' = ids[index]
    /\ streams' = [streams EXCEPT
            ![index - 1] = @ \o Tag(ids[index], AsBytes)
                             \o WriteVarint[Len(streams[index])] \o streams[index]]
    /\ todo' = Tail(todo)
    /\ UNCHANGED <<ids, written>>

(* end_object of an inner object: its bytes go into the outer one, and the   *)
(* stream of its level is emptied for the next object.                       *)
EndObject ==
    /\ Writing /\ todo # <<>> /\ Head(todo) = <<>> /\ index > 0
    /\ index' = index - 1
    /\ lastId' = ids[index]
    /\ streams' = [streams EXCEPT
            ![index - 1] = @ \o Tag(ids[index], AsBytes)
                             \o WriteVarint[Len(streams[index])] \o streams[index],
            ![index] = <<>>]
    /\ todo' = Tail(todo)
    /\ UNCHANGED <<ids, written>>

(* end_object of the outermost object, and take_sink.                        *)
TakeSink ==
    /\ Writing /\ todo = <<<<>>>> /\ index = 0
    /\ index' = -1
    /\ written' = [status |-> "written", bytes |-> streams[0]]
    /\ streams' = [streams EXCEPT ![0] = <<>>]
    /\ todo' = <<>>
    /\ UNCHANGED <<ids, lastId>>

WriterNext ==
    \/ WriteUint \/ WriteUints \/ WriteBytes \/ OmitAbsent
    \/ StartObject \/ StartFails \/ EndObject \/ TakeSink

=============================================================================

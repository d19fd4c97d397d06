-------------------------------- MODULE Wire ---------------------------------
(* A message is written by protobuf_writer and what arrives is read by       *)
(* protobuf_reader: the bytes as they were written, or any others that the   *)
(* device may send.                                                          *)
EXTENDS ProtobufReader

CONSTANTS
    Cases,          \* [message, schema]: what is written, and how it is read
    Arrivals(_)     \* the bytes that may arrive in place of those written

VARIABLES
    case,                                           \* the message and the schema
    todo, streams, ids, index, lastId, written      \* the writer

wvars    == <<todo, streams, ids, index, lastId, written>>
wireVars == <<case, wvars, rvars>>

Out == INSTANCE ProtobufWriter

WireInit ==
    /\ case \in Cases
    /\ Out!WriterInit /\ ReaderInit

Write ==
    /\ Out!ToBytes(case.message)
    /\ UNCHANGED <<case, rvars>>

WriterStep == Out!WriterNext /\ UNCHANGED <<case, rvars>>

Deliver ==
    /\ written.status = "written"
    /\ \E bytes \in {written.bytes} \union Arrivals(written.bytes) :
            FromBytes(bytes, case.schema)
    /\ UNCHANGED <<case, wvars>>

ReaderStep == ReaderNext /\ UNCHANGED <<case, wvars>>

WireNext == Write \/ WriterStep \/ Deliver \/ ReaderStep

WireSpec == WireInit /\ [][WireNext]_wireVars

=============================================================================

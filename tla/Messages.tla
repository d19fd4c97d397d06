------------------------------ MODULE Messages -------------------------------
(* The messages of the Trezor protocol as macer lists their fields: for the  *)
(* ones it writes, the message made of given values; for the ones it reads,  *)
(* the schema.                                                               *)
EXTENDS Naturals, Sequences

CONSTANTS KeySize, SignatureSize    \* 33 and 65 bytes in the code

-----------------------------------------------------------------------------
(* wire_write::object, wire_write::field.                                    *)
Uint(id, v)         == [id |-> id, kind |-> "uint",   value |-> v]
Uints(id, v)        == [id |-> id, kind |-> "uints",  value |-> v]
Text(id, v)         == [id |-> id, kind |-> "bytes",  value |-> v]
Nested(id, message) == [id |-> id, kind |-> "object", value |-> message]
Absent(id)          == [id |-> id, kind |-> "absent", value |-> <<>>]

(* initialize and button_ack have no fields, the acknowledgements one.       *)
Initialize == <<>>
Ack(v)     == <<Text(1, v)>>

GetPublicKey(path, curve) == <<Uints(1, path), Text(2, curve)>>

Identity(protocol, user, host) == <<Text(1, protocol), Text(2, user), Text(3, host)>>

SignIdentity(identity, hidden, visual, curve) ==
    <<Nested(1, identity), Text(2, hidden), Text(3, visual), Text(4, curve)>>

GetEcdhSession(identity, peer, curve) ==
    <<Nested(1, identity), Text(2, peer), Text(3, curve)>>

-----------------------------------------------------------------------------
(* wire_read::object, wire::field_.                                          *)
Schema(id, kind, size, required, fields) ==
    [id |-> id, kind |-> kind, size |-> size, required |-> required,
     fields |-> fields]

Blob(id, size)     == Schema(id, "blob", size, TRUE, <<>>)
Line(id)           == Schema(id, "string", 0, TRUE, <<>>)
Number(id, max)    == Schema(id, "uint", max, TRUE, <<>>)
Object(id, fields) == Schema(id, "object", 0, TRUE, fields)
Optional(field)    == [field EXCEPT !.required = FALSE]

(* The code of a button request is any number a size_t has room for.         *)
Failure        == <<Line(2)>>
ButtonRequest(largest) == <<Number(1, largest)>>
Features       == <<>>
PublicKey      == <<Object(1, <<Blob(6, KeySize)>>)>>
SignedIdentity == <<Blob(3, SignatureSize)>>
EcdhSession    == <<Blob(1, KeySize), Blob(2, KeySize)>>

=============================================================================

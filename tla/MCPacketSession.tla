--------------------------- MODULE MCPacketSession ---------------------------
(* PacketSession for TLC.  Messages of one, two and three packets in both    *)
(* directions.                                                               *)
EXTENDS PacketSession

MCLength == [initialize |-> 1, get_public_key |-> 2, get_ecdh_session |-> 2,
             sign_identity |-> 3, features |-> 2, public_key |-> 3,
             ecdh_session |-> 1, signed_identity |-> 2, failure |-> 1]

=============================================================================

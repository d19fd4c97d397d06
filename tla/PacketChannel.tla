---------------------------- MODULE PacketChannel ----------------------------
(* What the framing of messages into packets has to provide: a queue of      *)
(* whole messages.  A message is received as it was sent, in order, at most  *)
(* once; a reader that dies may take the message it was reading with it.     *)
EXTENDS Sequences

CONSTANTS Messages, Nothing

VARIABLES
    channel,   \* messages sent and not yet received or lost
    received   \* the message received last

Init == channel = <<>> /\ received = Nothing

Put == /\ \E m \in Messages : channel' = Append(channel, m)
       /\ UNCHANGED received

Get == /\ channel # <<>>
       /\ received' = Head(channel)
       /\ channel' = Tail(channel)

Lose == /\ channel # <<>>
        /\ channel' = Tail(channel)
        /\ UNCHANGED received

Next == Put \/ Get \/ Lose

Spec == Init /\ [][Next]_<<channel, received>>

=============================================================================

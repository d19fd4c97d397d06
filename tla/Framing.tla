------------------------------- MODULE Framing -------------------------------
(* Messages cut into USB packets and put together again: send_message and    *)
(* send_buffer (the writer), and read_message (the reader) of                *)
(* src/trezor/usb.cpp, joined by a queue of packets as the endpoint of the   *)
(* device holds it.  The header takes 9 bytes of the first packet and 1 byte *)
(* of every other one; 64 is the code's PacketSize.                          *)
(*                                                                           *)
(* A reader may be killed between two packets of a message, and a stray      *)
(* packet may appear.  The process that comes next starts with whatever      *)
(* packet is at the head of the queue.                                       *)
EXTENDS Integers, Sequences

CONSTANTS
    PacketSize,    \* sizeof(buffer)
    Messages,      \* what the writer may send: an id and a body of bytes
    Nothing,       \* no message yet
    MaxQueue,      \* messages the writer runs ahead of the reader
    MaxFaults      \* how many readers are killed or stray packets appear

Byte  == 0..255
Ids   == 0..65535
First == 9         \* offset of the data in the first packet of a message
Rest  == 1         \* offset of the data in the packets that follow

(* The length of a message has four bytes in the header.                     *)
Fits(n) == n \div 16777216 < 256

ASSUME FramingAssumption ==
    /\ PacketSize \in Nat /\ PacketSize > First
    /\ \A m \in Messages : /\ m \in [id : Ids, body : Seq(Byte)]
                           /\ Fits(Len(m.body))
    /\ Nothing \notin Messages
    /\ MaxQueue \in Nat /\ MaxFaults \in Nat

VARIABLES
    bytes,      \* writer: the part of the message not yet written
    buffer,     \* writer: the packet under construction
    wire,       \* packets written and not yet read
    reading,    \* reader: inside the loop of read_message
    id,         \* reader: message id of the first packet
    remaining,  \* reader: bytes of the message still to come
    unpacked,   \* reader: bytes of the message so far
    failed,     \* reader: the last read_message returned invalid_encoding
    faults,     \* number of faults so far
    sent,       \* history: the message sent last
    channel,    \* history: messages sent whose delivery is still possible
    received    \* history: the message delivered last

writerVars == <<bytes, buffer, sent>>
readerVars == <<reading, id, remaining, unpacked, failed, received>>
vars       == <<writerVars, readerVars, wire, faults, channel>>

-----------------------------------------------------------------------------
Least(a, b) == IF a <= b THEN a ELSE b

(* The header as send_message writes it byte by byte, and as read_message    *)
(* takes it apart; 63 and 35 are '?' and '#'.                                *)
Header(i, n) ==
    <<63, 35, 35, i \div 256, i % 256,
      (n \div 16777216) % 256, (n \div 65536) % 256, (n \div 256) % 256, n % 256>>

HeaderId(p)     == p[4] * 256 + p[5]
(* Mutant of HeaderLength: the length counts the header too.                 *)
HeaderLengthWithHeader(p) == p[8] * 256 + p[9] + First

HeaderLength(p) == p[6] * 16777216 + p[7] * 65536 + p[8] * 256 + p[9]
IsFirst(p)      == p[1] = 63 /\ p[2] = 35 /\ p[3] = 35
IsRest(p)       == p[1] = 63

(* Mutant of Fill: a packet padded with what the buffer held before.         *)
FillStale(old, data, offset) ==
    [i \in 1..PacketSize |-> IF i <= offset THEN old[i]
                             ELSE IF i - offset <= Len(data) THEN data[i - offset]
                             ELSE IF i <= Len(old) THEN old[i] ELSE 0]

(* The packet send_buffer makes: what is in front of offset stays, then as   *)
(* much of the message as fits, then zeros up to the end.                    *)
Fill(old, data, offset) ==
    [i \in 1..PacketSize |-> IF i <= offset THEN old[i]
                             ELSE IF i - offset <= Len(data) THEN data[i - offset]
                             ELSE 0]

Drop(data, n) == SubSeq(data, n + 1, Len(data))

Data(p, offset, n) == SubSeq(p, offset + 1, offset + n)

Init ==
    /\ bytes = <<>> /\ buffer = <<>> /\ sent = Nothing
    /\ wire = <<>> /\ channel = <<>>
    /\ reading = FALSE /\ id = 0 /\ remaining = 0 /\ unpacked = <<>>
    /\ failed = FALSE /\ received = Nothing
    /\ faults = 0

-----------------------------------------------------------------------------
SendBuffer(old, data, offset) ==
    /\ buffer' = Fill(old, data, offset)
    /\ wire' = Append(wire, buffer')
    /\ bytes' = Drop(data, Least(Len(data), PacketSize - offset))

SendMessage ==
    /\ bytes = <<>> /\ Len(channel) < MaxQueue
    /\ \E m \in Messages :
         /\ SendBuffer(Header(m.id, Len(m.body)), m.body, First)
         /\ sent' = m /\ channel' = Append(channel, m)
    /\ UNCHANGED <<readerVars, faults>>

SendRest ==
    /\ bytes # <<>>
    /\ SendBuffer(buffer, bytes, Rest)
    /\ UNCHANGED <<readerVars, faults, sent, channel>>

(* The tail of read_message's loop: n bytes of the packet are kept, and a    *)
(* message without remaining bytes goes to its handler.                      *)
Unpack(so_far, packet, offset, left, i) ==
    LET n == Least(PacketSize - offset, left)
        all == so_far \o Data(packet, offset, n)
    IN  /\ remaining' = left - n /\ unpacked' = all
        /\ reading' = (left - n # 0)
        /\ IF left - n = 0
           THEN /\ received' = [id |-> i, body |-> all]
                /\ channel' = IF channel = <<>> THEN <<>> ELSE Tail(channel)
           ELSE UNCHANGED <<received, channel>>

Fails == /\ failed' = TRUE /\ reading' = FALSE
         /\ UNCHANGED <<id, remaining, unpacked, received>>

(* Mutant of ReadFirst: what an interrupted read collected is not dropped.   *)
ReadFirstKeeping ==
    /\ ~reading /\ wire # <<>>
    /\ wire' = Tail(wire)
    /\ LET p == Head(wire) IN
       \/ /\ IsFirst(p)
          /\ id' = HeaderId(p)
          /\ Unpack(unpacked, p, First, HeaderLength(p), HeaderId(p))
          /\ failed' = FALSE
       \/ ~IsFirst(p) /\ Fails /\ UNCHANGED channel
    /\ UNCHANGED <<writerVars, faults>>

ReadFirst ==
    /\ ~reading /\ wire # <<>>
    /\ wire' = Tail(wire)
    /\ LET p == Head(wire) IN
       \/ /\ IsFirst(p)
          /\ id' = HeaderId(p)
          /\ Unpack(<<>>, p, First, HeaderLength(p), HeaderId(p))
          /\ failed' = FALSE
       \/ ~IsFirst(p) /\ Fails /\ UNCHANGED channel
    /\ UNCHANGED <<writerVars, faults>>

ReadRest ==
    /\ reading /\ wire # <<>>
    /\ wire' = Tail(wire)
    /\ LET p == Head(wire) IN
       \/ /\ IsRest(p)
          /\ Unpack(unpacked, p, Rest, remaining, id)
          /\ UNCHANGED <<id, failed>>
       \/ ~IsRest(p) /\ Fails /\ channel' = Tail(channel)
    /\ UNCHANGED <<writerVars, faults>>

Fault == faults < MaxFaults /\ faults' = faults + 1

(* The process dies inside the loop; the message it was reading is lost.     *)
Kill ==
    /\ Fault
    /\ reading /\ reading' = FALSE
    /\ channel' = Tail(channel)
    /\ UNCHANGED <<writerVars, wire, id, remaining, unpacked, failed, received>>

(* The device emits a packet that is no part of a message.                   *)
Noise ==
    /\ Fault
    /\ wire' = Append(wire, [i \in 1..PacketSize |-> 0])
    /\ UNCHANGED <<writerVars, readerVars, channel>>

Write == SendMessage \/ SendRest
Read  == ReadFirst \/ ReadRest
Next  == Write \/ Read \/ Kill \/ Noise

Spec == Init /\ [][Next]_vars

(* The writer finishes a message it began (a write is not given up here) and *)
(* the reader does not pause.                                                *)
FairSpec == Spec /\ WF_vars(SendRest) /\ WF_vars(Read)

-----------------------------------------------------------------------------
(* Properties.                                                               *)

(* The bytes of a message that travel in its last packet.                    *)
InLastPacket(n) ==
    IF n <= PacketSize - First THEN First + n
    ELSE Rest + 1 + ((n - (PacketSize - First) - 1) % (PacketSize - Rest))

(* The rest of the last packet of a message is zeros: neither the header nor *)
(* an earlier part of the message (a passphrase, say) is left in the buffer. *)
PaddingIsZero ==
    bytes = <<>> /\ sent # Nothing =>
        \A i \in (InLastPacket(Len(sent.body)) + 1)..PacketSize : buffer[i] = 0

(* A message is delivered only whole and as it was sent, even by a reader    *)
(* that starts in the middle of somebody else's message.                     *)
Channel == INSTANCE PacketChannel

ImplementsChannel == Channel!Spec

(* No packet but the first of a message starts like a first one.  The        *)
(* protocol has nothing else to tell them apart: a reader that starts in the *)
(* middle of a message that is not like this takes its rest for a message of *)
(* its own.                                                                  *)
Unambiguous ==
    \A m \in Messages : \A k \in 0..Len(m.body) :
        LET d == Drop(m.body, PacketSize - First + k * (PacketSize - Rest))
        IN  ~(Len(d) > 1 /\ d[1] = 35 /\ d[2] = 35)

(* When nothing goes wrong any more and no stray packet is on the wire,      *)
(* every message still on its way arrives.                                   *)
Calm == faults = MaxFaults /\ \A i \in DOMAIN wire : IsRest(wire[i])

EverySentArrives ==
    \A m \in Messages :
        Calm /\ (\E i \in DOMAIN channel : channel[i] = m) ~> received = m

=============================================================================

--------------------------- MODULE PacketSession ---------------------------
(* Sessions of macer with a Trezor at the granularity of packets:            *)
(* send_message, read_message and trezor::usb::run of src/trezor/usb.cpp     *)
(* while runs die between two packets of a message.  What a run leaves in    *)
(* the queues, or in the device's reassembly, the next ones meet.            *)
(*                                                                           *)
(* TrezorSession has the contents of the messages and the prompts; here a    *)
(* message is its kind and the number of its packets.  The device answers a  *)
(* whole message and collects packets the way read_message does; it passes   *)
(* over a packet that continues nothing (external).                          *)
EXTENDS Naturals, Sequences

CONSTANTS
    Length,      \* packets of each kind of message
    MaxFaults    \* how many kills, write timeouts and unpluggings happen

Requests == {"initialize", "get_public_key", "get_ecdh_session", "sign_identity"}
Replies  == {"features", "failure", "public_key", "ecdh_session", "signed_identity"}

ASSUME PacketAssumption ==
    /\ Length \in [Requests \union Replies -> Nat \ {0}]
    /\ MaxFaults \in Nat

VARIABLES
    phase,       \* where the host is in trezor::usb::run
    legacy,      \* the parameter of run
    unwritten,   \* packets of the message the host is writing
    reading,     \* the message read_message has begun, or Idle
    toDevice,    \* packets written, not yet taken by the device
    fromDevice,  \* packets of the device's replies
    device,      \* the message the device has begun, or Idle
    result,      \* the reply run returned as the secret, or Idle
    faults,
    debt,        \* history: packets that interrupted messages still lacked
    spoiled      \* history: runs that came to nothing without a fault of their own

hostVars    == <<phase, legacy, unwritten, reading, result>>
historyVars == <<faults, debt, spoiled>>
vars        == <<hostVars, toDevice, fromDevice, device, historyVars>>

-----------------------------------------------------------------------------
(* Packets and messages.                                                     *)

(* A packet: does it start a message, of which kind, and was the message     *)
(* sent by, or in reply to, the present run.                                 *)
Packet(kind, first, own) == [kind |-> kind, first |-> first, own |-> own]

PacketsOf(kind, own) == [i \in 1..Length[kind] |-> Packet(kind, i = 1, own)]

(* A message some packets of which are still missing.                        *)
Partial(kind, missing, own, intact) ==
    [kind |-> kind, missing |-> missing, own |-> own, intact |-> intact]

Idle == Partial("none", 0, FALSE, FALSE)

Begin(p) == Partial(p.kind, Length[p.kind] - 1, p.own, TRUE)

(* Any packet with '?' in front continues a message, that of another one or  *)
(* the first packet of another one as well.                                  *)
Continue(m, p) ==
    Partial(m.kind, m.missing - 1, m.own, m.intact /\ ~p.first /\ p.kind = m.kind)

AnswerTo(m) ==
    IF ~m.intact THEN "failure"
    ELSE CASE m.kind = "initialize"       -> "features"
           [] m.kind = "get_public_key"   -> "public_key"
           [] m.kind = "get_ecdh_session" -> "ecdh_session"
           [] m.kind = "sign_identity"    -> "signed_identity"

Running   == phase \notin {"returned", "failed"}
ReadPhase == phase \in {"status", "peerKey", "secret"}

Init ==
    /\ phase = "initialize" /\ legacy \in BOOLEAN
    /\ unwritten = PacketsOf("initialize", TRUE)
    /\ reading = Idle /\ result = Idle
    /\ toDevice = <<>> /\ fromDevice = <<>> /\ device = Idle
    /\ faults = 0 /\ debt = 0 /\ spoiled = 0

-----------------------------------------------------------------------------
(* The host.                                                                 *)

AfterWrite == [initialize |-> "status", request |-> IF legacy THEN "secret" ELSE "peerKey",
               ecdh |-> "secret"]

(* Mutant of WritePacket: the loop ends before the last packet.              *)
WriteAllButOne ==
    /\ unwritten # <<>>
    /\ toDevice' = Append(toDevice, Head(unwritten))
    /\ unwritten' = IF Len(unwritten) = 2 THEN <<>> ELSE Tail(unwritten)
    /\ phase' = IF unwritten' = <<>> THEN AfterWrite[phase] ELSE phase
    /\ UNCHANGED <<legacy, reading, result, fromDevice, device, historyVars>>

(* send_buffer, once for each packet.                                        *)
WritePacket ==
    /\ unwritten # <<>>
    /\ toDevice' = Append(toDevice, Head(unwritten))
    /\ unwritten' = Tail(unwritten)
    /\ phase' = IF unwritten' = <<>> THEN AfterWrite[phase] ELSE phase
    /\ UNCHANGED <<legacy, reading, result, fromDevice, device, historyVars>>

(* Counted no further than the property below needs it.                      *)
Spoil == phase' = "failed" /\ spoiled' = IF spoiled > debt THEN spoiled ELSE spoiled + 1

(* Mutant of Refused: a status that comes late is an error.                  *)
RefusedStatus(m) == m.kind = "failure" \/ (m.kind = "features" /\ phase # "status")

(* What the handlers return for a message: an error, no bytes, or a key.     *)
Refused(m) == m.kind = "failure"

(* Mutants of Empty: the status counts as bytes, a signature does not.       *)
EmptyNever(m)    == FALSE
EmptySignature(m) == m.kind \in {"features", "signed_identity"}

Empty(m) == m.kind = "features"

(* What run does with a reply: an error ends it, the first one otherwise is  *)
(* the status whatever it is, and the loops pass over what has no bytes.     *)
Handle(m) ==
    \/ Refused(m) /\ Spoil /\ UNCHANGED <<unwritten, result>>
    \/ /\ ~Refused(m) /\ phase = "status"
       /\ phase' = "request"
       /\ unwritten' = PacketsOf(IF legacy THEN "sign_identity" ELSE "get_public_key", TRUE)
       /\ UNCHANGED <<result, spoiled>>
    \/ /\ ~Refused(m) /\ phase # "status" /\ Empty(m)
       /\ UNCHANGED <<phase, unwritten, result, spoiled>>
    \/ /\ ~Refused(m) /\ phase = "peerKey" /\ ~Empty(m)
       /\ phase' = "ecdh"
       /\ unwritten' = PacketsOf("get_ecdh_session", TRUE)
       /\ UNCHANGED <<result, spoiled>>
    \/ /\ ~Refused(m) /\ phase = "secret" /\ ~Empty(m)
       /\ phase' = "returned" /\ result' = m
       /\ UNCHANGED <<unwritten, spoiled>>

(* A packet more of a message; the last one gives it to its handler.         *)
Collect(m) ==
    IF m.missing = 0 THEN Handle(m) /\ reading' = Idle
    ELSE reading' = m /\ UNCHANGED <<phase, unwritten, result, spoiled>>

ReadFirst ==
    /\ ReadPhase /\ reading = Idle /\ fromDevice # <<>>
    /\ fromDevice' = Tail(fromDevice)
    /\ LET p == Head(fromDevice) IN
       \/ p.first /\ Collect(Begin(p))
       \/ ~p.first /\ Spoil /\ UNCHANGED <<unwritten, reading, result>>
    /\ UNCHANGED <<legacy, toDevice, device, faults, debt>>

ReadRest ==
    /\ ReadPhase /\ reading # Idle /\ fromDevice # <<>>
    /\ fromDevice' = Tail(fromDevice)
    /\ Collect(Continue(reading, Head(fromDevice)))
    /\ UNCHANGED <<legacy, toDevice, device, faults, debt>>

(* The next run; nothing of the one before is known to it.                   *)
Stale(packets) ==
    [i \in DOMAIN packets |-> Packet(packets[i].kind, packets[i].first, FALSE)]

StartRun ==
    /\ ~Running
    /\ phase' = "initialize" /\ legacy' \in BOOLEAN
    /\ unwritten' = PacketsOf("initialize", TRUE)
    /\ result' = Idle
    /\ toDevice' = Stale(toDevice) /\ fromDevice' = Stale(fromDevice)
    /\ device' = Partial(device.kind, device.missing, FALSE, device.intact)
    /\ UNCHANGED <<reading, historyVars>>

-----------------------------------------------------------------------------
(* The device.                                                               *)

Assemble(m) ==
    IF m.missing = 0
    THEN /\ device' = Idle
         /\ fromDevice' = fromDevice \o PacketsOf(AnswerTo(m), m.own)
    ELSE device' = m /\ UNCHANGED fromDevice

DeviceRead ==
    /\ toDevice # <<>>
    /\ toDevice' = Tail(toDevice)
    /\ LET p == Head(toDevice) IN
       \/ device # Idle /\ Assemble(Continue(device, p))
       \/ device = Idle /\ p.first /\ Assemble(Begin(p))
       \/ device = Idle /\ ~p.first /\ UNCHANGED <<device, fromDevice>>
    /\ UNCHANGED <<hostVars, historyVars>>

-----------------------------------------------------------------------------
(* Faults, and the person.                                                   *)

Fault == faults < MaxFaults /\ faults' = faults + 1

Die == phase' = "failed" /\ unwritten' = <<>> /\ reading' = Idle

(* The write of a message that has begun is left with packets missing.       *)
Cut == IF unwritten # <<>> /\ ~Head(unwritten).first THEN Len(unwritten) ELSE 0

(* The process is interrupted anywhere.                                      *)
Kill ==
    /\ Running /\ Fault /\ Die
    /\ debt' = debt + Cut + reading.missing
    /\ UNCHANGED <<legacy, result, toDevice, fromDevice, device, spoiled>>

(* usb::write gives up after a second; the device has the packet all the     *)
(* same, or else it is as if the process had died in front of it.            *)
WriteTimesOut ==
    /\ unwritten # <<>> /\ Fault /\ Die
    /\ toDevice' = Append(toDevice, Head(unwritten))
    /\ debt' = debt + Len(unwritten) - 1
    /\ UNCHANGED <<legacy, result, fromDevice, device, spoiled>>

(* The device is pulled out and plugged in again.                            *)
Unplug ==
    /\ Fault
    /\ toDevice' = <<>> /\ fromDevice' = <<>> /\ device' = Idle
    /\ \/ Running /\ Die
       \/ ~Running /\ UNCHANGED <<phase, unwritten, reading>>
    /\ UNCHANGED <<legacy, result, debt, spoiled>>

(* The host reads, without a timeout, and nothing is going to come.          *)
Hangs == ReadPhase /\ toDevice = <<>> /\ fromDevice = <<>>

GiveUp ==
    /\ Hangs
    /\ Spoil /\ unwritten' = <<>> /\ reading' = Idle
    /\ UNCHANGED <<legacy, result, toDevice, fromDevice, device, faults, debt>>

-----------------------------------------------------------------------------
HostStep == WritePacket \/ ReadFirst \/ ReadRest
Next == \/ HostStep \/ StartRun \/ DeviceRead
        \/ Kill \/ WriteTimesOut \/ Unplug \/ GiveUp

Spec == Init /\ [][Next]_vars

(* The host and the device do not pause; the person interrupts a run that    *)
(* hangs, and runs macer again.                                              *)
FairSpec == Spec /\ WF_vars(HostStep) /\ WF_vars(DeviceRead)
                 /\ WF_vars(GiveUp) /\ WF_vars(StartRun)

-----------------------------------------------------------------------------
(* Properties.                                                               *)

(* A read that has no timeout (usb.cpp:65) hangs only because the device is  *)
(* inside a message whose write was interrupted, and still lacks packets.    *)
HangsInsideCutMessage == Hangs => device.missing > 0 /\ debt > 0

(* An interruption costs no more runs than the message it interrupted had    *)
(* packets left: after that the dialogue is in step again by itself.         *)
DamageIsBounded == spoiled <= debt

(* With one interruption, wherever it strikes, a run that succeeds returns   *)
(* the whole answer to its own request, and leaves nothing behind.           *)
OwnAnswer ==
    phase = "returned" /\ faults <= 1 =>
        /\ result.own /\ result.intact
        /\ result.kind = IF legacy THEN "signed_identity" ELSE "ecdh_session"
        /\ toDevice = <<>> /\ fromDevice = <<>> /\ device = Idle

(* Whoever goes on running macer gets a secret again and again, whatever     *)
(* the interrupted runs left behind.                                         *)
Recovers == []<>(phase = "returned")

=============================================================================

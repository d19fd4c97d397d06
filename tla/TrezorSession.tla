---------------------------- MODULE TrezorSession ----------------------------
(* One session of macer with a Trezor: trezor::usb::run and the handlers of  *)
(* src/trezor/usb.cpp, at the granularity of whole messages.  The host, the  *)
(* device and the person at the keyboard (and at the device's buttons) take  *)
(* steps independently.  macer keeps nothing between two runs, but the       *)
(* device and its USB queues outlive the process: a run that is killed, or   *)
(* that gives up on a write, leaves whatever it had asked for behind, and    *)
(* the next run starts on top of it.                                         *)
(*                                                                           *)
(* The device is not part of the repository: its steps are what the code     *)
(* relies on (a reply for each message, prompts for the PIN, the passphrase  *)
(* and the button in that order, a failure for a message out of turn).       *)
EXTENDS Naturals, Sequences

CONSTANTS
    Identities,    \* user@host pairs a password is derived from (host_info)
    Passphrases,   \* passphrases the user may type
    NoPassphrase,  \* the wallet of a device without passphrase protection
    Nothing,       \* a message without contents, no job, no key
    MaxRuns,       \* how many times macer is run
    MaxFaults      \* how many kills, write timeouts and unpluggings happen

ASSUME ConstantsAssumption ==
    /\ NoPassphrase \notin Passphrases
    /\ MaxRuns \in Nat \ {0}
    /\ MaxFaults \in Nat

VARIABLES
    phase,       \* where the host is in trezor::usb::run
    handler,     \* the prompt handler that runs inside read_message, or "none"
    run,         \* the identity and the legacy flag usb::run was called with
    peer,        \* request2.peer_key
    result,      \* the secret usb::run returned, Nothing for an error
    toDevice,    \* messages written, not yet read by the device
    fromDevice,  \* messages the device wrote, not yet read by a host
    waiting,     \* what the device waits for before it goes on with its job
    job,         \* the request the device is working on
    locked,      \* the device wants its PIN
    cached,      \* the passphrase the device holds for its session
    protection,  \* which of "pin" and "passphrase" the owner turned on
    entered,     \* history: the passphrase typed in this run
    approved,    \* history: the key the user approved on the device last
    runs,        \* number of runs started
    faults,      \* number of faults so far
    clean        \* history: this run began with nothing under way and was not interrupted

hostVars   == <<phase, handler, run, peer, result>>
wires      == <<toDevice, fromDevice>>
deviceVars == <<waiting, job, locked, cached, protection>>
counters   == <<runs, faults, clean>>
history    == <<entered, approved, counters>>
vars       == <<hostVars, wires, deviceVars, history>>

-----------------------------------------------------------------------------
(* What the device derives.  A key is named by what it was derived from.     *)

Wallets == Passphrases \union {NoPassphrase}

PublicKey(who, wallet) ==
    [kind |-> "public", who |-> who, peer |-> Nothing, wallet |-> wallet]

EcdhKey(who, with, wallet) ==
    [kind |-> "ecdh", who |-> who, peer |-> with, wallet |-> wallet]

Signature(who, wallet) ==
    [kind |-> "signature", who |-> who, peer |-> Nothing, wallet |-> wallet]

PublicKeys == {PublicKey(who, w) : who \in Identities, w \in Wallets}
Peers      == PublicKeys \union {Nothing}
EcdhKeys   == {EcdhKey(who, p, w) : who \in Identities, p \in Peers, w \in Wallets}
Signatures == {Signature(who, w) : who \in Identities, w \in Wallets}
Keys       == PublicKeys \union EcdhKeys \union Signatures

(* Mutant of AsPeer: the public key is not copied into the ECDH request.     *)
AsPeerLost(key) == Nothing

(* The bytes usb::run copies into request2.peer_key: any reply is taken, and *)
(* one that is not a public key gives a point that is nobody's public key.   *)
AsPeer(key) == IF key \in PublicKeys THEN key ELSE Nothing

(* The password of an identity and a wallet: what the README calls           *)
(* deterministic.                                                            *)
Password(r, wallet) ==
    IF r.legacy THEN Signature(r.who, wallet)
    ELSE EcdhKey(r.who, PublicKey(r.who, wallet), wallet)

Runs == [who : Identities, legacy : BOOLEAN]

(* The bytes the handlers return for each kind of reply, and the bytes main  *)
(* insists on before it prints a secret.                                     *)
Size(key)   == CASE key.kind = "public" -> 33
                 [] key.kind = "ecdh" -> 32
                 [] key.kind = "signature" -> 64
PassSize(r) == IF r.legacy THEN 64 ELSE 32

-----------------------------------------------------------------------------
(* Messages.                                                                 *)

Message(id, body) == [id |-> id, body |-> body]

Initialize         == Message("initialize", Nothing)
ButtonAck          == Message("button_ack", Nothing)
PinMatrixAck(ok)   == Message("pin_matrix_ack", [right |-> ok])
PassphraseAck(pp)  == Message("passphrase_ack", pp)
GetPublicKey(who)  == Message("get_public_key", [who |-> who])
SignIdentity(who)  == Message("sign_identity", [who |-> who])
GetEcdhSession(who, with) ==
    Message("get_ecdh_session", [who |-> who, peer |-> with])

Requests == {GetPublicKey(who) : who \in Identities}
              \union {SignIdentity(who) : who \in Identities}
              \union {GetEcdhSession(who, p) : who \in Identities, p \in Peers}

HostMessages == {Initialize, ButtonAck} \union {PinMatrixAck(ok) : ok \in BOOLEAN}
                  \union {PassphraseAck(pp) : pp \in Passphrases} \union Requests

KeyIds     == {"public_key", "ecdh_session", "signed_identity"}
PromptIds  == {"pin_matrix_request", "passphrase_request", "button_request"}
\* failure has a handler that returns an error, success has no handler, and a
\* reply that does not decode is an error too.
RefusalIds == {"failure", "success", "malformed"}

DeviceMessages ==
    {Message(id, Nothing) : id \in {"features"} \union PromptIds \union RefusalIds}
      \union {Message(id, k) : id \in KeyIds, k \in Keys}

-----------------------------------------------------------------------------
Running       == phase # "returned"
ReadPhases    == {"status", "peerKey", "secret"}
Phases        == ReadPhases \union {"initialize", "request", "ecdh", "returned"}

Init ==
    /\ phase = "initialize" /\ handler = "none"
    /\ run \in Runs
    /\ peer = Nothing /\ result = Nothing
    /\ toDevice = <<>> /\ fromDevice = <<>>
    /\ waiting = "none" /\ job = Nothing
    /\ protection \in SUBSET {"pin", "passphrase"}
    /\ locked = ("pin" \in protection)
    /\ cached = NoPassphrase
    /\ entered = NoPassphrase /\ approved = Nothing
    /\ runs = 1 /\ faults = 0 /\ clean = TRUE

-----------------------------------------------------------------------------
(* The host.                                                                 *)

Send(m) == toDevice' = Append(toDevice, m) /\ UNCHANGED fromDevice

Return(key) ==
    /\ phase' = "returned" /\ handler' = "none" /\ result' = key

(* Mutant of ReadEmpty: the loop around the public key is left after any     *)
(* message.                                                                  *)
ReadEmptyLeaves ==
    /\ phase' = CASE phase = "status"  -> "request"
                  [] phase = "peerKey" -> "ecdh"
                  [] OTHER -> phase
    /\ handler' = "none"

(* read_message came back without an error and without bytes: run goes on    *)
(* after the first reply to Initialize, and reads on inside its two loops.   *)
ReadEmpty ==
    /\ phase' = IF phase = "status" THEN "request" ELSE phase
    /\ handler' = "none"

(* Mutant of SendInitialize: the status is not read.                         *)
SendInitializeBlind ==
    /\ phase = "initialize"
    /\ Send(Initialize)
    /\ phase' = "request"
    /\ UNCHANGED <<handler, run, peer, result, deviceVars, history>>

SendInitialize ==
    /\ phase = "initialize"
    /\ Send(Initialize)
    /\ phase' = "status"
    /\ UNCHANGED <<handler, run, peer, result, deviceVars, history>>

(* Mutant of SendRequest: the legacy branch asks for the public key.         *)
SendRequestWrong ==
    /\ phase = "request"
    /\ Send(GetPublicKey(run.who))
    /\ phase' = IF run.legacy THEN "secret" ELSE "peerKey"
    /\ UNCHANGED <<handler, run, peer, result, deviceVars, history>>

SendRequest ==
    /\ phase = "request"
    /\ Send(IF run.legacy THEN SignIdentity(run.who) ELSE GetPublicKey(run.who))
    /\ phase' = IF run.legacy THEN "secret" ELSE "peerKey"
    /\ UNCHANGED <<handler, run, peer, result, deviceVars, history>>

SendEcdh ==
    /\ phase = "ecdh"
    /\ Send(GetEcdhSession(run.who, peer))
    /\ phase' = "secret"
    /\ UNCHANGED <<handler, run, peer, result, deviceVars, history>>

(* The read of one message.  It has no timeout: the host stays here until    *)
(* the device writes.                                                        *)
Receive(ids) ==
    /\ phase \in ReadPhases /\ handler = "none"
    /\ fromDevice # <<>>
    /\ Head(fromDevice).id \in ids
    /\ fromDevice' = Tail(fromDevice)
    /\ UNCHANGED <<toDevice, run, deviceVars, history>>

ReadFeatures ==
    /\ Receive({"features"})
    /\ ReadEmpty
    /\ UNCHANGED <<peer, result>>

(* Mutant of ReadPrompt: a failure is dispatched like a prompt.              *)
ReadPromptOrFailure ==
    /\ Receive(PromptIds \union RefusalIds)
    /\ handler' = Head(fromDevice).id
    /\ UNCHANGED <<phase, peer, result>>

ReadPrompt ==
    /\ Receive(PromptIds)
    /\ handler' = Head(fromDevice).id
    /\ UNCHANGED <<phase, peer, result>>

(* Mutant of ReadKey: run returns the public key as the secret.              *)
ReadKeyAtOnce ==
    /\ Receive(KeyIds)
    /\ UNCHANGED peer
    /\ \/ phase = "status" /\ ReadEmpty /\ UNCHANGED result
       \/ phase # "status" /\ Return(Head(fromDevice).body)

(* The loops of run take the first reply that has bytes, whichever message   *)
(* it is; the status read takes any reply that is not an error.              *)
ReadKey ==
    /\ Receive(KeyIds)
    /\ LET key == Head(fromDevice).body IN
       \/ /\ phase = "status"
          /\ ReadEmpty
          /\ UNCHANGED <<peer, result>>
       \/ /\ phase = "peerKey"
          /\ phase' = "ecdh" /\ peer' = AsPeer(key)
          /\ UNCHANGED <<handler, result>>
       \/ /\ phase = "secret"
          /\ Return(key)
          /\ UNCHANGED peer

(* Mutant of ReadError: a failure counts as a message without contents.      *)
ReadErrorIgnored ==
    /\ Receive(RefusalIds)
    /\ ReadEmpty
    /\ UNCHANGED <<peer, result>>

ReadError ==
    /\ Receive(RefusalIds)
    /\ Return(Nothing)
    /\ UNCHANGED peer

(* handle_pin, handle_passphrase and handle_button.                          *)
AnswerPin ==
    /\ handler = "pin_matrix_request"
    /\ \E ok \in BOOLEAN : Send(PinMatrixAck(ok))
    /\ ReadEmpty
    /\ UNCHANGED <<run, peer, result, deviceVars, history>>

AnswerPassphrase ==
    /\ handler = "passphrase_request"
    /\ \E pp \in Passphrases : Send(PassphraseAck(pp)) /\ entered' = pp
    /\ ReadEmpty
    /\ UNCHANGED <<run, peer, result, deviceVars, approved, counters>>

(* Mutants of SendButtonAck: no acknowledgement, and two of them.            *)
SendNoButtonAck ==
    /\ handler = "button_request"
    /\ ReadEmpty
    /\ UNCHANGED <<run, peer, result, wires, deviceVars, history>>

SendButtonAckTwice ==
    /\ handler = "button_request"
    /\ toDevice' = toDevice \o <<ButtonAck, ButtonAck>>
    /\ ReadEmpty
    /\ UNCHANGED <<run, peer, result, fromDevice, deviceVars, history>>

SendButtonAck ==
    /\ handler = "button_request"
    /\ Send(ButtonAck)
    /\ ReadEmpty
    /\ UNCHANGED <<run, peer, result, deviceVars, history>>

(* password_prompt fails: end of input, or stdin is not a terminal.          *)
PromptFails ==
    /\ handler \in {"pin_matrix_request", "passphrase_request"}
    /\ Return(Nothing)
    /\ UNCHANGED <<run, peer, wires, deviceVars, history>>

Quiet == toDevice = <<>> /\ fromDevice = <<>> /\ waiting # "owner"

(* macer is started again: nothing of the earlier run is known to it.        *)
StartRun ==
    /\ phase = "returned"
    /\ runs < MaxRuns
    /\ runs' = runs + 1
    /\ run' \in Runs
    /\ phase' = "initialize" /\ peer' = Nothing /\ result' = Nothing
    /\ entered' = NoPassphrase /\ approved' = Nothing /\ clean' = Quiet
    /\ UNCHANGED <<handler, wires, deviceVars, faults>>

-----------------------------------------------------------------------------
(* The device.                                                               *)

Reply(m) == fromDevice' = Append(fromDevice, m)

(* The key a request asks for, with the wallet of the device's session.      *)
KeyFor(request, wallet) ==
    CASE request.id = "get_public_key"   -> PublicKey(request.body.who, wallet)
      [] request.id = "sign_identity"    -> Signature(request.body.who, wallet)
      [] request.id = "get_ecdh_session" ->
           EcdhKey(request.body.who, request.body.peer, wallet)

AnswerId(request) ==
    CASE request.id = "get_public_key"   -> "public_key"
      [] request.id = "sign_identity"    -> "signed_identity"
      [] request.id = "get_ecdh_session" -> "ecdh_session"

Prompt(request, what, id) ==
    /\ waiting' = what /\ job' = request
    /\ Reply(Message(id, Nothing))

Idle == waiting' = "none" /\ job' = Nothing

(* Work on a request until the device needs the host or its owner.           *)
Proceed(request, lock, wallet) ==
    \/ /\ lock
       /\ Prompt(request, "pin", "pin_matrix_request")
    \/ /\ ~lock
       /\ "passphrase" \in protection /\ wallet = NoPassphrase
       /\ Prompt(request, "passphrase", "passphrase_request")
    \/ /\ ~lock
       /\ "passphrase" \in protection => wallet # NoPassphrase
       /\ request.id # "get_public_key"
       /\ Prompt(request, "button", "button_request")
    \/ /\ ~lock
       /\ "passphrase" \in protection => wallet # NoPassphrase
       /\ request.id = "get_public_key"
       /\ Idle
       /\ Reply(Message("public_key", KeyFor(request, wallet)))

Refuse == Idle /\ \E id \in RefusalIds : Reply(Message(id, Nothing))

(* The acknowledgement the device waits for.                                 *)
Expected(m) == \/ m.id = "pin_matrix_ack" /\ waiting = "pin"
               \/ m.id = "passphrase_ack" /\ waiting = "passphrase"
               \/ m.id = "button_ack"     /\ waiting = "button"
               \/ m.id = "initialize"
               \/ m \in Requests          /\ waiting = "none"

Take(m) ==
    /\ toDevice # <<>> /\ m = Head(toDevice)
    /\ toDevice' = Tail(toDevice)
    /\ UNCHANGED <<hostVars, protection, history>>

DeviceInitialize ==
    /\ Take(Initialize)
    /\ Idle /\ cached' = NoPassphrase
    /\ Reply(Message("features", Nothing))
    /\ UNCHANGED locked

DeviceRequest ==
    /\ \E m \in Requests : /\ Take(m) /\ Expected(m)
                           /\ Proceed(m, locked, cached) \/ Refuse
    /\ UNCHANGED <<locked, cached>>

DevicePin ==
    /\ \E ok \in BOOLEAN :
         /\ Take(PinMatrixAck(ok)) /\ waiting = "pin"
         /\ \/ ok  /\ locked' = FALSE /\ Proceed(job, FALSE, cached)
            \/ ~ok /\ Refuse /\ UNCHANGED locked
    /\ UNCHANGED cached

DevicePassphrase ==
    /\ \E pp \in Passphrases :
         /\ Take(PassphraseAck(pp)) /\ waiting = "passphrase"
         /\ cached' = pp
         /\ Proceed(job, FALSE, pp)
    /\ UNCHANGED locked

DeviceButton ==
    /\ Take(ButtonAck) /\ waiting = "button"
    /\ waiting' = "owner"
    /\ UNCHANGED <<fromDevice, job, locked, cached>>

DeviceUnexpected ==
    /\ \E m \in HostMessages : Take(m) /\ ~Expected(m)
    /\ Refuse
    /\ UNCHANGED <<locked, cached>>

(* The owner reads the identity on the screen and presses a button.          *)
OwnerConfirms ==
    /\ waiting = "owner"
    /\ approved' = KeyFor(job, cached)
    /\ Reply(Message(AnswerId(job), KeyFor(job, cached)))
    /\ Idle
    /\ UNCHANGED <<hostVars, toDevice, locked, cached, protection, entered, counters>>

OwnerRejects ==
    /\ waiting = "owner"
    /\ Refuse
    /\ UNCHANGED <<hostVars, toDevice, locked, cached, protection, history>>

-----------------------------------------------------------------------------
(* Faults.                                                                   *)

Fault == faults < MaxFaults /\ faults' = faults + 1

(* The path hash or the encoding of a message fails before anything is       *)
(* written; what was read so far leaves nothing under way.                   *)
SendFails ==
    /\ Fault
    /\ phase \in {"initialize", "request", "ecdh"} /\ handler = "none"
    /\ Return(Nothing)
    /\ UNCHANGED <<run, peer, wires, deviceVars, entered, approved, runs, clean>>

(* The process is interrupted anywhere; the device does not notice.          *)
Kill ==
    /\ Fault
    /\ Running
    /\ Return(Nothing) /\ clean' = FALSE
    /\ UNCHANGED <<run, peer, wires, deviceVars, entered, approved, runs>>

(* usb::write gives up after its timeout of one second.  The last packet may *)
(* have reached the device or not.                                           *)
Outgoing == CASE phase = "initialize" -> {Initialize}
              [] phase = "request"    -> {IF run.legacy THEN SignIdentity(run.who)
                                          ELSE GetPublicKey(run.who)}
              [] phase = "ecdh"       -> {GetEcdhSession(run.who, peer)}
              [] handler = "button_request"     -> {ButtonAck}
              [] handler = "pin_matrix_request" -> {PinMatrixAck(ok) : ok \in BOOLEAN}
              [] handler = "passphrase_request" -> {PassphraseAck(pp) : pp \in Passphrases}
              [] OTHER -> {}

WriteTimesOut ==
    /\ Fault
    /\ \E m \in Outgoing : Send(m) \/ UNCHANGED wires
    /\ Return(Nothing) /\ clean' = FALSE
    /\ UNCHANGED <<run, peer, deviceVars, entered, approved, runs>>

(* The device is pulled out and plugged in again: it forgets everything but  *)
(* its settings, and the transfers of a running host fail.                   *)
Unplug ==
    /\ Fault
    /\ toDevice' = <<>> /\ fromDevice' = <<>>
    /\ Idle /\ cached' = NoPassphrase
    /\ locked' = ("pin" \in protection)
    /\ \/ Running /\ Return(Nothing)
       \/ ~Running /\ UNCHANGED <<phase, handler, result>>
    /\ UNCHANGED <<run, peer, protection, entered, approved, runs, clean>>

-----------------------------------------------------------------------------
HostStep   == \/ SendInitialize \/ SendRequest \/ SendEcdh
              \/ ReadFeatures \/ ReadPrompt \/ ReadKey \/ ReadError
              \/ SendButtonAck

UserStep   == AnswerPin \/ AnswerPassphrase \/ PromptFails

DeviceStep == \/ DeviceInitialize \/ DeviceRequest \/ DevicePin
              \/ DevicePassphrase \/ DeviceButton \/ DeviceUnexpected

OwnerStep  == OwnerConfirms \/ OwnerRejects

FaultStep  == SendFails \/ Kill \/ WriteTimesOut \/ Unplug

Next == HostStep \/ UserStep \/ DeviceStep \/ OwnerStep \/ StartRun \/ FaultStep

Spec == Init /\ [][Next]_vars

(* The host never pauses outside a read or a prompt, the device answers what *)
(* it is sent, and the person answers a prompt and presses a button in the   *)
(* end.  Nobody has to start another run, and no fault has to happen.        *)
Fairness == WF_vars(HostStep) /\ WF_vars(UserStep) /\ WF_vars(DeviceStep)
              /\ WF_vars(OwnerStep)

FairSpec == Spec /\ Fairness

-----------------------------------------------------------------------------
(* Properties.                                                               *)

TypeOK ==
    /\ phase \in Phases /\ handler \in PromptIds \union {"none"}
    /\ run \in Runs /\ peer \in Peers /\ result \in Keys \union {Nothing}
    /\ toDevice \in Seq(HostMessages) /\ fromDevice \in Seq(DeviceMessages)
    /\ waiting \in {"none", "pin", "passphrase", "button", "owner"}
    /\ job \in Requests \union {Nothing}
    /\ locked \in BOOLEAN /\ cached \in Wallets
    /\ protection \in SUBSET {"pin", "passphrase"}
    /\ entered \in Wallets /\ approved \in Keys \union {Nothing}
    /\ runs \in 1..MaxRuns /\ faults \in 0..MaxFaults /\ clean \in BOOLEAN

(* The password is deterministic (README.md:3): a clean run that succeeds    *)
(* printed the key of its own identity and of the passphrase typed in it,    *)
(* although no reply carries the request it answers and run accepts any of   *)
(* them.                                                                     *)
PasswordIsCorrect ==
    clean /\ result # Nothing => result = Password(run, entered)

(* The identity is shown on the device for verification before the password  *)
(* can be generated (README.md:5): the secret a clean run returns is the key *)
(* its owner approved during this run.                                       *)
ConfirmedBeforePassword ==
    clean /\ result # Nothing => approved = result

(* A clean run leaves nothing behind for the next one, however it ends: with *)
(* a password, a refusal, a failed prompt or the device unplugged.           *)
LeavesNothingBehind == clean /\ ~Running => Quiet

(* Runs that are not clean are right too as long as only one fault happened: *)
(* what one interrupted run leaves behind is not enough to mislead the next. *)
RightAfterOneFault ==
    faults <= 1 /\ result # Nothing =>
        /\ result = Password(run, entered) /\ approved = result
        /\ toDevice = <<>> /\ fromDevice = <<>>

(* A read has no timeout (read_buffer passes 0), so a host that reads while  *)
(* the device waits for the host would hang for ever: whenever the host      *)
(* reads, a message is under way or the owner is being asked.                *)
NoMutualWait ==
    phase \in ReadPhases /\ handler = "none" =>
        toDevice # <<>> \/ fromDevice # <<>> \/ waiting = "owner"

(* What README.md:5 says of the printed password, with main's check of the   *)
(* secret's size: it was shown on the device and approved first.             *)
PrintedWasConfirmed ==
    result # Nothing /\ Size(result) >= PassSize(run) => approved = result

(* A run ends, with a password or an error, if the device answers and its    *)
(* owner reacts.                                                             *)
RunEnds == Running ~> ~Running

(* The runs a promise is made for: those that found the wires empty and the  *)
(* device idle, and every other one while there was a single fault.  After   *)
(* two interrupted runs a third may print anything.                          *)
Promised == clean \/ faults <= 1

(* The session implements PasswordService: what it delivers is the password  *)
(* of a promised run, and nothing is said of what another run prints.        *)
Service == INSTANCE PasswordService WITH
    running <- Running, run <- run, entered <- entered, approved <- approved,
    password <- IF Promised THEN result ELSE Nothing,
    Runs <- Runs, Entries <- Passphrases, Keys <- Keys,
    NoEntry <- NoPassphrase, Nothing <- Nothing, KeyOf <- Password

ImplementsService == Service!Spec

-----------------------------------------------------------------------------
(* Why a clean run is correct: the host and the device move in step, with at *)
(* most one message between them, and it is the one that the host's phase    *)
(* and the device's dialogue call for.                                       *)

Current == IF phase = "peerKey" THEN GetPublicKey(run.who)
           ELSE IF run.legacy THEN SignIdentity(run.who)
           ELSE GetEcdhSession(run.who, peer)

DialogueOf(id) == IF id = "pin_matrix_request" THEN "pin"
                  ELSE IF id = "passphrase_request" THEN "passphrase"
                  ELSE "button"

Working == phase \in {"peerKey", "secret"}
Reading == phase \in ReadPhases /\ handler = "none"

MessageInStep(m) ==
    \/ phase = "status" /\ m = Initialize
    \/ Working /\ waiting = "none" /\ m = Current
    \/ Working /\ waiting = "pin" /\ job = Current /\ \E ok \in BOOLEAN : m = PinMatrixAck(ok)
    \/ Working /\ waiting = "passphrase" /\ job = Current
         /\ m = PassphraseAck(entered) /\ entered \in Passphrases
    \/ Working /\ waiting = "button" /\ job = Current /\ m = ButtonAck

ReplyInStep(m) ==
    \/ phase = "status" /\ waiting = "none" /\ m.id = "features"
    \/ Working /\ waiting = "none" /\ m.id \in RefusalIds
    \/ Working /\ m.id \in PromptIds /\ waiting = DialogueOf(m.id) /\ job = Current
    \/ /\ Working /\ waiting = "none" /\ m.id \in KeyIds
       /\ m.body = KeyFor(Current, cached)
       /\ phase = "peerKey" /\ "passphrase" \in protection => cached # NoPassphrase
       /\ phase = "secret" => approved = m.body

WireInStep ==
    /\ handler # "none" => Working /\ Quiet /\ waiting = DialogueOf(handler) /\ job = Current
    /\ ~Reading => Quiet
    /\ phase \in {"request", "ecdh"} => waiting = "none"
    /\ Reading => \/ /\ fromDevice = <<>> /\ waiting # "owner"
                     /\ \E m \in HostMessages : toDevice = <<m>> /\ MessageInStep(m)
                  \/ /\ toDevice = <<>> /\ waiting # "owner"
                     /\ \E m \in DeviceMessages : fromDevice = <<m>> /\ ReplyInStep(m)
                  \/ /\ toDevice = <<>> /\ fromDevice = <<>>
                     /\ phase = "secret" /\ waiting = "owner" /\ job = Current

AckUnderWay == Working /\ waiting = "passphrase" /\ toDevice # <<>>

WalletInStep ==
    /\ phase \in {"initialize", "status"} => entered = NoPassphrase
    /\ phase = "status" /\ toDevice = <<>> => cached = NoPassphrase
    /\ phase \in {"request", "peerKey", "ecdh", "secret"} =>
          cached = IF AckUnderWay THEN NoPassphrase ELSE entered
    /\ Working /\ waiting = "passphrase" => cached = NoPassphrase

PeerInStep ==
    /\ phase \in {"peerKey", "ecdh"} => ~run.legacy
    /\ phase = "peerKey" => waiting \notin {"button", "owner"}
    /\ phase \in {"ecdh", "secret"} /\ ~run.legacy =>
          /\ peer = PublicKey(run.who, cached)
          /\ "passphrase" \in protection => cached # NoPassphrase
          /\ waiting # "passphrase"

ResultInStep ==
    result # Nothing => /\ phase = "returned"
                        /\ result = Password(run, entered) /\ approved = result

InStep == WireInStep /\ WalletInStep /\ PeerInStep /\ ResultInStep

(* Host and device are in step all through a clean run.                      *)
Lockstep == clean => InStep

(* Why the host never waits for a device that waits for the host, whatever   *)
(* was interrupted: Initialize, and a request of the run, are answered in    *)
(* order, and nothing is read after the answer that ends a wait.             *)
Last(queue) == queue[Len(queue)]

AwaitedStatus ==
    Reading /\ phase = "status" =>
        IF toDevice # <<>> THEN Last(toDevice) = Initialize ELSE fromDevice # <<>>

AwaitedKey ==
    Reading /\ Working =>
        IF toDevice # <<>> THEN Last(toDevice).id # "initialize"
        ELSE \/ waiting = "owner"
             \/ fromDevice # <<>> /\ Last(fromDevice).id # "features"

Awaited == AwaitedStatus /\ AwaitedKey

=============================================================================

------------------------- MODULE TrezorSession_proofs -------------------------
(* What holds of a session for every set of identities and passphrases and   *)
(* any number of runs.                                                       *)
EXTENDS TrezorSession, SequenceTheorems, TLAPS

-----------------------------------------------------------------------------
(* Queues.                                                                   *)

LEMMA AppendType ==
    ASSUME NEW S, NEW s \in Seq(S), NEW m \in S
    PROVE  Append(s, m) \in Seq(S)
  OBVIOUS

LEMMA TailType ==
    ASSUME NEW S, NEW s \in Seq(S), s # <<>>
    PROVE  Head(s) \in S /\ Tail(s) \in Seq(S)
  OBVIOUS

(* What the messages of each direction look like.                            *)
LEMMA HostMessageTypes ==
    /\ Initialize \in HostMessages /\ ButtonAck \in HostMessages
    /\ \A ok \in BOOLEAN : PinMatrixAck(ok) \in HostMessages
    /\ \A pp \in Passphrases : PassphraseAck(pp) \in HostMessages
    /\ \A who \in Identities : GetPublicKey(who) \in Requests /\ SignIdentity(who) \in Requests
    /\ \A who \in Identities, p \in Peers : GetEcdhSession(who, p) \in Requests
    /\ Requests \subseteq HostMessages
  BY DEF HostMessages, Requests

LEMMA DeviceMessageTypes ==
    /\ \A id \in {"features"} \union PromptIds \union RefusalIds :
          Message(id, Nothing) \in DeviceMessages
    /\ \A id \in KeyIds, k \in Keys : Message(id, k) \in DeviceMessages
    /\ \A m \in DeviceMessages : m.id \in KeyIds => m.body \in Keys
  <1>1. \A m \in DeviceMessages : m.id \in KeyIds => m.body \in Keys
    BY DEF DeviceMessages, Message, KeyIds, PromptIds, RefusalIds
  <1>2. QED BY <1>1 DEF DeviceMessages

(* The device derives a key for every request.                               *)
LEMMA KeyForType ==
    ASSUME NEW m \in Requests, NEW w \in Wallets
    PROVE  /\ m.id \in {"get_public_key", "sign_identity", "get_ecdh_session"}
           /\ KeyFor(m, w) \in Keys
           /\ AnswerId(m) \in KeyIds
  <1>1. CASE \E who \in Identities : m = GetPublicKey(who)
    BY <1>1 DEF GetPublicKey, Message, KeyFor, AnswerId, KeyIds, Keys, PublicKeys
  <1>2. CASE \E who \in Identities : m = SignIdentity(who)
    BY <1>2 DEF SignIdentity, Message, KeyFor, AnswerId, KeyIds, Keys, Signatures
  <1>3. CASE \E who \in Identities, p \in Peers : m = GetEcdhSession(who, p)
    BY <1>3 DEF GetEcdhSession, Message, KeyFor, AnswerId, KeyIds, Keys, EcdhKeys
  <1>4. QED BY <1>1, <1>2, <1>3 DEF Requests

LEMMA AsPeerType == \A key : AsPeer(key) \in Peers
  BY DEF AsPeer, Peers

-----------------------------------------------------------------------------
(* Type correctness.                                                         *)

LEMMA InitType == Init => TypeOK
  BY ConstantsAssumption
  DEF Init, TypeOK, Phases, ReadPhases, Peers, Wallets, Runs

LEMMA SendType ==
    ASSUME TypeOK, NEW m \in HostMessages, Send(m)
    PROVE  toDevice' \in Seq(HostMessages) /\ fromDevice' = fromDevice
  BY AppendType DEF TypeOK, Send

LEMMA ReplyType ==
    ASSUME TypeOK, NEW m \in DeviceMessages, Reply(m)
    PROVE  fromDevice' \in Seq(DeviceMessages)
  BY AppendType DEF TypeOK, Reply

LEMMA RefuseType ==
    ASSUME TypeOK, Refuse
    PROVE  fromDevice' \in Seq(DeviceMessages) /\ waiting' = "none" /\ job' = Nothing
  BY ReplyType, DeviceMessageTypes DEF Refuse, Idle

LEMMA ProceedType ==
    ASSUME TypeOK, NEW m \in Requests, NEW lock \in BOOLEAN, NEW w \in Wallets,
           Proceed(m, lock, w)
    PROVE  /\ fromDevice' \in Seq(DeviceMessages)
           /\ waiting' \in {"none", "pin", "passphrase", "button", "owner"}
           /\ job' \in Requests \union {Nothing}
  <1>1. ASSUME NEW what \in {"pin", "passphrase", "button"}, NEW id \in PromptIds,
               Prompt(m, what, id)
        PROVE  /\ fromDevice' \in Seq(DeviceMessages)
               /\ waiting' \in {"none", "pin", "passphrase", "button", "owner"}
               /\ job' \in Requests \union {Nothing}
    BY <1>1, ReplyType, DeviceMessageTypes DEF Prompt
  <1>2. Message("public_key", KeyFor(m, w)) \in DeviceMessages
    BY KeyForType, DeviceMessageTypes DEF KeyIds
  <1>3. CASE Idle /\ Reply(Message("public_key", KeyFor(m, w)))
    BY <1>2, <1>3, ReplyType DEF Idle
  <1>4. QED BY <1>1, <1>3 DEF Proceed, PromptIds

LEMMA ReceiveType ==
    ASSUME TypeOK, NEW ids, Receive(ids)
    PROVE  /\ Head(fromDevice) \in DeviceMessages
           /\ fromDevice' \in Seq(DeviceMessages)
           /\ phase \in ReadPhases /\ handler = "none"
           /\ toDevice' = toDevice /\ run' = run
           /\ waiting' = waiting /\ job' = job /\ locked' = locked
           /\ cached' = cached /\ protection' = protection
           /\ entered' = entered /\ approved' = approved
           /\ runs' = runs /\ faults' = faults /\ clean' = clean
  BY TailType DEF TypeOK, Receive, deviceVars, history, counters

LEMMA TakeType ==
    ASSUME TypeOK, NEW m, Take(m)
    PROVE  /\ m \in HostMessages
           /\ toDevice' \in Seq(HostMessages)
           /\ phase' = phase /\ handler' = handler /\ run' = run
           /\ peer' = peer /\ result' = result
           /\ protection' = protection
           /\ entered' = entered /\ approved' = approved
           /\ runs' = runs /\ faults' = faults /\ clean' = clean
  BY TailType DEF TypeOK, Take, hostVars, history, counters

(* A request reaches the device only inside the PIN, passphrase and button   *)
(* dialogues; outside them it has no job.                                    *)
JobOK == waiting \in {"pin", "passphrase", "button", "owner"} => job \in Requests

TypeInv == TypeOK /\ JobOK

LEMMA TypeStep == TypeInv /\ [Next]_vars => TypeInv'
  <1> SUFFICES ASSUME TypeInv, [Next]_vars PROVE TypeInv'
    OBVIOUS
  <1> USE DEF TypeInv, JobOK
  <1>1. CASE SendInitialize
    BY <1>1, SendType, HostMessageTypes
    DEF SendInitialize, TypeOK, Phases, ReadPhases, deviceVars, history, counters
  <1>2. CASE SendRequest
    <2>1. PICK m \in HostMessages : Send(m)
      BY <1>2, HostMessageTypes DEF SendRequest, TypeOK, Runs
    <2>2. QED
      BY <1>2, <2>1, SendType
      DEF SendRequest, TypeOK, Phases, ReadPhases, deviceVars, history, counters
  <1>3. CASE SendEcdh
    <2>1. GetEcdhSession(run.who, peer) \in HostMessages
      BY HostMessageTypes DEF TypeOK, Runs
    <2>2. QED
      BY <1>3, <2>1, SendType DEF SendEcdh, TypeOK, Phases, ReadPhases, deviceVars, history, counters
  <1>4. CASE SendFails
    BY <1>4, ConstantsAssumption
    DEF SendFails, Fault, Return, TypeOK, Phases, wires, deviceVars, history, counters
  <1>5. CASE ReadFeatures
    BY <1>5, ReceiveType DEF ReadFeatures, ReadEmpty, TypeOK, Phases, ReadPhases
  <1>6. CASE ReadPrompt
    <2>1. Receive(PromptIds) /\ Head(fromDevice).id \in PromptIds
      BY <1>6 DEF ReadPrompt, Receive
    <2>2. QED
      BY <1>6, <2>1, ReceiveType DEF ReadPrompt, TypeOK
  <1>7. CASE ReadKey
    <2>1. Receive(KeyIds) /\ Head(fromDevice).id \in KeyIds
      BY <1>7 DEF ReadKey, Receive
    <2>2. Head(fromDevice).body \in Keys
      BY <2>1, ReceiveType, DeviceMessageTypes
    <2>3. AsPeer(Head(fromDevice).body) \in Peers
      BY AsPeerType
    <2>4. QED
      BY <1>7, <2>1, <2>2, <2>3, ReceiveType
      DEF ReadKey, ReadEmpty, Return, TypeOK, Phases, ReadPhases
  <1>8. CASE ReadError
    BY <1>8, ReceiveType DEF ReadError, Return, TypeOK, Phases
  <1>9. CASE AnswerPin
    BY <1>9, SendType, HostMessageTypes
    DEF AnswerPin, ReadEmpty, TypeOK, Phases, deviceVars, history, counters
  <1>10. CASE AnswerPassphrase
    BY <1>10, SendType, HostMessageTypes
    DEF AnswerPassphrase, ReadEmpty, TypeOK, Phases, Wallets, deviceVars, history, counters
  <1>11. CASE SendButtonAck
    BY <1>11, SendType, HostMessageTypes
    DEF SendButtonAck, ReadEmpty, TypeOK, Phases, deviceVars, history, counters
  <1>12. CASE PromptFails
    BY <1>12 DEF PromptFails, Return, TypeOK, Phases, wires, deviceVars, history, counters
  <1>13. CASE StartRun
    <2>1. runs' \in 1..MaxRuns /\ clean' \in BOOLEAN
      BY <1>13, ConstantsAssumption DEF StartRun, TypeOK, Quiet
    <2>2. QED
      BY <1>13, <2>1 DEF StartRun, TypeOK, Phases, Peers, Wallets, wires, deviceVars
  <1>14. CASE DeviceInitialize
    <2>1. TypeOK /\ Take(Initialize)
      BY <1>14 DEF DeviceInitialize
    <2>2. Message("features", Nothing) \in DeviceMessages
      BY DeviceMessageTypes
    <2>3. QED
      BY <1>14, <2>1, <2>2, TakeType, ReplyType DEF DeviceInitialize, Idle, TypeOK, Wallets
  <1>15. CASE DeviceRequest
    <2>1. PICK m \in Requests : Take(m) /\ (Proceed(m, locked, cached) \/ Refuse)
      BY <1>15 DEF DeviceRequest
    <2>2. fromDevice' \in Seq(DeviceMessages)
          /\ waiting' \in {"none", "pin", "passphrase", "button", "owner"}
          /\ job' \in Requests \union {Nothing}
      BY <2>1, ProceedType, RefuseType DEF TypeOK
    <2>3. waiting' \in {"pin", "passphrase", "button", "owner"} => job' \in Requests
      BY <2>1 DEF Proceed, Prompt, Refuse, Idle
    <2>4. QED
      BY <1>15, <2>1, <2>2, <2>3, TakeType DEF DeviceRequest, TypeOK
  <1>16. CASE DevicePin
    <2>1. PICK ok \in BOOLEAN :
              /\ Take(PinMatrixAck(ok)) /\ waiting = "pin"
              /\ \/ locked' = FALSE /\ Proceed(job, FALSE, cached)
                 \/ Refuse /\ locked' = locked
      BY <1>16 DEF DevicePin
    <2>2. job \in Requests
      BY <2>1
    <2>3. fromDevice' \in Seq(DeviceMessages)
          /\ waiting' \in {"none", "pin", "passphrase", "button", "owner"}
          /\ job' \in Requests \union {Nothing}
      BY <2>1, <2>2, ProceedType, RefuseType DEF TypeOK
    <2>4. waiting' \in {"pin", "passphrase", "button", "owner"} => job' \in Requests
      BY <2>1, <2>2 DEF Proceed, Prompt, Refuse, Idle
    <2>5. QED
      BY <1>16, <2>1, <2>3, <2>4, TakeType DEF DevicePin, TypeOK
  <1>17. CASE DevicePassphrase
    <2>1. PICK pp \in Passphrases :
              /\ Take(PassphraseAck(pp)) /\ waiting = "passphrase"
              /\ cached' = pp /\ Proceed(job, FALSE, pp)
      BY <1>17 DEF DevicePassphrase
    <2>2. job \in Requests /\ pp \in Wallets
      BY <2>1 DEF Wallets
    <2>3. fromDevice' \in Seq(DeviceMessages)
          /\ waiting' \in {"none", "pin", "passphrase", "button", "owner"}
          /\ job' \in Requests \union {Nothing}
      BY <2>1, <2>2, ProceedType
    <2>4. waiting' \in {"pin", "passphrase", "button", "owner"} => job' \in Requests
      BY <2>1, <2>2 DEF Proceed, Prompt, Idle
    <2>5. QED
      BY <1>17, <2>1, <2>2, <2>3, <2>4, TakeType DEF DevicePassphrase, TypeOK
  <1>18. CASE DeviceButton
    BY <1>18, TakeType DEF DeviceButton, TypeOK
  <1>19. CASE DeviceUnexpected
    <2>1. PICK m \in HostMessages : Take(m)
      BY <1>19 DEF DeviceUnexpected
    <2>2. QED
      BY <1>19, <2>1, TakeType, RefuseType DEF DeviceUnexpected, TypeOK
  <1>20. CASE OwnerConfirms
    <2>1. job \in Requests /\ cached \in Wallets
      BY <1>20 DEF OwnerConfirms, TypeOK
    <2>2. /\ KeyFor(job, cached) \in Keys
          /\ Message(AnswerId(job), KeyFor(job, cached)) \in DeviceMessages
      BY <2>1, KeyForType, DeviceMessageTypes
    <2>3. QED
      BY <1>20, <2>2, ReplyType DEF OwnerConfirms, Idle, TypeOK, hostVars, counters
  <1>21. CASE OwnerRejects
    BY <1>21, RefuseType DEF OwnerRejects, TypeOK, hostVars, history, counters
  <1>22. CASE Kill
    <2>1. faults' \in 0..MaxFaults
      BY <1>22, ConstantsAssumption DEF Kill, Fault, TypeOK
    <2>2. clean' \in BOOLEAN
      BY <1>22, Zenon DEF Kill
    <2>3. QED
      BY <1>22, <2>1, <2>2 DEF Kill, Return, TypeOK, Phases, wires, deviceVars
  <1>23. CASE WriteTimesOut
    <2>1. Outgoing \subseteq HostMessages
      BY HostMessageTypes DEF Outgoing, TypeOK, Runs
    <2>2. toDevice' \in Seq(HostMessages) /\ fromDevice' = fromDevice
      BY <1>23, <2>1, SendType DEF WriteTimesOut, wires, TypeOK
    <2>3. faults' \in 0..MaxFaults
      BY <1>23, ConstantsAssumption DEF WriteTimesOut, Fault, TypeOK
    <2>4. clean' \in BOOLEAN
      BY <1>23, Zenon DEF WriteTimesOut
    <2>5. QED
      BY <1>23, <2>2, <2>3, <2>4 DEF WriteTimesOut, Return, TypeOK, Phases, deviceVars
  <1>24. CASE Unplug
    BY <1>24, ConstantsAssumption
    DEF Unplug, Fault, Return, Idle, TypeOK, Phases, Wallets
  <1>25. CASE UNCHANGED vars
    BY <1>25 DEF vars, hostVars, wires, deviceVars, history, counters, TypeOK
  <1>26. QED
    BY <1>1, <1>2, <1>3, <1>4, <1>5, <1>6, <1>7, <1>8, <1>9, <1>10, <1>11, <1>12,
       <1>13, <1>14, <1>15, <1>16, <1>17, <1>18, <1>19, <1>20, <1>21, <1>22, <1>23,
       <1>24, <1>25
    DEF Next, HostStep, UserStep, DeviceStep, OwnerStep, FaultStep

(* A prompt is asked from inside a read, and a run that has not returned has *)
(* no password.                                                              *)
ControlOK == /\ handler # "none" => phase \in ReadPhases
             /\ result # Nothing => phase = "returned"

LEMMA ControlStep == TypeInv /\ ControlOK /\ [Next]_vars => ControlOK'
  <1> SUFFICES ASSUME TypeInv, ControlOK, [Next]_vars PROVE ControlOK'
    OBVIOUS
  <1> USE DEF ControlOK
  <1>1. CASE HostStep
    BY <1>1
    DEF HostStep, SendInitialize, SendRequest, SendEcdh, ReadFeatures, ReadPrompt, ReadKey,
        ReadError, SendButtonAck, Receive, ReadEmpty, Return, ReadPhases
  <1>2. CASE UserStep
    BY <1>2 DEF UserStep, AnswerPin, AnswerPassphrase, PromptFails, ReadEmpty, Return, ReadPhases
  <1>3. CASE DeviceStep \/ OwnerStep
    BY <1>3
    DEF DeviceStep, OwnerStep, DeviceInitialize, DeviceRequest, DevicePin, DevicePassphrase,
        DeviceButton, DeviceUnexpected, Take, OwnerConfirms, OwnerRejects, hostVars
  <1>4. CASE StartRun
    BY <1>4 DEF StartRun, ReadPhases
  <1>5. CASE FaultStep
    BY <1>5 DEF FaultStep, SendFails, Kill, WriteTimesOut, Unplug, Return
  <1>6. CASE UNCHANGED vars
    BY <1>6 DEF vars, hostVars
  <1>7. QED
    BY <1>1, <1>2, <1>3, <1>4, <1>5, <1>6 DEF Next

(* Only faults and new runs change the counters.                             *)
LEMMA KeepsCounters ==
    HostStep \/ UserStep \/ DeviceStep \/ OwnerStep => UNCHANGED counters
  BY DEF HostStep, UserStep, DeviceStep, OwnerStep, SendInitialize, SendRequest, SendEcdh,
         ReadFeatures, ReadPrompt, ReadKey, ReadError, Receive, SendButtonAck, AnswerPin,
         AnswerPassphrase, PromptFails, DeviceInitialize, DeviceRequest, DevicePin,
         DevicePassphrase, DeviceButton, DeviceUnexpected, Take, OwnerConfirms,
         OwnerRejects, history

Inv == TypeInv /\ ControlOK

LEMMA InvCorrect == Spec => []Inv
  <1>1. Init => Inv
    BY InitType DEF Inv, TypeInv, JobOK, ControlOK, Init
  <1>2. QED
    BY <1>1, TypeStep, ControlStep, PTL DEF Spec, Inv

(* The types are right in every reachable state.                             *)
THEOREM TypeCorrect == Spec => []TypeOK
  <1>1. Inv => TypeOK
    BY DEF Inv, TypeInv
  <1>2. QED
    BY <1>1, InvCorrect, PTL

-----------------------------------------------------------------------------
(* A clean run stays in step.                                                *)

LEMMA OneMessage ==
    \A m : /\ Append(<<>>, m) = <<m>> /\ Head(<<m>>) = m
          /\ Tail(<<m>>) = <<>> /\ <<m>> # <<>>
  OBVIOUS

LEMMA Ids ==
    /\ Initialize.id = "initialize" /\ ButtonAck.id = "button_ack"
    /\ \A ok : PinMatrixAck(ok).id = "pin_matrix_ack" /\ PinMatrixAck(ok).body.right = ok
    /\ \A pp : PassphraseAck(pp).id = "passphrase_ack" /\ PassphraseAck(pp).body = pp
    /\ \A m \in Requests : m.id \in {"get_public_key", "sign_identity", "get_ecdh_session"}
    /\ \A id, body : Message(id, body).id = id /\ Message(id, body).body = body
  BY DEF Initialize, ButtonAck, PinMatrixAck, PassphraseAck, Message, Requests,
         GetPublicKey, SignIdentity, GetEcdhSession

LEMMA CurrentRequest ==
    ASSUME TypeOK
    PROVE  /\ Current \in Requests
           /\ Current.id = "get_public_key" <=> phase = "peerKey"
           /\ AnswerId(Current) \in KeyIds
  <1>1. Current \in Requests
    BY HostMessageTypes DEF TypeOK, Runs, Current
  <1>2. Current.id = "get_public_key" <=> phase = "peerKey"
    BY DEF Current, GetPublicKey, SignIdentity, GetEcdhSession, Message
  <1>3. NoPassphrase \in Wallets
    BY DEF Wallets
  <1>4. QED
    BY <1>1, <1>2, <1>3, KeyForType

LEMMA KeyForCurrent ==
    ASSUME TypeOK, NEW w
    PROVE  KeyFor(Current, w) = IF phase = "peerKey" THEN PublicKey(run.who, w)
                                ELSE IF run.legacy THEN Signature(run.who, w)
                                ELSE EcdhKey(run.who, peer, w)
  BY DEF Current, KeyFor, GetPublicKey, SignIdentity, GetEcdhSession, Message

(* The wire is in step while the reply m is on its way.                      *)
LEMMA ReplyWire ==
    ASSUME NEW m \in DeviceMessages, fromDevice' = <<m>>, toDevice' = <<>>,
           waiting' # "owner", Reading', Working', ReplyInStep(m)'
    PROVE  WireInStep'
  BY DEF WireInStep, Reading, Working

(* One step of the device's dialogue, from the request or an acknowledgement *)
(* of the host to the next prompt or the answer.                             *)
LEMMA ProceedInStep ==
    ASSUME TypeOK, TypeOK', Working, Reading, toDevice' = <<>>, fromDevice = <<>>,
           NEW lock \in BOOLEAN, Proceed(Current, lock, entered), cached' = entered,
           PeerInStep, ResultInStep,
           cached = entered \/ waiting = "passphrase",
           phase' = phase, handler' = handler, run' = run, peer' = peer,
           result' = result, protection' = protection, entered' = entered,
           approved' = approved
    PROVE  InStep'
  <1> DEFINE w == entered
  <1>1. Current' = Current
    BY DEF Current
  <1>2. KeyFor(Current', cached') = KeyFor(Current, w)
    BY <1>1
  <1>3. Working' /\ Reading' /\ phase # "status" /\ phase # "returned"
    BY DEF Working, Reading
  <1>4. /\ phase = "peerKey" => ~run.legacy
        /\ phase = "secret" /\ ~run.legacy =>
              peer = PublicKey(run.who, w) /\ ("passphrase" \in protection => w # NoPassphrase)
    BY DEF PeerInStep
  <1>5. ResultInStep'
    BY DEF ResultInStep, Password
  <1>6. ASSUME NEW what \in {"pin", "passphrase", "button"}, NEW id \in PromptIds,
               Prompt(Current, what, id), what = DialogueOf(id),
               what = "passphrase" => w = NoPassphrase /\ "passphrase" \in protection,
               what = "button" => phase # "peerKey"
        PROVE  InStep'
    <2>1. /\ waiting' = what /\ job' = Current'
          /\ fromDevice' = <<Message(id, Nothing)>>
      BY <1>1, <1>6, OneMessage DEF Prompt, Reply
    <2>2. PICK m \in DeviceMessages : m = Message(id, Nothing)
      BY DeviceMessageTypes
    <2>3. WireInStep'
      <3>1. m.id = id
        BY <2>2, Ids
      <3>2. ReplyInStep(m)'
        BY <1>3, <1>6, <2>1, <3>1 DEF ReplyInStep
      <3>3. QED
        BY <1>3, <1>6, <2>1, <2>2, <3>2, ReplyWire
    <2>4. WalletInStep'
      BY <1>3, <1>6, <2>1 DEF WalletInStep, AckUnderWay, Working
    <2>5. PeerInStep'
      BY <1>3, <1>4, <1>6, <2>1 DEF PeerInStep, Working
    <2>6. QED
      BY <1>5, <2>3, <2>4, <2>5 DEF InStep
  <1>7. ASSUME Idle, Reply(Message("public_key", KeyFor(Current, w))), phase = "peerKey",
               "passphrase" \in protection => w # NoPassphrase
        PROVE  InStep'
    <2>1. Message("public_key", KeyFor(Current, w)) \in DeviceMessages
      BY CurrentRequest, KeyForType, DeviceMessageTypes DEF KeyIds, TypeOK
    <2>2. PICK m \in DeviceMessages : m = Message("public_key", KeyFor(Current, w))
      BY <2>1
    <2>3. waiting' = "none" /\ fromDevice' = <<m>>
      BY <1>7, <2>2, OneMessage DEF Idle, Reply
    <2>4. WireInStep'
      <3>1. m.id \in KeyIds /\ m.body = KeyFor(Current', cached')
        BY <1>2, <2>2, Ids DEF KeyIds
      <3>2. ReplyInStep(m)'
        BY <1>3, <1>7, <2>3, <3>1 DEF ReplyInStep
      <3>3. QED
        BY <1>3, <2>3, <3>2, ReplyWire
    <2>5. WalletInStep'
      BY <1>3, <1>7, <2>3 DEF WalletInStep, AckUnderWay, Working
    <2>6. PeerInStep'
      BY <1>3, <1>4, <1>7, <2>3 DEF PeerInStep, Working
    <2>7. QED
      BY <1>5, <2>4, <2>5, <2>6 DEF InStep
  <1>8. QED
    BY <1>6, <1>7, CurrentRequest DEF Proceed, PromptIds, DialogueOf

(* The device refuses while the host reads.                                  *)
LEMMA RefuseInStep ==
    ASSUME TypeOK, TypeOK', Working, Reading, toDevice' = <<>>, fromDevice = <<>>,
           Refuse, cached' = cached, cached = entered,
           PeerInStep, ResultInStep,
           phase' = phase, handler' = handler, run' = run, peer' = peer,
           result' = result, protection' = protection, entered' = entered,
           approved' = approved
    PROVE  InStep'
  <1>1. Working' /\ Reading' /\ phase # "status" /\ phase # "returned"
    BY DEF Working, Reading
  <1>2. PICK id \in RefusalIds : fromDevice' = <<Message(id, Nothing)>>
    BY OneMessage DEF Refuse, Reply
  <1>3. waiting' = "none"
    BY DEF Refuse, Idle
  <1>4. PICK m \in DeviceMessages : m = Message(id, Nothing)
    BY DeviceMessageTypes
  <1>5. WireInStep'
    <2>1. m.id \in RefusalIds
      BY <1>4, Ids
    <2>2. ReplyInStep(m)'
      BY <1>1, <1>3, <2>1 DEF ReplyInStep
    <2>3. QED
      BY <1>1, <1>2, <1>3, <1>4, <2>2, ReplyWire
  <1>6. WalletInStep'
    BY <1>1, <1>2, <1>3 DEF WalletInStep, AckUnderWay, Working
  <1>7. PeerInStep'
    BY <1>1, <1>3 DEF PeerInStep, Working
  <1>8. ResultInStep'
    BY DEF ResultInStep, Password
  <1>9. QED
    BY <1>5, <1>6, <1>7, <1>8 DEF InStep

(* The wire is in step while the message m is on its way to the device.      *)
LEMMA SendWire ==
    ASSUME NEW m \in HostMessages, toDevice' = <<m>>, fromDevice' = <<>>,
           waiting' # "owner", Reading', MessageInStep(m)'
    PROVE  WireInStep'
  <1>1. phase' = "status" \/ Working'
    BY DEF MessageInStep
  <1>2. QED
    BY <1>1 DEF WireInStep, Reading, Working

(* The wire is in step when the host is not reading and nothing is under way.*)
LEMMA QuietWire ==
    ASSUME handler' = "none", ~Reading', Quiet',
           phase' \in {"request", "ecdh"} => waiting' = "none"
    PROVE  WireInStep'
  BY DEF WireInStep, Reading

(* What the host finds when it reads a message.                              *)
LEMMA ReceiveInStep ==
    ASSUME WireInStep, NEW ids, Receive(ids)
    PROVE  /\ Reading /\ toDevice = <<>> /\ fromDevice' = <<>> /\ waiting # "owner"
           /\ Head(fromDevice) \in DeviceMessages /\ Head(fromDevice).id \in ids
           /\ ReplyInStep(Head(fromDevice))
  <1>1. Reading /\ fromDevice # <<>> /\ fromDevice' = Tail(fromDevice)
        /\ Head(fromDevice).id \in ids
    BY DEF Receive, Reading
  <1>2. PICK m \in DeviceMessages : fromDevice = <<m>> /\ ReplyInStep(m)
                                   /\ toDevice = <<>> /\ waiting # "owner"
    BY <1>1 DEF WireInStep
  <1>3. QED
    BY <1>1, <1>2, OneMessage

(* What the device finds when it takes a message.                            *)
LEMMA TakeInStep ==
    ASSUME WireInStep, NEW m, Take(m)
    PROVE  /\ Reading /\ fromDevice = <<>> /\ toDevice' = <<>> /\ waiting # "owner"
           /\ m \in HostMessages /\ MessageInStep(m)
  <1>1. toDevice # <<>> /\ m = Head(toDevice) /\ toDevice' = Tail(toDevice)
    BY DEF Take
  <1>2. Reading
    BY <1>1 DEF WireInStep, Quiet
  <1>3. PICK h \in HostMessages : toDevice = <<h>> /\ MessageInStep(h)
                                 /\ fromDevice = <<>> /\ waiting # "owner"
    BY <1>1, <1>2 DEF WireInStep
  <1>4. QED
    BY <1>1, <1>2, <1>3, OneMessage

LEMMA InitInStep == Init => InStep
  BY DEF Init, InStep, WireInStep, WalletInStep, PeerInStep, ResultInStep, Quiet,
         Reading, ReadPhases, Working, AckUnderWay

(* The host's steps.                                                         *)
LEMMA HostInStep ==
    ASSUME TypeInv, TypeInv', InStep, HostStep \/ UserStep
    PROVE  InStep'
  <1> USE DEF InStep, TypeInv
  <1>0. handler = "none" \/ Working
    BY DEF WireInStep
  <1>1. CASE SendInitialize
    <2>1. Initialize \in HostMessages
      BY HostMessageTypes
    <2>2. toDevice' = <<Initialize>> /\ fromDevice' = <<>> /\ waiting' # "owner"
      BY <1>1, OneMessage
      DEF SendInitialize, Send, WireInStep, Reading, ReadPhases, Quiet, deviceVars, history
    <2>3. phase' = "status" /\ handler' = "none"
      BY <1>0, <1>1 DEF SendInitialize, Working
    <2>4. WireInStep'
      BY <2>1, <2>2, <2>3, SendWire DEF MessageInStep, Reading, ReadPhases
    <2>5. WalletInStep' /\ PeerInStep'
      BY <1>1, <2>2, <2>3, OneMessage
      DEF SendInitialize, WalletInStep, PeerInStep, Working, AckUnderWay, history
    <2>6. ResultInStep'
      BY <1>1 DEF SendInitialize, ResultInStep
    <2>7. QED BY <2>4, <2>5, <2>6
  <1>2. CASE SendRequest
    <2>1. Current' \in HostMessages
      BY CurrentRequest, HostMessageTypes, <1>2 DEF TypeOK, Current, Runs
    <2>2. PICK m \in HostMessages : m = Current'
      BY <2>1
    <2>3. toDevice' = <<m>> /\ fromDevice' = <<>> /\ waiting' = "none"
      BY <1>2, <2>2, OneMessage
      DEF SendRequest, Send, WireInStep, Reading, ReadPhases, Quiet, deviceVars, history, Current
    <2>4. /\ phase' = IF run.legacy THEN "secret" ELSE "peerKey"
          /\ handler' = "none" /\ run' = run /\ cached' = cached /\ entered' = entered
      BY <1>0, <1>2 DEF SendRequest, Working, deviceVars, history
    <2>5. WireInStep'
      BY <2>2, <2>3, <2>4, SendWire DEF MessageInStep, Working, Reading, ReadPhases
    <2>6. WalletInStep' /\ PeerInStep'
      BY <1>2, <2>3, <2>4 DEF SendRequest, WalletInStep, PeerInStep, Working, AckUnderWay
    <2>7. ResultInStep'
      BY <1>2 DEF SendRequest, ResultInStep
    <2>8. QED BY <2>5, <2>6, <2>7
  <1>3. CASE SendEcdh
    <2>1. ~run.legacy
      BY <1>3 DEF SendEcdh, PeerInStep
    <2>2. GetEcdhSession(run.who, peer) \in HostMessages
      BY HostMessageTypes DEF TypeOK, Runs
    <2>3. PICK m \in HostMessages : m = GetEcdhSession(run.who, peer)
      BY <2>2
    <2>4. m = Current'
      BY <1>3, <2>1, <2>3 DEF SendEcdh, Current
    <2>5. toDevice' = <<m>> /\ fromDevice' = <<>> /\ waiting' = "none"
      BY <1>3, <2>3, OneMessage
      DEF SendEcdh, Send, WireInStep, Reading, ReadPhases, Quiet, deviceVars, history
    <2>6. /\ phase' = "secret" /\ handler' = "none" /\ run' = run /\ peer' = peer
          /\ cached' = cached /\ entered' = entered /\ protection' = protection
      BY <1>0, <1>3 DEF SendEcdh, Working, deviceVars, history
    <2>7. WireInStep'
      BY <2>4, <2>5, <2>6, SendWire DEF MessageInStep, Working, Reading, ReadPhases
    <2>8. WalletInStep' /\ PeerInStep'
      BY <1>3, <2>5, <2>6 DEF SendEcdh, WalletInStep, PeerInStep, Working, AckUnderWay
    <2>9. ResultInStep'
      BY <1>3 DEF SendEcdh, ResultInStep
    <2>10. QED BY <2>7, <2>8, <2>9
  <1>4. CASE PromptFails
    <2>1. /\ phase' = "returned" /\ handler' = "none" /\ result' = Nothing
          /\ toDevice' = toDevice /\ fromDevice' = fromDevice /\ waiting' = waiting
      BY <1>4 DEF PromptFails, Return, wires, deviceVars, history
    <2>2. Quiet
      BY <1>4 DEF PromptFails, WireInStep, Reading, ReadPhases
    <2>3. WireInStep'
      BY <2>1, <2>2, QuietWire DEF Quiet, Reading, ReadPhases
    <2>4. WalletInStep' /\ PeerInStep' /\ ResultInStep'
      BY <2>1 DEF WalletInStep, PeerInStep, ResultInStep, Working, AckUnderWay
    <2>5. QED BY <2>3, <2>4
  <1>5. CASE ReadFeatures
    <2>1. Receive({"features"})
      BY <1>5 DEF ReadFeatures
    <2>2. /\ phase = "status" /\ handler = "none" /\ waiting = "none"
          /\ toDevice = <<>> /\ fromDevice' = <<>>
      BY <2>1, ReceiveInStep
      DEF ReplyInStep, RefusalIds, PromptIds, KeyIds, Reading
    <2>3. /\ phase' = "request" /\ handler' = "none" /\ waiting' = "none"
          /\ toDevice' = <<>> /\ run' = run /\ cached' = cached /\ entered' = entered
          /\ result' = result
      BY <1>5, <2>1, <2>2, ReceiveType DEF ReadFeatures, ReadEmpty
    <2>4. WireInStep'
      BY <2>2, <2>3, QuietWire DEF Quiet, Reading, ReadPhases
    <2>5. WalletInStep' /\ PeerInStep' /\ ResultInStep'
      BY <2>2, <2>3 DEF WalletInStep, PeerInStep, ResultInStep, Working, AckUnderWay
    <2>6. QED BY <2>4, <2>5
  <1>6. CASE ReadPrompt
    <2>1. Receive(PromptIds)
      BY <1>6 DEF ReadPrompt
    <2>2. PICK m \in DeviceMessages : /\ m = Head(fromDevice) /\ m.id \in PromptIds
                                     /\ ReplyInStep(m)
      BY <2>1, ReceiveInStep
    <2>3. /\ Working /\ waiting = DialogueOf(m.id) /\ job = Current
          /\ toDevice = <<>> /\ fromDevice' = <<>>
      BY <2>1, <2>2, ReceiveInStep DEF ReplyInStep, RefusalIds, PromptIds, KeyIds
    <2>4. /\ handler' = m.id /\ phase' = phase /\ peer' = peer /\ result' = result
          /\ toDevice' = <<>> /\ waiting' = waiting /\ job' = job /\ run' = run
          /\ cached' = cached /\ entered' = entered /\ approved' = approved
          /\ protection' = protection
      BY <1>6, <2>1, <2>2, <2>3, ReceiveType DEF ReadPrompt
    <2>5. Current' = Current
      BY <2>4 DEF Current
    <2>6. handler' # "none" /\ waiting' # "owner"
      BY <2>2, <2>3, <2>4 DEF PromptIds, DialogueOf
    <2>7. WireInStep'
      BY <2>2, <2>3, <2>4, <2>5, <2>6 DEF WireInStep, Working, Quiet, Reading
    <2>8. WalletInStep' /\ PeerInStep' /\ ResultInStep'
      BY <2>3, <2>4 DEF WalletInStep, PeerInStep, ResultInStep, Working, AckUnderWay, Password
    <2>9. QED BY <2>7, <2>8
  <1>7. CASE ReadKey
    <2>1. Receive(KeyIds)
      BY <1>7 DEF ReadKey
    <2>2. PICK m \in DeviceMessages : /\ m = Head(fromDevice) /\ m.id \in KeyIds
                                     /\ ReplyInStep(m)
      BY <2>1, ReceiveInStep
    <2>3. /\ Working /\ waiting = "none" /\ m.body = KeyFor(Current, cached)
          /\ phase = "peerKey" /\ "passphrase" \in protection => cached # NoPassphrase
          /\ phase = "secret" => approved = m.body
          /\ toDevice = <<>> /\ fromDevice' = <<>> /\ handler = "none"
      BY <2>1, <2>2, ReceiveInStep
      DEF ReplyInStep, RefusalIds, PromptIds, KeyIds, Reading
    <2>4. /\ toDevice' = <<>> /\ waiting' = "none" /\ run' = run
          /\ cached' = cached /\ entered' = entered /\ approved' = approved
          /\ protection' = protection /\ cached = entered
      BY <2>1, <2>3, ReceiveType DEF WalletInStep, AckUnderWay, Working
    <2>5. Quiet'
      BY <2>3, <2>4 DEF Quiet
    <2>6. CASE phase = "peerKey"
      <3>1. m.body = PublicKey(run.who, cached) /\ run.who \in Identities /\ cached \in Wallets
        BY <2>3, <2>6, KeyForCurrent DEF TypeOK, Runs
      <3>2. AsPeer(m.body) = m.body
        BY <3>1 DEF AsPeer, PublicKeys
      <3>3. /\ phase' = "ecdh" /\ handler' = "none" /\ result' = result
            /\ peer' = PublicKey(run.who, cached)
        BY <1>7, <2>2, <2>3, <2>6, <3>1, <3>2 DEF ReadKey
      <3>4. WireInStep'
        BY <2>4, <2>5, <3>3, QuietWire DEF Reading, ReadPhases
      <3>5. WalletInStep' /\ PeerInStep' /\ ResultInStep'
        BY <2>3, <2>4, <2>6, <3>3
        DEF WalletInStep, PeerInStep, ResultInStep, Working, AckUnderWay
      <3>6. QED BY <3>4, <3>5
    <2>7. CASE phase = "secret"
      <3>1. phase' = "returned" /\ handler' = "none" /\ result' = m.body
        BY <1>7, <2>2, <2>7 DEF ReadKey, Return
      <3>2. m.body = Password(run, entered)
        BY <2>3, <2>4, <2>7, KeyForCurrent DEF Password, PeerInStep
      <3>3. WireInStep'
        BY <2>5, <3>1, QuietWire DEF Reading, ReadPhases
      <3>4. WalletInStep' /\ PeerInStep'
        BY <2>4, <3>1 DEF WalletInStep, PeerInStep, Working, AckUnderWay
      <3>5. ResultInStep'
        BY <2>3, <2>4, <2>7, <3>1, <3>2 DEF ResultInStep, Password
      <3>6. QED BY <3>3, <3>4, <3>5
    <2>8. QED
      BY <2>3, <2>6, <2>7 DEF Working
  <1>8. CASE ReadError
    <2>1. Receive(RefusalIds)
      BY <1>8 DEF ReadError
    <2>2. /\ toDevice' = <<>> /\ fromDevice' = <<>> /\ waiting' # "owner"
          /\ phase' = "returned" /\ handler' = "none" /\ result' = Nothing
      BY <1>8, <2>1, ReceiveInStep, ReceiveType DEF ReadError, Return
    <2>3. WireInStep'
      BY <2>2, QuietWire DEF Quiet, Reading, ReadPhases
    <2>4. WalletInStep' /\ PeerInStep' /\ ResultInStep'
      BY <2>2 DEF WalletInStep, PeerInStep, ResultInStep, Working, AckUnderWay
    <2>5. QED BY <2>3, <2>4
  <1>9. CASE AnswerPin \/ AnswerPassphrase \/ SendButtonAck
    <2>1. /\ Working /\ Quiet /\ waiting = DialogueOf(handler) /\ job = Current
          /\ handler # "none"
      BY <1>9 DEF AnswerPin, AnswerPassphrase, SendButtonAck, WireInStep
    <2>2. PICK m \in HostMessages :
            /\ Send(m)
            /\ \/ /\ handler = "pin_matrix_request" /\ entered' = entered
                  /\ \E ok \in BOOLEAN : m = PinMatrixAck(ok)
               \/ /\ handler = "passphrase_request" /\ entered' \in Passphrases
                  /\ m = PassphraseAck(entered')
               \/ handler = "button_request" /\ entered' = entered /\ m = ButtonAck
      BY <1>9, HostMessageTypes DEF AnswerPin, AnswerPassphrase, SendButtonAck, history
    <2>3. toDevice' = <<m>> /\ fromDevice' = <<>>
      BY <2>1, <2>2, OneMessage DEF Send, Quiet
    <2>4. /\ phase' = phase /\ handler' = "none" /\ run' = run /\ peer' = peer
          /\ result' = result /\ waiting' = waiting /\ job' = job /\ cached' = cached
          /\ protection' = protection /\ approved' = approved
      BY <1>9, <2>1
      DEF AnswerPin, AnswerPassphrase, SendButtonAck, ReadEmpty, Working, deviceVars, history
    <2>5. Working' /\ Reading' /\ Current' = Current /\ waiting' # "owner"
      BY <2>1, <2>4 DEF Working, Reading, ReadPhases, Current, Quiet
    <2>6. MessageInStep(m)'
      BY <2>1, <2>2, <2>4, <2>5 DEF MessageInStep, DialogueOf
    <2>7. WireInStep'
      BY <2>3, <2>5, <2>6, SendWire
    <2>8. WalletInStep'
      BY <2>1, <2>2, <2>3, <2>4, OneMessage
      DEF WalletInStep, Working, Quiet, AckUnderWay, DialogueOf
    <2>9. PeerInStep' /\ ResultInStep'
      BY <2>1, <2>4 DEF PeerInStep, ResultInStep, Working
    <2>10. QED BY <2>7, <2>8, <2>9
  <1>10. QED
    BY <1>1, <1>2, <1>3, <1>4, <1>5, <1>6, <1>7, <1>8, <1>9
    DEF HostStep, UserStep

(* The device's and its owner's steps.                                       *)
LEMMA DeviceInStep ==
    ASSUME TypeInv, TypeInv', InStep, DeviceStep \/ OwnerStep
    PROVE  InStep'
  <1> USE DEF InStep, TypeInv
  <1>1. CASE DeviceInitialize
    <2>1. Take(Initialize)
      BY <1>1 DEF DeviceInitialize
    <2>2. phase = "status" /\ Reading /\ fromDevice = <<>> /\ toDevice' = <<>>
      BY <2>1, TakeInStep, Ids, CurrentRequest DEF MessageInStep
    <2>3. PICK m \in DeviceMessages : m = Message("features", Nothing)
      BY DeviceMessageTypes
    <2>4. /\ fromDevice' = <<m>> /\ waiting' = "none" /\ cached' = NoPassphrase
          /\ phase' = phase /\ handler' = handler /\ run' = run /\ result' = result
          /\ entered' = entered
      BY <1>1, <2>1, <2>2, <2>3, TakeType, OneMessage DEF DeviceInitialize, Reply, Idle
    <2>5. WireInStep'
      <3>1. m.id = "features"
        BY <2>3, Ids
      <3>2. QED
        BY <2>2, <2>4, <3>1 DEF WireInStep, ReplyInStep, Reading, Working
    <2>6. WalletInStep' /\ PeerInStep' /\ ResultInStep'
      BY <2>2, <2>4 DEF WalletInStep, PeerInStep, ResultInStep, Working, AckUnderWay
    <2>7. QED BY <2>5, <2>6
  <1>2. CASE DeviceRequest
    <2>1. PICK m \in Requests : Take(m) /\ (Proceed(m, locked, cached) \/ Refuse)
      BY <1>2 DEF DeviceRequest
    <2>2. /\ Reading /\ fromDevice = <<>> /\ toDevice' = <<>> /\ toDevice # <<>>
          /\ Working /\ waiting = "none" /\ m = Current
      BY <2>1, TakeInStep, Ids DEF MessageInStep, Take
    <2>3. cached = entered /\ cached' = cached
      BY <1>2, <2>2 DEF WalletInStep, Working, AckUnderWay, DeviceRequest
    <2>4. /\ phase' = phase /\ handler' = handler /\ run' = run /\ peer' = peer
          /\ result' = result /\ protection' = protection /\ entered' = entered
          /\ approved' = approved
      BY <2>1, TakeType
    <2>5. QED
      BY <2>1, <2>2, <2>3, <2>4, ProceedInStep, RefuseInStep DEF TypeOK
  <1>3. CASE DevicePin
    <2>1. PICK ok \in BOOLEAN :
              /\ Take(PinMatrixAck(ok)) /\ waiting = "pin"
              /\ Proceed(job, FALSE, cached) \/ Refuse
      BY <1>3 DEF DevicePin
    <2>2. /\ Reading /\ fromDevice = <<>> /\ toDevice' = <<>>
          /\ Working /\ job = Current
      BY <2>1, TakeInStep, Ids, CurrentRequest DEF MessageInStep
    <2>3. cached = entered /\ cached' = cached
      BY <1>3, <2>1, <2>2 DEF WalletInStep, Working, AckUnderWay, DevicePin
    <2>4. /\ phase' = phase /\ handler' = handler /\ run' = run /\ peer' = peer
          /\ result' = result /\ protection' = protection /\ entered' = entered
          /\ approved' = approved
      BY <2>1, TakeType
    <2>5. QED
      BY <2>1, <2>2, <2>3, <2>4, ProceedInStep, RefuseInStep DEF TypeOK
  <1>4. CASE DevicePassphrase
    <2>1. PICK pp \in Passphrases :
              /\ Take(PassphraseAck(pp)) /\ waiting = "passphrase"
              /\ cached' = pp /\ Proceed(job, FALSE, pp)
      BY <1>4 DEF DevicePassphrase
    <2>2. /\ Reading /\ fromDevice = <<>> /\ toDevice' = <<>>
          /\ Working /\ job = Current /\ pp = entered
      BY <2>1, TakeInStep, Ids, CurrentRequest DEF MessageInStep
    <2>3. /\ phase' = phase /\ handler' = handler /\ run' = run /\ peer' = peer
          /\ result' = result /\ protection' = protection /\ entered' = entered
          /\ approved' = approved
      BY <2>1, TakeType
    <2>4. QED
      BY <2>1, <2>2, <2>3, ProceedInStep
  <1>5. CASE DeviceButton
    <2>1. Take(ButtonAck) /\ waiting' = "owner" /\ fromDevice' = fromDevice
          /\ job' = job /\ cached' = cached /\ waiting = "button"
      BY <1>5 DEF DeviceButton
    <2>2. /\ Reading /\ fromDevice = <<>> /\ toDevice' = <<>>
          /\ Working /\ job = Current
      BY <2>1, TakeInStep, Ids, CurrentRequest DEF MessageInStep
    <2>3. /\ phase' = phase /\ handler' = handler /\ run' = run /\ peer' = peer
          /\ result' = result /\ protection' = protection /\ entered' = entered
          /\ approved' = approved
      BY <2>1, TakeType
    <2>4. phase = "secret"
      BY <2>1, <2>2 DEF PeerInStep, Working
    <2>5. WireInStep'
      BY <2>1, <2>2, <2>3, <2>4 DEF WireInStep, Reading, Current
    <2>6. WalletInStep' /\ PeerInStep' /\ ResultInStep'
      BY <2>1, <2>2, <2>3, <2>4
      DEF WalletInStep, PeerInStep, ResultInStep, Working, AckUnderWay
    <2>7. QED BY <2>5, <2>6
  <1>6. CASE DeviceUnexpected
    <2>1. PICK m \in HostMessages : Take(m) /\ ~Expected(m)
      BY <1>6 DEF DeviceUnexpected
    <2>2. MessageInStep(m)
      BY <2>1, TakeInStep
    <2>3. QED
      BY <2>1, <2>2, Ids, CurrentRequest DEF MessageInStep, Expected
  <1>7. CASE OwnerConfirms \/ OwnerRejects
    <2>1. /\ phase = "secret" /\ Reading /\ Working /\ job = Current
          /\ toDevice = <<>> /\ fromDevice = <<>> /\ waiting = "owner"
      BY <1>7 DEF OwnerConfirms, OwnerRejects, WireInStep, Quiet, Working
    <2>2. /\ phase' = phase /\ handler' = handler /\ run' = run /\ peer' = peer
          /\ result' = result /\ toDevice' = toDevice /\ cached' = cached
          /\ protection' = protection /\ entered' = entered
      BY <1>7 DEF OwnerConfirms, OwnerRejects, hostVars, history
    <2>3. cached = entered
      BY <2>1 DEF WalletInStep, AckUnderWay
    <2>4. CASE OwnerRejects
      BY <2>1, <2>2, <2>3, <2>4, RefuseInStep DEF OwnerRejects, history
    <2>5. CASE OwnerConfirms
      <3>1. AnswerId(Current) \in KeyIds /\ KeyFor(Current, cached) \in Keys
        BY CurrentRequest, KeyForType DEF TypeOK
      <3>2. PICK m \in DeviceMessages : m = Message(AnswerId(Current), KeyFor(Current, cached))
        BY <3>1, DeviceMessageTypes
      <3>3. /\ fromDevice' = <<m>> /\ waiting' = "none"
            /\ approved' = KeyFor(Current, cached)
        BY <2>1, <2>5, <3>2, OneMessage DEF OwnerConfirms, Reply, Idle
      <3>4. m.id \in KeyIds /\ m.body = KeyFor(Current', cached') /\ approved' = m.body
        BY <2>2, <3>1, <3>2, <3>3, Ids DEF Current
      <3>5. ReplyInStep(m)'
        BY <2>1, <2>2, <3>3, <3>4 DEF ReplyInStep, Working
      <3>6. WireInStep'
        BY <2>1, <2>2, <3>3, <3>5, ReplyWire DEF Working, Reading
      <3>7. WalletInStep' /\ PeerInStep' /\ ResultInStep'
        BY <2>1, <2>2, <2>3, <3>3
        DEF WalletInStep, PeerInStep, ResultInStep, Working, AckUnderWay
      <3>8. QED BY <3>6, <3>7
    <2>6. QED BY <1>7, <2>4, <2>5
  <1>8. QED
    BY <1>1, <1>2, <1>3, <1>4, <1>5, <1>6, <1>7
    DEF DeviceStep, OwnerStep

(* A run that starts when nothing is under way starts in step.               *)
LEMMA StartInStep ==
    ASSUME ControlOK, StartRun, Quiet
    PROVE  InStep'
  <1>1. phase' = "initialize" /\ handler' = "none" /\ result' = Nothing /\ Quiet'
    BY DEF StartRun, ControlOK, ReadPhases, Quiet, wires, deviceVars
  <1>2. entered' = NoPassphrase
    BY DEF StartRun
  <1>3. WireInStep'
    BY <1>1, QuietWire DEF Reading, ReadPhases
  <1>4. WalletInStep' /\ PeerInStep' /\ ResultInStep'
    BY <1>1, <1>2 DEF WalletInStep, PeerInStep, ResultInStep, Working, AckUnderWay
  <1>5. QED
    BY <1>3, <1>4 DEF InStep

(* The faults that leave nothing behind.                                     *)
LEMMA FaultInStep ==
    ASSUME InStep, SendFails \/ Unplug
    PROVE  InStep'
  <1> USE DEF InStep
  <1>1. CASE SendFails
    <2>1. Quiet
      BY <1>1 DEF SendFails, WireInStep, Reading, ReadPhases
    <2>2. phase' = "returned" /\ handler' = "none" /\ result' = Nothing /\ Quiet'
      BY <1>1, <2>1 DEF SendFails, Return, Quiet, wires, deviceVars
    <2>3. WireInStep'
      BY <2>2, QuietWire DEF Reading, ReadPhases
    <2>4. WalletInStep' /\ PeerInStep' /\ ResultInStep'
      BY <2>2 DEF WalletInStep, PeerInStep, ResultInStep, Working, AckUnderWay
    <2>5. QED BY <2>3, <2>4
  <1>2. CASE Unplug
    <2>1. phase' = "returned" /\ handler' = "none" /\ Quiet'
      BY <1>2 DEF Unplug, Running, Return, Idle, Quiet, WireInStep, Working
    <2>2. WireInStep'
      BY <2>1, QuietWire DEF Reading, ReadPhases
    <2>3. WalletInStep' /\ PeerInStep'
      BY <2>1 DEF WalletInStep, PeerInStep, Working, AckUnderWay
    <2>4. ResultInStep'
      BY <1>2 DEF Unplug, Return, ResultInStep, Password
    <2>5. QED BY <2>2, <2>3, <2>4
  <1>3. QED
    BY <1>1, <1>2

LEMMA LockstepStep == Inv /\ Inv' /\ Lockstep /\ [Next]_vars => Lockstep'
  <1> SUFFICES ASSUME Inv, Inv', Lockstep, [Next]_vars, clean'
               PROVE  InStep'
    BY DEF Lockstep
  <1> USE DEF Inv
  <1>1. CASE HostStep \/ UserStep \/ DeviceStep \/ OwnerStep
    <2>1. clean' = clean
      BY <1>1, KeepsCounters DEF counters
    <2>2. QED
      BY <1>1, <2>1, HostInStep, DeviceInStep DEF Lockstep
  <1>2. CASE StartRun
    <2>1. Quiet
      BY <1>2 DEF StartRun
    <2>2. QED
      BY <1>2, <2>1, StartInStep
  <1>3. CASE SendFails \/ Unplug
    <2>1. clean' = clean
      BY <1>3 DEF SendFails, Unplug
    <2>2. QED
      BY <1>3, <2>1, FaultInStep DEF Lockstep
  <1>4. CASE Kill \/ WriteTimesOut
    BY <1>4 DEF Kill, WriteTimesOut
  <1>5. CASE UNCHANGED vars
    <2>1. InStep
      BY <1>5 DEF Lockstep, vars, history, counters
    <2>2. QED
      BY <1>5, <2>1
      DEF vars, hostVars, wires, deviceVars, history, InStep, WireInStep, WalletInStep,
          PeerInStep, ResultInStep, Quiet, Reading, Working, AckUnderWay, MessageInStep,
          ReplyInStep, Current
  <1>6. QED
    BY <1>1, <1>2, <1>3, <1>4, <1>5 DEF Next, FaultStep

(* In a clean run the host and the device move in step, for any number of    *)
(* runs by anybody and whatever happened in earlier runs.                    *)
THEOREM LockstepCorrect == Spec => []Lockstep
  <1>1. Init => Lockstep
    BY InitInStep DEF Lockstep
  <1>2. QED
    BY <1>1, InvCorrect, LockstepStep, PTL DEF Spec

(* So the password of a clean run is the right one.                          *)
THEOREM PasswordCorrect == Spec => []PasswordIsCorrect
  <1>1. Lockstep => PasswordIsCorrect
    BY DEF Lockstep, InStep, ResultInStep, PasswordIsCorrect
  <1>2. QED
    BY <1>1, LockstepCorrect, PTL

(* And its owner approved it on the device in that run.                      *)
THEOREM ConfirmedCorrect == Spec => []ConfirmedBeforePassword
  <1>1. Lockstep => ConfirmedBeforePassword
    BY DEF Lockstep, InStep, ResultInStep, ConfirmedBeforePassword
  <1>2. QED
    BY <1>1, LockstepCorrect, PTL

(* A clean run leaves no message and no question to the owner behind.        *)
THEOREM CleanCorrect == Spec => []LeavesNothingBehind
  <1>1. Lockstep => LeavesNothingBehind
    BY DEF Lockstep, InStep, WireInStep, LeavesNothingBehind, Running, Reading, ReadPhases
  <1>2. QED
    BY <1>1, LockstepCorrect, PTL

-----------------------------------------------------------------------------
(* The host never waits for a device that waits for the host.                *)

LEMMA LastAppend ==
    ASSUME NEW S, NEW s \in Seq(S), NEW m \in S
    PROVE  Append(s, m) # <<>> /\ Last(Append(s, m)) = m
  BY DEF Last

LEMMA LastTail ==
    ASSUME NEW S, NEW s \in Seq(S), s # <<>>
    PROVE  IF Tail(s) # <<>> THEN Last(Tail(s)) = Last(s) ELSE Last(s) = Head(s)
  <1>1. /\ Len(s) \in Nat \ {0} /\ Len(Tail(s)) = Len(s) - 1 /\ Tail(s) \in Seq(S)
        /\ \A i \in 1..Len(Tail(s)) : Tail(s)[i] = s[i + 1]
    BY HeadTailProperties, EmptySeq
  <1>2. CASE Tail(s) # <<>>
    <2>1. Len(Tail(s)) \in Nat \ {0}
      BY <1>1, <1>2, EmptySeq
    <2>2. Tail(s)[Len(Tail(s))] = s[Len(s)]
      BY <1>1, <2>1
    <2>3. QED
      BY <1>2, <2>2 DEF Last
  <1>3. CASE Tail(s) = <<>>
    <2>1. Len(Tail(s)) = 0
      BY <1>3, EmptySeq, Zenon
    <2>2. Len(s) = 1
      <3>1. \A n \in Nat : n - 1 = 0 => n = 1
        OBVIOUS
      <3>2. QED
        BY <1>1, <2>1, <3>1, Zenon
    <2>3. QED
      BY <1>3, <2>2 DEF Last
  <1>4. QED
    BY <1>2, <1>3

(* What the device does with the message it takes: Initialize is answered    *)
(* with the features, and no other message is.                               *)
LEMMA DeviceAnswers ==
    ASSUME Inv, DeviceStep
    PROVE  \E m \in HostMessages :
              /\ Take(m)
              /\ \/ m = Initialize /\ \E r \in DeviceMessages : Reply(r)
                 \/ /\ m.id # "initialize"
                    /\ \E r \in DeviceMessages : Reply(r) /\ r.id # "features"
                 \/ m.id # "initialize" /\ waiting' = "owner" /\ fromDevice' = fromDevice
  <1> USE DEF Inv, TypeInv
  <1>1. ASSUME Refuse
        PROVE  \E r \in DeviceMessages : Reply(r) /\ r.id # "features"
    BY <1>1, DeviceMessageTypes, Ids DEF Refuse, RefusalIds
  <1>2. ASSUME NEW m \in Requests, NEW lock \in BOOLEAN, NEW w \in Wallets, Proceed(m, lock, w)
        PROVE  \E r \in DeviceMessages : Reply(r) /\ r.id # "features"
    <2>1. CASE \E id \in PromptIds : Reply(Message(id, Nothing))
      BY <2>1, DeviceMessageTypes, Ids DEF PromptIds
    <2>2. CASE Reply(Message("public_key", KeyFor(m, w)))
      BY <2>2, KeyForType, DeviceMessageTypes, Ids DEF KeyIds
    <2>3. QED
      BY <1>2, <2>1, <2>2 DEF Proceed, Prompt, PromptIds
  <1>3. CASE DeviceInitialize
    BY <1>3, HostMessageTypes, DeviceMessageTypes DEF DeviceInitialize
  <1>4. CASE DeviceRequest
    <2>1. PICK m \in Requests : Take(m) /\ (Proceed(m, locked, cached) \/ Refuse)
      BY <1>4 DEF DeviceRequest
    <2>2. m \in HostMessages /\ m.id # "initialize"
      BY Ids, HostMessageTypes
    <2>3. QED
      BY <1>1, <1>2, <2>1, <2>2 DEF TypeOK
  <1>5. CASE DevicePin
    <2>1. PICK ok \in BOOLEAN : /\ Take(PinMatrixAck(ok)) /\ waiting = "pin"
                               /\ (Proceed(job, FALSE, cached) \/ Refuse)
      BY <1>5 DEF DevicePin
    <2>2. PinMatrixAck(ok) \in HostMessages /\ PinMatrixAck(ok).id # "initialize"
      BY Ids, HostMessageTypes
    <2>3. job \in Requests
      BY <2>1 DEF JobOK
    <2>4. QED
      BY <1>1, <1>2, <2>1, <2>2, <2>3 DEF TypeOK
  <1>6. CASE DevicePassphrase
    <2>1. PICK pp \in Passphrases : /\ Take(PassphraseAck(pp)) /\ waiting = "passphrase"
                                   /\ Proceed(job, FALSE, pp)
      BY <1>6 DEF DevicePassphrase
    <2>2. PassphraseAck(pp) \in HostMessages /\ PassphraseAck(pp).id # "initialize"
      BY Ids, HostMessageTypes
    <2>3. job \in Requests /\ pp \in Wallets
      BY <2>1 DEF JobOK, Wallets
    <2>4. QED
      BY <1>2, <2>1, <2>2, <2>3
  <1>7. CASE DeviceButton
    BY <1>7, Ids, HostMessageTypes DEF DeviceButton
  <1>8. CASE DeviceUnexpected
    <2>1. PICK m \in HostMessages : Take(m) /\ ~Expected(m) /\ Refuse
      BY <1>8 DEF DeviceUnexpected
    <2>2. QED
      BY <1>1, <2>1 DEF Expected
  <1>9. QED
    BY <1>3, <1>4, <1>5, <1>6, <1>7, <1>8 DEF DeviceStep

LEMMA AwaitedDevice ==
    ASSUME Inv, Awaited, DeviceStep
    PROVE  Awaited'
  <1> USE DEF Inv, TypeInv
  <1>1. PICK m \in HostMessages :
              /\ Take(m)
              /\ \/ m = Initialize /\ \E r \in DeviceMessages : Reply(r)
                 \/ /\ m.id # "initialize"
                    /\ \E r \in DeviceMessages : Reply(r) /\ r.id # "features"
                 \/ m.id # "initialize" /\ waiting' = "owner" /\ fromDevice' = fromDevice
    BY DeviceAnswers
  <1>2. /\ toDevice # <<>> /\ m = Head(toDevice) /\ toDevice' = Tail(toDevice)
        /\ phase' = phase /\ handler' = handler
    BY <1>1 DEF Take, hostVars
  <1>3. IF toDevice' # <<>> THEN Last(toDevice') = Last(toDevice) ELSE Last(toDevice) = m
    BY <1>2, LastTail DEF TypeOK
  <1>4. ASSUME NEW r \in DeviceMessages, Reply(r)
        PROVE  fromDevice' # <<>> /\ Last(fromDevice') = r
    BY <1>4, LastAppend DEF TypeOK, Reply
  <1>5. AwaitedStatus'
    <2>1. CASE Reading /\ phase = "status" /\ toDevice' = <<>>
      <3>1. m = Initialize
        BY <1>2, <1>3, <2>1 DEF Awaited, AwaitedStatus
      <3>2. QED
        BY <1>1, <1>4, <2>1, <3>1, Ids DEF AwaitedStatus
    <2>2. QED
      BY <1>2, <1>3, <2>1 DEF Awaited, AwaitedStatus, Reading
  <1>6. AwaitedKey'
    <2>1. CASE Reading /\ Working /\ toDevice' = <<>>
      <3>1. m.id # "initialize"
        BY <1>2, <1>3, <2>1 DEF Awaited, AwaitedKey
      <3>2. QED
        BY <1>1, <1>4, <2>1, <3>1, Ids DEF AwaitedKey
    <2>2. QED
      BY <1>2, <1>3, <2>1 DEF Awaited, AwaitedKey, Reading, Working
  <1>7. QED
    BY <1>5, <1>6 DEF Awaited

LEMMA AwaitedHost ==
    ASSUME Inv, Awaited, HostStep \/ UserStep
    PROVE  Awaited'
  <1> USE DEF Inv, TypeInv
  <1>1. ASSUME NEW m \in HostMessages, Send(m)
        PROVE  toDevice' # <<>> /\ Last(toDevice') = m
    BY <1>1, LastAppend DEF TypeOK, Send
  <1>2. CASE SendInitialize
    BY <1>1, <1>2, HostMessageTypes
    DEF SendInitialize, Awaited, AwaitedStatus, AwaitedKey, Working
  <1>3. CASE SendRequest \/ SendEcdh
    <2>1. PICK m \in HostMessages : Send(m) /\ m.id # "initialize"
      BY <1>3, HostMessageTypes, Ids DEF SendRequest, SendEcdh, TypeOK, Runs
    <2>2. phase' # "status"
      BY <1>3 DEF SendRequest, SendEcdh
    <2>3. QED
      BY <1>1, <2>1, <2>2 DEF Awaited, AwaitedStatus, AwaitedKey
  <1>4. CASE AnswerPin \/ AnswerPassphrase \/ SendButtonAck
    <2>1. PICK m \in HostMessages : Send(m) /\ m.id # "initialize"
      BY <1>4, HostMessageTypes, Ids DEF AnswerPin, AnswerPassphrase, SendButtonAck
    <2>2. phase' # "status"
      BY <1>4 DEF AnswerPin, AnswerPassphrase, SendButtonAck, ReadEmpty
    <2>3. QED
      BY <1>1, <2>1, <2>2 DEF Awaited, AwaitedStatus, AwaitedKey
  <1>5. CASE PromptFails
    BY <1>5 DEF PromptFails, Return, Awaited, AwaitedStatus, AwaitedKey, Reading, ReadPhases
  <1>6. CASE ReadFeatures
    <2>1. /\ Receive({"features"}) /\ ReadEmpty
          /\ Reading /\ fromDevice # <<>> /\ Head(fromDevice).id = "features"
          /\ fromDevice' = Tail(fromDevice) /\ toDevice' = toDevice
      BY <1>6 DEF ReadFeatures, Receive, Reading
    <2>2. phase' # "status" /\ waiting' = waiting
      BY <2>1, ReceiveType DEF ReadEmpty
    <2>3. CASE Working /\ toDevice = <<>> /\ waiting # "owner"
      <3>1. Last(fromDevice).id # "features"
        BY <2>1, <2>3 DEF Awaited, AwaitedKey
      <3>2. Tail(fromDevice) # <<>> /\ Last(Tail(fromDevice)) = Last(fromDevice)
        BY <2>1, <3>1, LastTail DEF TypeOK
      <3>3. QED
        BY <2>1, <2>2, <2>3, <3>1, <3>2 DEF Awaited, AwaitedStatus, AwaitedKey
    <2>4. CASE Working /\ ~(toDevice = <<>> /\ waiting # "owner")
      BY <2>1, <2>2, <2>4 DEF Awaited, AwaitedStatus, AwaitedKey
    <2>5. CASE phase = "status"
      BY <2>1, <2>2, <2>5 DEF ReadEmpty, Awaited, AwaitedStatus, AwaitedKey, Working
    <2>6. QED
      BY <2>1, <2>3, <2>4, <2>5 DEF Reading, ReadPhases, Working
  <1>7. CASE ReadPrompt \/ ReadKey \/ ReadError
    <2>1. ~Reading'
      BY <1>7
      DEF ReadPrompt, ReadKey, ReadError, Receive, ReadEmpty, Return, Reading, ReadPhases,
          PromptIds
    <2>2. QED
      BY <2>1 DEF Awaited, AwaitedStatus, AwaitedKey
  <1>8. QED
    BY <1>2, <1>3, <1>4, <1>5, <1>6, <1>7 DEF HostStep, UserStep

LEMMA AwaitedStep == Inv /\ Awaited /\ [Next]_vars => Awaited'
  <1> SUFFICES ASSUME Inv, Awaited, [Next]_vars PROVE Awaited'
    OBVIOUS
  <1>1. CASE HostStep \/ UserStep
    BY <1>1, AwaitedHost
  <1>2. CASE DeviceStep
    BY <1>2, AwaitedDevice
  <1>3. CASE OwnerStep
    <2>1. PICK r \in DeviceMessages : Reply(r) /\ r.id # "features"
      <3>1. CASE OwnerRejects
        BY <3>1, DeviceMessageTypes, Ids DEF OwnerRejects, Refuse, RefusalIds
      <3>2. CASE OwnerConfirms
        <4>1. job \in Requests /\ cached \in Wallets
          BY <3>2 DEF OwnerConfirms, Inv, TypeInv, TypeOK, JobOK
        <4>2. QED
          BY <3>2, <4>1, KeyForType, DeviceMessageTypes, Ids DEF OwnerConfirms, KeyIds
      <3>3. QED
        BY <1>3, <3>1, <3>2 DEF OwnerStep
    <2>2. fromDevice' # <<>> /\ Last(fromDevice') = r
      BY <2>1, LastAppend DEF Reply, Inv, TypeInv, TypeOK
    <2>3. toDevice' = toDevice /\ phase' = phase /\ handler' = handler
      BY <1>3 DEF OwnerStep, OwnerConfirms, OwnerRejects, hostVars
    <2>4. QED
      BY <2>1, <2>2, <2>3 DEF Awaited, AwaitedStatus, AwaitedKey, Reading, Working
  <1>4. CASE StartRun \/ FaultStep
    <2>1. ~Reading'
      BY <1>4
      DEF StartRun, FaultStep, SendFails, Kill, WriteTimesOut, Unplug, Return, Running,
          Reading, ReadPhases
    <2>2. QED
      BY <2>1 DEF Awaited, AwaitedStatus, AwaitedKey
  <1>5. CASE UNCHANGED vars
    BY <1>5
    DEF vars, hostVars, wires, deviceVars, Awaited, AwaitedStatus, AwaitedKey, Reading, Working
  <1>6. QED
    BY <1>1, <1>2, <1>3, <1>4, <1>5 DEF Next

(* The message that a waiting host waits for is always on its way, or its    *)
(* owner is being asked, after any number of faults in any runs.             *)
THEOREM AwaitedCorrect == Spec => []Awaited
  <1>1. Init => Awaited
    BY DEF Init, Awaited, AwaitedStatus, AwaitedKey, Reading, ReadPhases
  <1>2. QED
    BY <1>1, InvCorrect, AwaitedStep, PTL DEF Spec

(* So host and device never wait for each other, whatever was interrupted.   *)
THEOREM NoMutualWaitCorrect == Spec => []NoMutualWait
  <1>1. Awaited => NoMutualWait
    BY DEF Awaited, AwaitedStatus, AwaitedKey, NoMutualWait, Reading, Working, ReadPhases
  <1>2. QED
    BY <1>1, AwaitedCorrect, PTL

-----------------------------------------------------------------------------
(* What one fault leaves behind.                                             *)

Features == Message("features", Nothing)
Refusals == {Message(id, Nothing) : id \in RefusalIds}
Acks     == HostMessages \ (Requests \union {Initialize})

(* A run that was interrupted leaves at most one message under way, or the   *)
(* owner in front of a question.                                             *)
OneLeft ==
    \/ waiting # "owner" /\ fromDevice = <<>> /\ \E m \in HostMessages : toDevice = <<m>>
    \/ waiting # "owner" /\ toDevice = <<>> /\ \E r \in DeviceMessages : fromDevice = <<r>>
    \/ waiting = "owner" /\ toDevice = <<>> /\ fromDevice = <<>>

(* The next run puts Initialize behind it,                                   *)
InFront ==
    \/ /\ waiting # "owner" /\ fromDevice = <<>>
       /\ \E m \in HostMessages : toDevice = <<m, Initialize>>
    \/ /\ waiting # "owner" /\ toDevice = <<Initialize>>
       /\ \E r \in DeviceMessages : fromDevice = <<r>>
    \/ waiting = "owner" /\ toDevice = <<Initialize>> /\ fromDevice = <<>>
    \/ /\ waiting = "none" /\ cached = NoPassphrase /\ toDevice = <<>>
       /\ \E r \in DeviceMessages : fromDevice = <<r, Features>>

(* and takes what was left for the status.                                   *)
Restarting ==
    \/ waiting # "owner" /\ toDevice = <<Initialize>> /\ fromDevice = <<>>
    \/ /\ waiting = "none" /\ cached = NoPassphrase
       /\ toDevice = <<>> /\ fromDevice = <<Features>>

(* Its request follows; the features it has not read are passed over.        *)
Late ==
    \/ waiting # "owner" /\ fromDevice = <<>> /\ toDevice = <<Initialize, Current>>
    \/ /\ waiting = "none" /\ cached = NoPassphrase
       /\ fromDevice = <<Features>> /\ toDevice = <<Current>>
    \/ /\ waiting # "owner" /\ cached = NoPassphrase /\ toDevice = <<>>
       /\ phase = "peerKey" => waiting # "button"
       /\ \E r \in DeviceMessages : fromDevice = <<Features, r>> /\ ReplyInStep(r)

(* Or it answered a prompt of the run before: the device will refuse that,   *)
(* in front of the requests q.                                               *)
Refusing(q) ==
    \/ /\ waiting # "owner" /\ fromDevice = <<>>
       /\ \E a \in Acks : toDevice = <<Initialize, a>> \o q
    \/ /\ waiting = "none" /\ fromDevice = <<Features>>
       /\ \E a \in Acks : toDevice = <<a>> \o q
    \/ waiting = "none" /\ toDevice = q /\ \E f \in Refusals : fromDevice = <<Features, f>>

(* The same when the features are read, or the request is answered.          *)
RefusingStill ==
    \/ /\ waiting = "none" /\ fromDevice = <<>>
       /\ \E a \in Acks, m \in HostMessages : toDevice = <<a, m>>
    \/ /\ waiting = "none"
       /\ \E f \in Refusals, m \in HostMessages : toDevice = <<m>> /\ fromDevice = <<f>>
    \/ /\ waiting # "owner" /\ toDevice = <<>>
       /\ \E f \in Refusals, r \in DeviceMessages :
             fromDevice = <<f, r>> \/ fromDevice = <<Features, f, r>>

RefusingRequest == RefusingStill \/ \E m \in HostMessages : Refusing(<<m>>)

(* A run that is late by what the interrupted run left has no key yet.       *)
Trailing ==
    /\ result = Nothing
    /\ phase \in {"initialize", "status", "request", "returned"}
         \/ phase = IF run.legacy THEN "secret" ELSE "peerKey"
    /\ handler # "none" => phase = "status"
    /\ phase \in {"initialize", "status"} => entered = NoPassphrase
    /\ phase \in {"initialize", "returned"} => OneLeft
    /\ phase = "status" => IF handler = "none" THEN InFront ELSE Restarting
    /\ phase = "request" => (Restarting /\ entered = NoPassphrase) \/ Refusing(<<>>)
    /\ Working => (Late /\ entered = NoPassphrase) \/ RefusingRequest

OneFault == faults <= 1 => InStep \/ (faults = 1 /\ Trailing)

(* Short queues, element by element.                                         *)
LEMMA AppendOne ==
    ASSUME NEW a, NEW b
    PROVE  Append(<<a>>, b) = <<a, b>>
  <1> DEFINE S == {a, b}
  <1>1. Append(<<a>>, b) \in Seq(S) /\ <<a, b>> \in Seq(S)
    OBVIOUS
  <1>2. Len(Append(<<a>>, b)) = 2 /\ Len(<<a, b>>) = 2
    OBVIOUS
  <1>3. \A i \in 1..2 : (Append(<<a>>, b))[i] = <<a, b>>[i]
    <2>1. (Append(<<a>>, b))[1] = a /\ (Append(<<a>>, b))[2] = b
      OBVIOUS
    <2>2. QED
      BY <2>1
  <1> HIDE DEF S
  <1>4. QED
    BY <1>1, <1>2, <1>3, SeqEqual

LEMMA AppendTwo ==
    ASSUME NEW a, NEW b, NEW c
    PROVE  Append(<<a, b>>, c) = <<a, b, c>>
  <1> DEFINE S == {a, b, c}
  <1>1. Append(<<a, b>>, c) \in Seq(S) /\ <<a, b, c>> \in Seq(S)
    OBVIOUS
  <1>2. Len(Append(<<a, b>>, c)) = 3 /\ Len(<<a, b, c>>) = 3
    OBVIOUS
  <1>3. \A i \in 1..3 : (Append(<<a, b>>, c))[i] = <<a, b, c>>[i]
    <2>1. (Append(<<a, b>>, c))[1] = a /\ (Append(<<a, b>>, c))[2] = b /\ (Append(<<a, b>>, c))[3] = c
      OBVIOUS
    <2>2. QED
      BY <2>1
  <1> HIDE DEF S
  <1>4. QED
    BY <1>1, <1>2, <1>3, SeqEqual

LEMMA OneAndOne ==
    ASSUME NEW a, NEW b
    PROVE  <<a>> \o <<b>> = <<a, b>>
  <1> DEFINE S == {a, b}
  <1>1. <<a>> \o <<b>> \in Seq(S) /\ <<a, b>> \in Seq(S)
    OBVIOUS
  <1>2. Len(<<a>> \o <<b>>) = 2 /\ Len(<<a, b>>) = 2
    OBVIOUS
  <1>3. \A i \in 1..2 : (<<a>> \o <<b>>)[i] = <<a, b>>[i]
    <2>1. (<<a>> \o <<b>>)[1] = a /\ (<<a>> \o <<b>>)[2] = b
      OBVIOUS
    <2>2. QED
      BY <2>1
  <1> HIDE DEF S
  <1>4. QED
    BY <1>1, <1>2, <1>3, SeqEqual

LEMMA TwoAndOne ==
    ASSUME NEW a, NEW b, NEW c
    PROVE  <<a, b>> \o <<c>> = <<a, b, c>>
  <1> DEFINE S == {a, b, c}
  <1>1. <<a, b>> \o <<c>> \in Seq(S) /\ <<a, b, c>> \in Seq(S)
    OBVIOUS
  <1>2. Len(<<a, b>> \o <<c>>) = 3 /\ Len(<<a, b, c>>) = 3
    OBVIOUS
  <1>3. \A i \in 1..3 : (<<a, b>> \o <<c>>)[i] = <<a, b, c>>[i]
    <2>1. (<<a, b>> \o <<c>>)[1] = a /\ (<<a, b>> \o <<c>>)[2] = b /\ (<<a, b>> \o <<c>>)[3] = c
      OBVIOUS
    <2>2. QED
      BY <2>1
  <1> HIDE DEF S
  <1>4. QED
    BY <1>1, <1>2, <1>3, SeqEqual

LEMMA AndNone ==
    ASSUME NEW a, NEW b
    PROVE  <<a>> \o <<>> = <<a>> /\ <<a, b>> \o <<>> = <<a, b>>
  <1>1. <<a, b>> \o <<>> = <<a, b>>
    OBVIOUS
  <1>2. <<a>> \o <<>> = <<a>>
    OBVIOUS
  <1>3. QED
    BY <1>1, <1>2

LEMMA Taken ==
    ASSUME NEW a, NEW b, NEW c
    PROVE  /\ Head(<<a, b>>) = a /\ Tail(<<a, b>>) = <<b>> /\ <<a, b>> # <<>>
           /\ Head(<<a, b, c>>) = a /\ Tail(<<a, b, c>>) = <<b, c>> /\ <<a, b, c>> # <<>>
  <1>1. Head(<<a, b>>) = a /\ <<a, b>> # <<>>
    OBVIOUS
  <1>2. Tail(<<a, b>>) = <<b>>
    OBVIOUS
  <1>3. Head(<<a, b, c>>) = a /\ <<a, b, c>> # <<>>
    OBVIOUS
  <1>4. Tail(<<a, b, c>>) = <<b, c>>
    OBVIOUS
  <1>5. QED
    BY <1>1, <1>2, <1>3, <1>4

LEMMA Kinds ==
    /\ Features \in DeviceMessages /\ Features.id = "features"
    /\ \A r \in DeviceMessages : r.id = "features" => r = Features
    /\ Refusals \subseteq DeviceMessages /\ \A f \in Refusals : f.id \in RefusalIds
    /\ Initialize \in HostMessages /\ Initialize \notin Acks /\ Initialize \notin Requests
    /\ Acks \subseteq HostMessages /\ Requests \subseteq HostMessages
    /\ ButtonAck \in Acks /\ \A ok \in BOOLEAN : PinMatrixAck(ok) \in Acks
    /\ \A pp \in Passphrases : PassphraseAck(pp) \in Acks
  <1>1. Refusals \subseteq DeviceMessages
    BY DeviceMessageTypes DEF Refusals
  <1>2. \A f \in Refusals : f.id \in RefusalIds
    BY Ids DEF Refusals
  <1>3. Features \in DeviceMessages /\ Features.id = "features"
    BY DeviceMessageTypes, Ids DEF Features
  <1>4. ASSUME NEW r \in DeviceMessages, r.id = "features"
        PROVE  r = Features
    BY <1>4, Ids DEF DeviceMessages, Features, KeyIds
  <1>5. Initialize \notin Requests
    BY Ids
  <1>6. ButtonAck \in Acks /\ \A ok \in BOOLEAN : PinMatrixAck(ok) \in Acks
    BY HostMessageTypes, Ids DEF Acks
  <1>7. \A pp \in Passphrases : PassphraseAck(pp) \in Acks
    BY HostMessageTypes, Ids DEF Acks
  <1>8. QED
    BY <1>1, <1>2, <1>3, <1>4, <1>5, <1>6, <1>7, HostMessageTypes DEF Acks, HostMessages

(* What the device does with the message it takes, once more: what the       *)
(* answer leaves it waiting for.                                             *)
LEMMA Served ==
    ASSUME Inv, DeviceStep
    PROVE  \E m \in HostMessages :
              /\ Take(m)
              /\ m = Initialize => /\ Reply(Features)
                                   /\ waiting' = "none" /\ cached' = NoPassphrase
              /\ m \in Acks /\ waiting = "none" =>
                    waiting' = "none" /\ \E f \in Refusals : Reply(f)
              /\ \/ waiting' # "owner" /\ \E r \in DeviceMessages : Reply(r)
                 \/ waiting = "button" /\ waiting' = "owner" /\ fromDevice' = fromDevice
  <1> USE DEF Inv, TypeInv
  <1>1. ASSUME Refuse
        PROVE  waiting' = "none" /\ \E f \in Refusals : f \in DeviceMessages /\ Reply(f)
    BY <1>1, Kinds DEF Refuse, Refusals, Idle
  <1>2. ASSUME NEW m \in Requests, NEW lock \in BOOLEAN, NEW w \in Wallets, Proceed(m, lock, w)
        PROVE  waiting' # "owner" /\ \E r \in DeviceMessages : Reply(r)
    <2>1. CASE \E id \in PromptIds : Reply(Message(id, Nothing))
      BY <1>2, <2>1, DeviceMessageTypes DEF Proceed, Prompt, Idle
    <2>2. CASE Reply(Message("public_key", KeyFor(m, w)))
      BY <1>2, <2>2, KeyForType, DeviceMessageTypes DEF KeyIds, Proceed, Prompt, Idle
    <2>3. QED
      BY <1>2, <2>1, <2>2 DEF Proceed, Prompt, PromptIds
  <1>3. CASE DeviceInitialize
    BY <1>3, Kinds DEF DeviceInitialize, Idle, Features
  <1>4. CASE DeviceRequest
    <2>1. PICK m \in Requests : Take(m) /\ (Proceed(m, locked, cached) \/ Refuse)
      BY <1>4 DEF DeviceRequest
    <2>2. m \in HostMessages /\ m # Initialize /\ m \notin Acks
      BY Kinds DEF Acks
    <2>3. waiting' # "owner" /\ \E r \in DeviceMessages : Reply(r)
      BY <1>1, <1>2, <2>1 DEF TypeOK
    <2>4. QED
      BY <2>1, <2>2, <2>3
  <1>5. CASE DevicePin
    <2>1. PICK ok \in BOOLEAN : /\ Take(PinMatrixAck(ok)) /\ waiting = "pin"
                               /\ (Proceed(job, FALSE, cached) \/ Refuse)
      BY <1>5 DEF DevicePin
    <2>2. PinMatrixAck(ok) \in HostMessages /\ PinMatrixAck(ok) # Initialize
      BY Kinds
    <2>3. job \in Requests
      BY <2>1 DEF JobOK
    <2>4. waiting' # "owner" /\ \E r \in DeviceMessages : Reply(r)
      BY <1>1, <1>2, <2>1, <2>3 DEF TypeOK
    <2>5. QED
      BY <2>1, <2>2, <2>4
  <1>6. CASE DevicePassphrase
    <2>1. PICK pp \in Passphrases : /\ Take(PassphraseAck(pp)) /\ waiting = "passphrase"
                                   /\ Proceed(job, FALSE, pp)
      BY <1>6 DEF DevicePassphrase
    <2>2. PassphraseAck(pp) \in HostMessages /\ PassphraseAck(pp) # Initialize
      BY Kinds
    <2>3. job \in Requests /\ pp \in Wallets
      BY <2>1 DEF JobOK, Wallets
    <2>4. waiting' # "owner" /\ \E r \in DeviceMessages : Reply(r)
      BY <1>2, <2>1, <2>3
    <2>5. QED
      BY <2>1, <2>2, <2>4
  <1>7. CASE DeviceButton
    BY <1>7, Kinds DEF DeviceButton
  <1>8. CASE DeviceUnexpected
    <2>1. PICK m \in HostMessages : Take(m) /\ ~Expected(m) /\ Refuse
      BY <1>8 DEF DeviceUnexpected
    <2>2. m # Initialize
      BY <2>1, Ids DEF Expected
    <2>3. QED
      BY <1>1, <2>1, <2>2
  <1>9. QED
    BY <1>3, <1>4, <1>5, <1>6, <1>7, <1>8 DEF DeviceStep

(* The owner presses a button.                                               *)
LEMMA Pressed ==
    ASSUME Inv, OwnerStep
    PROVE  /\ waiting = "owner" /\ waiting' = "none" /\ toDevice' = toDevice
           /\ \E r \in DeviceMessages : Reply(r)
           /\ UNCHANGED hostVars /\ entered' = entered
  <1>1. CASE OwnerConfirms
    <2>1. job \in Requests
      BY <1>1 DEF OwnerConfirms, Inv, TypeInv, JobOK
    <2>2. Message(AnswerId(job), KeyFor(job, cached)) \in DeviceMessages
      BY <2>1, KeyForType, DeviceMessageTypes DEF Inv, TypeInv, TypeOK
    <2>3. QED
      BY <1>1, <2>2 DEF OwnerConfirms, Idle
  <1>2. CASE OwnerRejects
    BY <1>2, DeviceMessageTypes DEF OwnerRejects, Refuse, Idle, history
  <1>3. QED
    BY <1>1, <1>2 DEF OwnerStep

(* The device and its owner deal with what is under way in order.            *)
LEMMA OneLeftStays ==
    ASSUME Inv, OneLeft, DeviceStep \/ OwnerStep
    PROVE  OneLeft'
  <1>1. CASE DeviceStep
    <2>1. PICK m \in HostMessages :
              /\ Take(m)
              /\ \/ waiting' # "owner" /\ \E r \in DeviceMessages : Reply(r)
                 \/ waiting' = "owner" /\ fromDevice' = fromDevice
      BY <1>1, Served
    <2>2. /\ toDevice # <<>> /\ toDevice' = Tail(toDevice)
      BY <2>1 DEF Take
    <2>3. toDevice' = <<>> /\ fromDevice = <<>>
      BY <2>2, OneMessage DEF OneLeft
    <2>4. CASE waiting' # "owner" /\ \E r \in DeviceMessages : Reply(r)
      BY <2>3, <2>4, OneMessage DEF Reply, OneLeft
    <2>5. CASE waiting' = "owner" /\ fromDevice' = fromDevice
      BY <2>3, <2>5 DEF OneLeft
    <2>6. QED
      BY <2>1, <2>4, <2>5
  <1>2. CASE OwnerStep
    <2>1. /\ waiting = "owner" /\ waiting' = "none" /\ toDevice' = toDevice
          /\ \E r \in DeviceMessages : Reply(r)
      BY <1>2, Pressed
    <2>2. toDevice' = <<>> /\ fromDevice = <<>>
      BY <2>1 DEF OneLeft
    <2>3. QED
      BY <2>1, <2>2, OneMessage DEF Reply, OneLeft
  <1>3. QED
    BY <1>1, <1>2

LEMMA RestartingStays ==
    ASSUME Inv, Restarting, DeviceStep \/ OwnerStep
    PROVE  Restarting'
  <1>1. DeviceStep /\ toDevice = <<Initialize>> /\ fromDevice = <<>>
    <2>1. waiting # "owner"
      BY DEF Restarting
    <2>2. DeviceStep
      BY <2>1, Pressed
    <2>3. toDevice # <<>>
      BY <2>2, Served DEF Take
    <2>4. QED
      BY <2>2, <2>3 DEF Restarting
  <1>2. PICK m \in HostMessages :
            /\ Take(m)
            /\ m = Initialize => Reply(Features) /\ waiting' = "none" /\ cached' = NoPassphrase
    BY <1>1, Served
  <1>3. m = Initialize /\ toDevice' = <<>>
    BY <1>1, <1>2, OneMessage DEF Take
  <1>4. fromDevice' = <<Features>>
    BY <1>1, <1>2, <1>3, OneMessage DEF Reply
  <1>5. QED
    BY <1>2, <1>3, <1>4 DEF Restarting

(* Unless the owner is not asked any more: then nothing is left of the run   *)
(* before.                                                                   *)
LEMMA InFrontStays ==
    ASSUME Inv, InFront, DeviceStep \/ OwnerStep
    PROVE  \/ InFront'
           \/ /\ toDevice' = <<>> /\ fromDevice' = <<Features>>
              /\ waiting' = "none" /\ cached' = NoPassphrase
  <1>1. CASE DeviceStep
    <2>1. PICK m \in HostMessages :
              /\ Take(m)
              /\ m = Initialize => Reply(Features) /\ waiting' = "none" /\ cached' = NoPassphrase
              /\ \/ waiting' # "owner" /\ \E r \in DeviceMessages : Reply(r)
                 \/ waiting = "button" /\ waiting' = "owner" /\ fromDevice' = fromDevice
      BY <1>1, Served
    <2>2. toDevice # <<>> /\ m = Head(toDevice) /\ toDevice' = Tail(toDevice)
      BY <2>1 DEF Take
    <2>3. CASE waiting # "owner" /\ fromDevice = <<>>
               /\ \E h \in HostMessages : toDevice = <<h, Initialize>>
      <3>1. toDevice' = <<Initialize>>
        BY <2>2, <2>3, Taken
      <3>2. CASE waiting' # "owner" /\ \E r \in DeviceMessages : Reply(r)
        BY <2>3, <3>1, <3>2, OneMessage DEF Reply, InFront
      <3>3. CASE waiting' = "owner" /\ fromDevice' = fromDevice
        BY <2>3, <3>1, <3>3 DEF InFront
      <3>4. QED
        BY <2>1, <3>2, <3>3
    <2>4. CASE toDevice = <<Initialize>>
      <3>1. m = Initialize /\ toDevice' = <<>>
        BY <2>2, <2>4, OneMessage
      <3>2. waiting' = "none" /\ cached' = NoPassphrase /\ fromDevice' = Append(fromDevice, Features)
        BY <2>1, <3>1 DEF Reply
      <3>3. CASE fromDevice = <<>>
        BY <3>1, <3>2, <3>3, OneMessage
      <3>4. CASE \E r \in DeviceMessages : fromDevice = <<r>>
        <4>1. PICK r \in DeviceMessages : fromDevice = <<r>>
          BY <3>4
        <4>2. fromDevice' = <<r, Features>>
          BY <3>2, <4>1, AppendOne
        <4>3. QED
          BY <3>1, <3>2, <4>2 DEF InFront
      <3>5. QED
        BY <2>2, <2>4, <3>3, <3>4, Taken, OneMessage DEF InFront
    <2>5. QED
      BY <2>2, <2>3, <2>4 DEF InFront
  <1>2. CASE OwnerStep
    <2>1. /\ waiting = "owner" /\ waiting' = "none" /\ toDevice' = toDevice
          /\ \E r \in DeviceMessages : Reply(r)
      BY <1>2, Pressed
    <2>2. toDevice = <<Initialize>> /\ fromDevice = <<>>
      BY <2>1 DEF InFront
    <2>3. QED
      BY <2>1, <2>2, OneMessage DEF Reply, InFront
  <1>3. QED
    BY <1>1, <1>2

LEMMA RefusingStays ==
    ASSUME Inv, NEW q, q = <<>> \/ \E m \in HostMessages : q = <<m>>,
           Refusing(q), DeviceStep \/ OwnerStep, q # <<>> \/ toDevice # <<>>
    PROVE  \/ Refusing(q)'
           \/ q # <<>> /\ RefusingStill'
  <1>0. DeviceStep
    BY Pressed DEF Refusing
  <1>1. PICK m \in HostMessages :
            /\ Take(m)
            /\ m = Initialize => Reply(Features) /\ waiting' = "none"
            /\ m \in Acks /\ waiting = "none" =>
                  waiting' = "none" /\ \E f \in Refusals : Reply(f)
            /\ \/ waiting' # "owner" /\ \E r \in DeviceMessages : Reply(r)
               \/ waiting = "button"
    BY <1>0, Served
  <1>2. toDevice # <<>> /\ m = Head(toDevice) /\ toDevice' = Tail(toDevice)
    BY <1>1 DEF Take
  <1>3. CASE fromDevice = <<>> /\ \E a \in Acks : toDevice = <<Initialize, a>> \o q
    <2>1. PICK a \in Acks : toDevice = <<Initialize, a>> \o q
      BY <1>3
    <2>2. m = Initialize /\ toDevice' = <<a>> \o q
      BY <1>2, <2>1, TwoAndOne, OneAndOne, AndNone, Taken
    <2>3. fromDevice' = <<Features>> /\ waiting' = "none"
      BY <1>1, <1>3, <2>2, OneMessage DEF Reply
    <2>4. QED
      BY <2>2, <2>3 DEF Refusing
  <1>4. CASE waiting = "none" /\ fromDevice = <<Features>> /\ \E a \in Acks : toDevice = <<a>> \o q
    <2>1. PICK a \in Acks : toDevice = <<a>> \o q
      BY <1>4
    <2>2. m = a /\ toDevice' = q
      BY <1>2, <2>1, OneAndOne, AndNone, Taken, OneMessage
    <2>3. PICK f \in Refusals : fromDevice' = Append(<<Features>>, f) /\ waiting' = "none"
      BY <1>1, <1>4, <2>2 DEF Reply
    <2>4. fromDevice' = <<Features, f>>
      BY <2>3, AppendOne
    <2>5. QED
      BY <2>2, <2>3, <2>4 DEF Refusing
  <1>5. CASE waiting = "none" /\ toDevice = q /\ \E f \in Refusals : fromDevice = <<Features, f>>
    <2>1. PICK f \in Refusals : fromDevice = <<Features, f>>
      BY <1>5
    <2>2. PICK r \in DeviceMessages : fromDevice' = Append(<<Features, f>>, r) /\ waiting' # "owner"
      BY <1>1, <1>5, <2>1 DEF Reply
    <2>3. fromDevice' = <<Features, f, r>> /\ toDevice' = <<>>
      BY <1>2, <1>5, <2>2, AppendTwo, OneMessage
    <2>4. QED
      BY <1>2, <1>5, <2>2, <2>3 DEF RefusingStill
  <1>6. QED
    BY <1>3, <1>4, <1>5 DEF Refusing

LEMMA RefusingStillStays ==
    ASSUME Inv, RefusingStill, DeviceStep \/ OwnerStep
    PROVE  RefusingStill'
  <1>0. DeviceStep
    BY Pressed DEF RefusingStill
  <1>1. PICK m \in HostMessages :
            /\ Take(m)
            /\ m \in Acks /\ waiting = "none" =>
                  waiting' = "none" /\ \E f \in Refusals : Reply(f)
            /\ \/ waiting' # "owner" /\ \E r \in DeviceMessages : Reply(r)
               \/ waiting = "button"
    BY <1>0, Served
  <1>2. toDevice # <<>> /\ m = Head(toDevice) /\ toDevice' = Tail(toDevice)
    BY <1>1 DEF Take
  <1>3. CASE waiting = "none" /\ fromDevice = <<>>
             /\ \E a \in Acks, h \in HostMessages : toDevice = <<a, h>>
    <2>1. PICK a \in Acks, h \in HostMessages : toDevice = <<a, h>>
      BY <1>3
    <2>2. m = a /\ toDevice' = <<h>>
      BY <1>2, <2>1, Taken
    <2>3. PICK f \in Refusals : fromDevice' = <<f>> /\ waiting' = "none"
      BY <1>1, <1>3, <2>2, OneMessage DEF Reply
    <2>4. QED
      BY <2>2, <2>3 DEF RefusingStill
  <1>4. CASE waiting = "none"
             /\ \E f \in Refusals, h \in HostMessages : toDevice = <<h>> /\ fromDevice = <<f>>
    <2>1. PICK f \in Refusals, h \in HostMessages : toDevice = <<h>> /\ fromDevice = <<f>>
      BY <1>4
    <2>2. PICK r \in DeviceMessages : fromDevice' = Append(<<f>>, r) /\ waiting' # "owner"
      BY <1>1, <1>4, <2>1 DEF Reply
    <2>3. fromDevice' = <<f, r>> /\ toDevice' = <<>>
      BY <1>2, <2>1, <2>2, AppendOne, OneMessage
    <2>4. QED
      BY <2>2, <2>3 DEF RefusingStill
  <1>5. QED
    BY <1>2, <1>3, <1>4 DEF RefusingStill

(* A late run's request is answered as that of a run in step, behind the     *)
(* features.                                                                 *)
LEMMA LateAnswer ==
    ASSUME Inv, Working, Reading, Current' = Current, UNCHANGED hostVars, protection' = protection,
           cached = NoPassphrase, cached' = NoPassphrase,
           fromDevice = <<Features>>, toDevice' = <<>>,
           Proceed(Current, locked, cached) \/ Refuse
    PROVE  Late'
  <1> USE DEF Inv, TypeInv
  <1>1. Working' /\ phase' = phase
    BY DEF Working, hostVars
  <1>2. ASSUME NEW r \in DeviceMessages, Reply(r), ReplyInStep(r)', waiting' # "owner",
               phase = "peerKey" => waiting' # "button"
        PROVE  Late'
    <2>1. fromDevice' = <<Features, r>>
      BY <1>2, AppendOne DEF Reply
    <2>2. QED
      BY <1>1, <1>2, <2>1 DEF Late
  <1>3. CASE Refuse
    <2>1. PICK id \in RefusalIds : Reply(Message(id, Nothing)) /\ waiting' = "none"
      BY <1>3 DEF Refuse, Idle
    <2>2. PICK r \in DeviceMessages : r = Message(id, Nothing)
      BY DeviceMessageTypes
    <2>3. r.id \in RefusalIds
      BY <2>2, Ids
    <2>4. ReplyInStep(r)'
      BY <1>1, <2>1, <2>3 DEF ReplyInStep
    <2>5. QED
      BY <1>2, <2>1, <2>2, <2>4
  <1>4. ASSUME NEW what \in {"pin", "passphrase", "button"}, NEW id \in PromptIds,
               Prompt(Current, what, id), what = DialogueOf(id),
               what = "button" => phase # "peerKey"
        PROVE  Late'
    <2>1. waiting' = what /\ job' = Current' /\ Reply(Message(id, Nothing))
      BY <1>4 DEF Prompt
    <2>2. PICK r \in DeviceMessages : r = Message(id, Nothing)
      BY DeviceMessageTypes
    <2>3. r.id = id
      BY <2>2, Ids
    <2>4. ReplyInStep(r)'
      BY <1>1, <1>4, <2>1, <2>3 DEF ReplyInStep
    <2>5. QED
      BY <1>2, <1>4, <2>1, <2>2, <2>4
  <1>5. ASSUME Idle, Reply(Message("public_key", KeyFor(Current, cached))), phase = "peerKey",
               "passphrase" \in protection => cached # NoPassphrase
        PROVE  Late'
    <2>1. Message("public_key", KeyFor(Current, cached)) \in DeviceMessages
      BY CurrentRequest, KeyForType, DeviceMessageTypes DEF KeyIds, TypeOK
    <2>2. PICK r \in DeviceMessages : /\ r = Message("public_key", KeyFor(Current, cached))
                                      /\ r.id \in KeyIds /\ r.body = KeyFor(Current, cached)
      BY <2>1, Ids DEF KeyIds
    <2>3. KeyFor(Current, cached)' = KeyFor(Current, cached)
      OBVIOUS
    <2>4. waiting' = "none"
      BY <1>5 DEF Idle
    <2>5. ReplyInStep(r)'
      BY <1>1, <1>5, <2>2, <2>3, <2>4 DEF ReplyInStep
    <2>6. QED
      BY <1>2, <1>5, <2>2, <2>4, <2>5
  <1>6. QED
    BY <1>3, <1>4, <1>5, CurrentRequest DEF Proceed, PromptIds, DialogueOf

LEMMA LateStays ==
    ASSUME Inv, Working, Reading, Late, DeviceStep \/ OwnerStep
    PROVE  Late'
  <1> USE DEF Inv, TypeInv
  <1>1. DeviceStep
    BY Pressed DEF Late
  <1>2. PICK m \in HostMessages :
            /\ Take(m)
            /\ m = Initialize => /\ Reply(Features)
                                 /\ waiting' = "none" /\ cached' = NoPassphrase
    BY <1>1, Served
  <1>3. /\ toDevice # <<>> /\ m = Head(toDevice) /\ toDevice' = Tail(toDevice)
        /\ UNCHANGED hostVars /\ protection' = protection
    BY <1>2 DEF Take
  <1>4. Current' = Current
    BY <1>3 DEF Current, hostVars
  <1>5. CASE fromDevice = <<>> /\ toDevice = <<Initialize, Current>>
    <2>1. m = Initialize /\ toDevice' = <<Current>>
      BY <1>3, <1>5, Taken
    <2>2. fromDevice' = <<Features>>
      BY <1>2, <1>5, <2>1, OneMessage DEF Reply
    <2>3. QED
      BY <1>2, <1>4, <2>1, <2>2 DEF Late
  <1>6. CASE /\ waiting = "none" /\ cached = NoPassphrase
             /\ fromDevice = <<Features>> /\ toDevice = <<Current>>
    <2>1. Head(toDevice) = Current /\ toDevice' = <<>> /\ Current \in Requests
      BY <1>3, <1>6, OneMessage, CurrentRequest
    <2>2. Current # Initialize
      BY <2>1, Kinds
    <2>3. DeviceRequest
      BY <1>1, <1>6, <2>1, <2>2 DEF DeviceStep, DeviceInitialize, DevicePin, DevicePassphrase,
         DeviceButton, DeviceUnexpected, Take, Expected
    <2>4. /\ Proceed(Current, locked, cached) \/ Refuse
          /\ cached' = NoPassphrase
      BY <1>6, <2>1, <2>3 DEF DeviceRequest, Take
    <2>5. QED
      BY <1>3, <1>4, <1>6, <2>1, <2>4, LateAnswer
  <1>7. QED
    BY <1>3, <1>5, <1>6 DEF Late

(* The device and its owner leave a late run late, or bring it in step.      *)
LEMMA DeviceTrailing ==
    ASSUME Inv, Inv', Trailing, DeviceStep \/ OwnerStep
    PROVE  InStep' \/ Trailing'
  <1>1. UNCHANGED hostVars /\ entered' = entered
    BY TakeType, Served, Pressed DEF Take, hostVars, history
  <1>2. /\ result' = result /\ phase' = phase /\ handler' = handler /\ run' = run
        /\ Working' = Working
    BY <1>1 DEF hostVars, Working
  <1>3. CASE phase \in {"initialize", "returned"}
    <2>1. OneLeft'
      BY <1>3, OneLeftStays DEF Trailing
    <2>2. QED
      BY <1>1, <1>2, <1>3, <2>1 DEF Trailing, Working
  <1>4. CASE phase = "status" /\ handler = "none"
    <2>1. CASE InFront'
      BY <1>1, <1>2, <1>4, <2>1 DEF Trailing, Working
    <2>2. CASE /\ toDevice' = <<>> /\ fromDevice' = <<Features>>
               /\ waiting' = "none" /\ cached' = NoPassphrase
      <3>1. PICK m \in DeviceMessages : m = Features /\ m.id = "features"
        BY Kinds
      <3>2. WireInStep'
        <4>1. ReplyInStep(m)'
          BY <1>2, <1>4, <2>2, <3>1 DEF ReplyInStep
        <4>2. phase' = "status" /\ handler' = "none" /\ fromDevice' = <<m>>
          BY <1>2, <1>4, <2>2, <3>1
        <4>3. QED
          BY <2>2, <4>1, <4>2 DEF WireInStep, Reading, ReadPhases, Working
      <3>3. WalletInStep' /\ PeerInStep' /\ ResultInStep'
        BY <1>1, <1>2, <1>4, <2>2
        DEF Trailing, WalletInStep, PeerInStep, ResultInStep, Working, AckUnderWay
      <3>4. QED
        BY <3>2, <3>3 DEF InStep
    <2>3. QED
      BY <1>4, <2>1, <2>2, InFrontStays DEF Trailing
  <1>5. CASE phase = "status" /\ handler # "none"
    <2>1. Restarting'
      BY <1>5, RestartingStays DEF Trailing
    <2>2. QED
      BY <1>1, <1>2, <1>5, <2>1 DEF Trailing, Working
  <1>6. CASE phase = "request"
    <2>1. CASE Restarting /\ entered = NoPassphrase
      <3>1. Restarting'
        BY <2>1, RestartingStays
      <3>2. QED
        BY <1>1, <1>2, <1>6, <2>1, <3>1 DEF Trailing, Working
    <2>2. CASE Refusing(<<>>)
      <3>1. DeviceStep
        BY <2>2, Pressed DEF Refusing
      <3>2. toDevice # <<>>
        BY <3>1, Served DEF Take
      <3>3. Refusing(<<>>)'
        BY <2>2, <3>2, RefusingStays
      <3>4. QED
        BY <1>1, <1>2, <1>6, <3>3 DEF Trailing, Working
    <2>3. QED
      BY <1>6, <2>1, <2>2 DEF Trailing
  <1>7. CASE Working
    <2>1. handler = "none" /\ Reading /\ phase \notin {"initialize", "status", "request", "returned"}
      BY <1>7 DEF Trailing, Working, Reading, ReadPhases
    <2>2. ASSUME (Late /\ entered = NoPassphrase)' \/ RefusingRequest'
          PROVE  Trailing'
      BY <1>2, <1>7, <2>1, <2>2 DEF Trailing
    <2>3. CASE Late /\ entered = NoPassphrase
      BY <1>1, <1>7, <2>1, <2>2, <2>3, LateStays
    <2>4. CASE RefusingStill
      BY <2>2, <2>4, RefusingStillStays DEF RefusingRequest
    <2>5. ASSUME NEW m \in HostMessages, Refusing(<<m>>)
          PROVE  Trailing'
      <3>1. PICK q : q = <<m>> /\ q # <<>>
        BY OneMessage
      <3>2. Refusing(q)' \/ RefusingStill'
        BY <2>5, <3>1, RefusingStays
      <3>3. RefusingRequest'
        BY <3>1, <3>2 DEF RefusingRequest
      <3>4. QED
        BY <2>2, <3>3
    <2>6. QED
      BY <1>7, <2>3, <2>4, <2>5 DEF Trailing, RefusingRequest
  <1>8. QED
    BY <1>3, <1>4, <1>5, <1>6, <1>7 DEF Trailing, Working

LEMMA GivesUpTrailing ==
    ASSUME phase' = "returned", handler' = "none", result' = Nothing, OneLeft'
    PROVE  Trailing'
  BY DEF Trailing, Working

LEMMA RestartingIsOneLeft == Restarting => OneLeft
  BY Kinds DEF Restarting, OneLeft

LEMMA SendTrailing ==
    ASSUME Inv, Inv', Trailing, SendInitialize \/ SendRequest \/ SendEcdh
    PROVE  Trailing'
  <1>1. CASE SendInitialize
    <2>1. /\ phase = "initialize" /\ phase' = "status" /\ handler' = "none" /\ result' = Nothing
          /\ toDevice' = Append(toDevice, Initialize) /\ fromDevice' = fromDevice
          /\ waiting' = waiting /\ entered' = NoPassphrase
      BY <1>1 DEF SendInitialize, Trailing, Send, deviceVars, history
    <2>2. InFront'
      <3>1. CASE waiting # "owner" /\ fromDevice = <<>> /\ \E m \in HostMessages : toDevice = <<m>>
        <4>1. PICK m \in HostMessages : toDevice = <<m>>
          BY <3>1
        <4>2. toDevice' = <<m, Initialize>>
          BY <2>1, <4>1, AppendOne
        <4>3. QED
          BY <2>1, <3>1, <4>2 DEF InFront
      <3>2. CASE toDevice = <<>>
        <4>1. toDevice' = <<Initialize>>
          BY <2>1, <3>2, OneMessage
        <4>2. QED
          BY <2>1, <3>2, <4>1, OneMessage DEF InFront, OneLeft, Trailing
      <3>3. QED
        BY <2>1, <3>1, <3>2 DEF OneLeft, Trailing
    <2>3. QED
      BY <2>1, <2>2 DEF Trailing, Working
  <1>2. CASE SendRequest
    <2>1. /\ phase = "request" /\ phase' = IF run.legacy THEN "secret" ELSE "peerKey"
          /\ handler' = "none" /\ result' = Nothing /\ run' = run /\ Working'
          /\ toDevice' = Append(toDevice, Current') /\ fromDevice' = fromDevice
          /\ waiting' = waiting /\ cached' = cached /\ entered' = entered
      BY <1>2 DEF SendRequest, Trailing, Send, deviceVars, history, Current, Working
    <2>2. PICK m \in HostMessages : m = Current'
      <3>1. TypeOK'
        BY DEF Inv, TypeInv
      <3>2. Current' \in Requests
        BY <3>1, HostMessageTypes DEF TypeOK, Runs, Current
      <3>3. QED
        BY <3>2, Kinds
    <2>3. CASE Restarting /\ entered = NoPassphrase
      <3>1. ASSUME waiting # "owner", toDevice = <<Initialize>>, fromDevice = <<>>
            PROVE  Late'
        <4>1. toDevice' = <<Initialize, Current'>>
          BY <2>1, <3>1, AppendOne
        <4>2. QED
          BY <2>1, <3>1, <4>1 DEF Late
      <3>2. ASSUME waiting = "none", cached = NoPassphrase,
                   toDevice = <<>>, fromDevice = <<Features>>
            PROVE  Late'
        <4>1. toDevice' = <<Current'>>
          BY <2>1, <3>2, OneMessage
        <4>2. QED
          BY <2>1, <3>2, <4>1 DEF Late
      <3>3. Late'
        BY <2>3, <3>1, <3>2 DEF Restarting
      <3>4. QED
        BY <2>1, <2>3, <3>3 DEF Trailing
    <2>4. CASE Refusing(<<>>)
      <3>1. ASSUME waiting # "owner", fromDevice = <<>>,
                   \E a \in Acks : toDevice = <<Initialize, a>> \o <<>>
            PROVE  Refusing(<<m>>)'
        <4>1. PICK a \in Acks : toDevice = <<Initialize, a>>
          BY <3>1, AndNone
        <4>2. toDevice' = <<Initialize, a>> \o <<m>>
          BY <2>1, <2>2, <4>1, AppendTwo, TwoAndOne
        <4>3. QED
          BY <2>1, <3>1, <4>2 DEF Refusing
      <3>2. ASSUME waiting = "none", fromDevice = <<Features>>,
                   \E a \in Acks : toDevice = <<a>> \o <<>>
            PROVE  Refusing(<<m>>)'
        <4>1. PICK a \in Acks : toDevice = <<a>>
          BY <3>2, AndNone
        <4>2. toDevice' = <<a>> \o <<m>>
          BY <2>1, <2>2, <4>1, AppendOne, OneAndOne
        <4>3. QED
          BY <2>1, <3>2, <4>2 DEF Refusing
      <3>3. ASSUME waiting = "none", toDevice = <<>>,
                   \E f \in Refusals : fromDevice = <<Features, f>>
            PROVE  Refusing(<<m>>)'
        <4>1. toDevice' = <<m>>
          BY <2>1, <2>2, <3>3, OneMessage
        <4>2. QED
          BY <2>1, <3>3, <4>1 DEF Refusing
      <3>4. Refusing(<<m>>)'
        BY <2>4, <3>1, <3>2, <3>3 DEF Refusing
      <3>5. QED
        BY <2>1, <3>4 DEF Trailing, RefusingRequest
    <2>5. QED
      BY <2>1, <2>3, <2>4 DEF Trailing
  <1>3. CASE SendEcdh
    BY <1>3 DEF SendEcdh, Trailing
  <1>4. QED
    BY <1>1, <1>2, <1>3

(* The first reply a late run reads is one the run before has left.          *)
LEMMA ReceiveStatus ==
    ASSUME Trailing, phase = "status", NEW ids, Receive(ids)
    PROVE  Restarting'
  <1>1. /\ handler = "none" /\ fromDevice # <<>> /\ fromDevice' = Tail(fromDevice)
        /\ toDevice' = toDevice /\ waiting' = waiting /\ cached' = cached
    BY DEF Receive, deviceVars
  <1>2. CASE waiting # "owner" /\ toDevice = <<Initialize>>
             /\ \E r \in DeviceMessages : fromDevice = <<r>>
    BY <1>1, <1>2, OneMessage DEF Restarting
  <1>3. CASE /\ waiting = "none" /\ cached = NoPassphrase /\ toDevice = <<>>
             /\ \E r \in DeviceMessages : fromDevice = <<r, Features>>
    BY <1>1, <1>3, Taken DEF Restarting
  <1>4. QED
    BY <1>1, <1>2, <1>3 DEF Trailing, InFront

(* Then it reads the features, and a refusal if it answered a prompt.        *)
LEMMA ReceiveWorking ==
    ASSUME Inv, Inv', Trailing, Working, NEW ids, Receive(ids)
    PROVE  \/ /\ "features" \in ids
              /\ phase' = phase /\ handler' = handler /\ peer' = peer /\ result' = result
                    => InStep' \/ Trailing'
           \/ Head(fromDevice).id \in RefusalIds /\ Head(fromDevice).id \in ids /\ OneLeft'
  <1> USE DEF Inv, TypeInv
  <1>1. /\ handler = "none" /\ fromDevice # <<>> /\ fromDevice' = Tail(fromDevice)
        /\ Head(fromDevice).id \in ids
        /\ toDevice' = toDevice /\ run' = run /\ entered' = entered
        /\ waiting' = waiting /\ cached' = cached /\ job' = job /\ protection' = protection
        /\ approved' = approved
    BY DEF Receive, deviceVars, history
  <1>2. result = Nothing /\ phase = IF run.legacy THEN "secret" ELSE "peerKey"
    BY DEF Trailing, Working
  <1>3. ASSUME phase' = phase, handler' = handler, peer' = peer, result' = result
        PROVE  /\ Working' /\ Reading' /\ Current' = Current
               /\ result' = Nothing /\ phase' = IF run'.legacy THEN "secret" ELSE "peerKey"
    BY <1>1, <1>2, <1>3 DEF Working, Reading, ReadPhases, Current
  <1>4. CASE RefusingRequest
    <2>1. ASSUME Head(fromDevice) = Features, RefusingStill'
          PROVE  /\ "features" \in ids
                 /\ phase' = phase /\ handler' = handler /\ peer' = peer /\ result' = result
                       => InStep' \/ Trailing'
      <3>1. "features" \in ids
        BY <1>1, <2>1, Kinds
      <3>2. ASSUME phase' = phase, handler' = handler, peer' = peer, result' = result
            PROVE  Trailing'
        BY <1>1, <1>3, <2>1, <3>2 DEF Trailing, RefusingRequest, Working
      <3>3. QED
        BY <3>1, <3>2
    <2>2. ASSUME NEW m \in HostMessages, Refusing(<<m>>)
          PROVE  Head(fromDevice) = Features /\ RefusingStill'
      <3>1. CASE /\ waiting = "none" /\ fromDevice = <<Features>>
                 /\ \E a \in Acks : toDevice = <<a>> \o <<m>>
        BY <1>1, <3>1, OneMessage, OneAndOne DEF RefusingStill
      <3>2. CASE /\ waiting = "none" /\ toDevice = <<m>>
                 /\ \E f \in Refusals : fromDevice = <<Features, f>>
        BY <1>1, <3>2, Taken DEF RefusingStill
      <3>3. QED
        BY <1>1, <2>2, <3>1, <3>2 DEF Refusing
    <2>3. ASSUME NEW f \in Refusals, NEW h \in HostMessages, waiting = "none",
                 toDevice = <<h>>, fromDevice = <<f>>
          PROVE  Head(fromDevice).id \in RefusalIds /\ OneLeft'
      BY <1>1, <2>3, OneMessage, Kinds DEF OneLeft
    <2>4. ASSUME NEW f \in Refusals, NEW r \in DeviceMessages, waiting # "owner",
                 toDevice = <<>>, fromDevice = <<f, r>>
          PROVE  Head(fromDevice).id \in RefusalIds /\ OneLeft'
      BY <1>1, <2>4, Taken, Kinds DEF OneLeft
    <2>5. ASSUME NEW f \in Refusals, NEW r \in DeviceMessages, waiting # "owner",
                 toDevice = <<>>, fromDevice = <<Features, f, r>>
          PROVE  Head(fromDevice) = Features /\ RefusingStill'
      BY <1>1, <2>5, Taken DEF RefusingStill
    <2>6. QED
      BY <1>1, <1>4, <2>1, <2>2, <2>3, <2>4, <2>5 DEF RefusingRequest, RefusingStill
  <1>5. CASE Late /\ entered = NoPassphrase
    <2>1. Head(fromDevice) = Features
      BY <1>1, <1>5, OneMessage, Taken DEF Late
    <2>2. "features" \in ids
      BY <1>1, <2>1, Kinds
    <2>3. ASSUME phase' = phase, handler' = handler, peer' = peer, result' = result
          PROVE  InStep'
      <3>1. ResultInStep'
        BY <1>3, <2>3 DEF ResultInStep
      <3>2. CASE /\ waiting = "none" /\ cached = NoPassphrase
                 /\ fromDevice = <<Features>> /\ toDevice = <<Current>>
        <4>1. PICK m \in HostMessages : m = Current'
          BY <1>3, <2>3, CurrentRequest, Kinds
        <4>2. toDevice' = <<m>> /\ fromDevice' = <<>> /\ waiting' = "none"
          BY <1>1, <1>3, <2>3, <3>2, <4>1, OneMessage
        <4>3. WireInStep'
          BY <1>3, <2>3, <4>1, <4>2, SendWire DEF MessageInStep
        <4>4. WalletInStep' /\ PeerInStep'
          BY <1>1, <1>2, <1>5, <2>3, <3>2, <4>2
          DEF WalletInStep, PeerInStep, Working, AckUnderWay
        <4>5. QED
          BY <3>1, <4>3, <4>4 DEF InStep
      <3>3. ASSUME NEW r \in DeviceMessages, waiting # "owner", cached = NoPassphrase,
                   toDevice = <<>>, phase = "peerKey" => waiting # "button",
                   fromDevice = <<Features, r>>, ReplyInStep(r)
            PROVE  InStep'
        <4>1. fromDevice' = <<r>> /\ toDevice' = <<>> /\ waiting' # "owner"
          BY <1>1, <3>3, Taken
        <4>2. ReplyInStep(r)'
          BY <1>1, <1>3, <2>3, <3>3 DEF ReplyInStep, Working
        <4>3. WireInStep'
          BY <1>3, <2>3, <4>1, <4>2, ReplyWire
        <4>4. WalletInStep' /\ PeerInStep'
          BY <1>1, <1>2, <1>5, <2>3, <3>3, <4>1
          DEF WalletInStep, PeerInStep, Working, AckUnderWay
        <4>5. QED
          BY <3>1, <4>3, <4>4 DEF InStep
      <3>4. QED
        BY <1>1, <1>5, <3>2, <3>3 DEF Late
    <2>4. QED
      BY <2>2, <2>3
  <1>6. QED
    BY <1>4, <1>5 DEF Trailing

LEMMA ReadTrailing ==
    ASSUME Inv, Inv', Trailing, ReadFeatures \/ ReadPrompt \/ ReadKey \/ ReadError
    PROVE  InStep' \/ Trailing'
  <1>1. PICK ids \in {{"features"}, PromptIds, KeyIds, RefusalIds} : Receive(ids)
    BY DEF ReadFeatures, ReadPrompt, ReadKey, ReadError
  <1>2. /\ phase \in ReadPhases /\ handler = "none" /\ result = Nothing /\ entered' = entered
        /\ run' = run /\ Head(fromDevice).id \in ids
    BY <1>1 DEF Receive, Trailing, history
  <1>3. CASE phase = "status"
    <2>1. Restarting' /\ OneLeft'
      <3>1. Restarting'
        BY <1>1, <1>3, ReceiveStatus
      <3>2. QED
        BY <3>1, Kinds DEF Restarting, OneLeft
    <2>2. CASE ReadFeatures \/ ReadKey
      <3>1. phase' = "request" /\ handler' = "none" /\ result' = Nothing
        BY <1>2, <1>3, <2>2 DEF ReadFeatures, ReadKey, ReadEmpty
      <3>2. QED
        BY <1>2, <1>3, <2>1, <3>1 DEF Trailing, Working
    <2>3. CASE ReadPrompt
      <3>1. phase' = "status" /\ handler' # "none" /\ result' = Nothing
        BY <1>2, <1>3, <2>3 DEF ReadPrompt, Receive, PromptIds
      <3>2. QED
        BY <1>2, <1>3, <2>1, <3>1 DEF Trailing, Working
    <2>4. CASE ReadError
      BY <2>1, <2>4, GivesUpTrailing DEF ReadError, Return
    <2>5. QED
      BY <2>2, <2>3, <2>4
  <1>4. CASE Working
    <2>1. CASE ReadFeatures
      <3>1. Receive({"features"}) /\ phase' = phase /\ handler' = handler
            /\ peer' = peer /\ result' = result
        BY <1>2, <1>4, <2>1 DEF ReadFeatures, ReadEmpty, Working
      <3>2. QED
        BY <1>4, <3>1, ReceiveWorking DEF RefusalIds
    <2>2. CASE ReadPrompt
      <3>1. Receive(PromptIds)
        BY <2>2 DEF ReadPrompt
      <3>2. QED
        BY <1>4, <3>1, ReceiveWorking DEF RefusalIds, PromptIds
    <2>3. CASE ReadKey
      <3>1. Receive(KeyIds)
        BY <2>3 DEF ReadKey
      <3>2. QED
        BY <1>4, <3>1, ReceiveWorking DEF RefusalIds, KeyIds
    <2>4. CASE ReadError
      <3>1. Receive(RefusalIds)
        BY <2>4 DEF ReadError
      <3>2. OneLeft'
        BY <1>4, <3>1, ReceiveWorking DEF RefusalIds
      <3>3. QED
        BY <2>4, <3>2, GivesUpTrailing DEF ReadError, Return
    <2>5. QED
      BY <2>1, <2>2, <2>3, <2>4
  <1>5. QED
    BY <1>2, <1>3, <1>4 DEF ReadPhases, Working

(* A prompt of the run before is answered, in vain.                          *)
LEMMA AnswerTrailing ==
    ASSUME Inv, Inv', Trailing, SendButtonAck \/ AnswerPin \/ AnswerPassphrase \/ PromptFails
    PROVE  Trailing'
  <1>1. handler # "none" /\ phase = "status" /\ Restarting
    BY DEF SendButtonAck, AnswerPin, AnswerPassphrase, PromptFails, Trailing
  <1>2. CASE PromptFails
    <2>1. OneLeft'
      BY <1>1, <1>2, RestartingIsOneLeft DEF PromptFails, OneLeft, wires, deviceVars
    <2>2. QED
      BY <1>2, <2>1, GivesUpTrailing DEF PromptFails, Return
  <1>3. CASE SendButtonAck \/ AnswerPin \/ AnswerPassphrase
    <2>1. \E a \in Acks : Send(a)
      BY <1>3, Kinds DEF SendButtonAck, AnswerPin, AnswerPassphrase
    <2>2. PICK a \in Acks : toDevice' = Append(toDevice, a) /\ fromDevice' = fromDevice
      BY <2>1 DEF Send
    <2>3. /\ phase' = "request" /\ handler' = "none" /\ result' = Nothing
          /\ waiting' = waiting
      BY <1>1, <1>3
      DEF SendButtonAck, AnswerPin, AnswerPassphrase, ReadEmpty, Trailing, deviceVars
    <2>4. ASSUME waiting # "owner", toDevice = <<Initialize>>, fromDevice = <<>>
          PROVE  Refusing(<<>>)'
      <3>1. toDevice' = <<Initialize, a>> \o <<>>
        BY <2>2, <2>4, AppendOne, AndNone
      <3>2. QED
        BY <2>2, <2>3, <2>4, <3>1 DEF Refusing
    <2>5. ASSUME waiting = "none", toDevice = <<>>, fromDevice = <<Features>>
          PROVE  Refusing(<<>>)'
      <3>1. toDevice' = <<a>> \o <<>>
        BY <2>2, <2>5, OneMessage, AndNone
      <3>2. QED
        BY <2>2, <2>3, <2>5, <3>1 DEF Refusing
    <2>6. Refusing(<<>>)'
      BY <1>1, <2>4, <2>5 DEF Restarting
    <2>7. QED
      BY <2>3, <2>6 DEF Trailing, Working
  <1>4. QED
    BY <1>2, <1>3

(* An interrupted run that was in step leaves at most one message.           *)
LEMMA Interrupted ==
    ASSUME Inv, InStep, Kill \/ WriteTimesOut
    PROVE  InStep' \/ Trailing'
  <1> USE DEF Inv, TypeInv
  <1>1. /\ phase' = "returned" /\ handler' = "none" /\ result' = Nothing /\ waiting' = waiting
    BY DEF Kill, WriteTimesOut, Return, deviceVars
  <1>2. ASSUME Quiet'
        PROVE  InStep'
    <2>1. WireInStep'
      BY <1>1, <1>2, QuietWire DEF Reading, ReadPhases
    <2>2. WalletInStep' /\ PeerInStep' /\ ResultInStep'
      BY <1>1 DEF WalletInStep, PeerInStep, ResultInStep, Working, AckUnderWay
    <2>3. QED
      BY <2>1, <2>2 DEF InStep
  <1>3. CASE UNCHANGED wires
    <2>1. Quiet' \/ OneLeft'
      BY <1>1, <1>3 DEF wires, Quiet, OneLeft, InStep, WireInStep, ReadPhases
    <2>2. QED
      BY <1>1, <1>2, <2>1, GivesUpTrailing
  <1>4. CASE WriteTimesOut /\ \E m \in Outgoing : Send(m)
    <2>1. PICK m \in Outgoing : toDevice' = Append(toDevice, m) /\ fromDevice' = fromDevice
      BY <1>4 DEF Send
    <2>2. ~Reading
      BY <2>1 DEF Outgoing, Reading, ReadPhases
    <2>3. Quiet
      BY <2>2 DEF InStep, WireInStep
    <2>4. m \in HostMessages
      BY <2>1, HostMessageTypes DEF Outgoing, TypeOK, Runs
    <2>5. toDevice' = <<m>> /\ fromDevice' = <<>>
      BY <2>1, <2>3, OneMessage DEF Quiet
    <2>6. OneLeft'
      BY <1>1, <2>3, <2>4, <2>5 DEF Quiet, OneLeft
    <2>7. QED
      BY <1>1, <2>6, GivesUpTrailing
  <1>5. QED
    BY <1>3, <1>4 DEF Kill, WriteTimesOut

LEMMA OneFaultStep == Inv /\ Inv' /\ OneFault /\ [Next]_vars => OneFault'
  <1> SUFFICES ASSUME Inv, Inv', OneFault, [Next]_vars, faults' <= 1
               PROVE  InStep' \/ (faults' = 1 /\ Trailing')
    BY DEF OneFault
  <1> USE DEF Inv
  <1>1. faults \in Nat
    BY DEF TypeInv, TypeOK
  <1>2. CASE HostStep \/ UserStep \/ DeviceStep \/ OwnerStep
    <2>1. faults' = faults
      BY <1>2, KeepsCounters DEF counters
    <2>2. InStep \/ (faults = 1 /\ Trailing)
      BY <2>1 DEF OneFault
    <2>3. CASE InStep
      BY <1>2, <2>3, HostInStep, DeviceInStep
    <2>4. CASE Trailing
      <3>1. InStep' \/ Trailing'
        BY <1>2, <2>4, SendTrailing, ReadTrailing, AnswerTrailing, DeviceTrailing
        DEF HostStep, UserStep
      <3>2. QED
        BY <2>1, <2>2, <3>1, <1>2, HostInStep, DeviceInStep
    <2>5. QED
      BY <2>2, <2>3, <2>4
  <1>3. CASE StartRun
    <2>1. /\ phase = "returned" /\ phase' = "initialize" /\ result' = Nothing /\ handler' = "none"
          /\ entered' = NoPassphrase /\ faults' = faults
          /\ toDevice' = toDevice /\ fromDevice' = fromDevice /\ waiting' = waiting
      BY <1>3 DEF StartRun, wires, deviceVars, ControlOK, ReadPhases
    <2>2. CASE InStep
      <3>1. Quiet
        BY <2>1, <2>2 DEF InStep, WireInStep, Reading, ReadPhases
      <3>2. QED
        BY <1>3, <3>1, StartInStep
    <2>3. CASE faults = 1 /\ Trailing
      <3>1. OneLeft'
        BY <2>1, <2>3 DEF Trailing, OneLeft
      <3>2. QED
        BY <2>1, <2>3, <3>1 DEF Trailing, Working
    <2>4. QED
      BY <2>1, <2>2, <2>3 DEF OneFault
  <1>4. CASE FaultStep
    <2>1. faults' = faults + 1
      BY <1>4 DEF FaultStep, SendFails, Kill, WriteTimesOut, Unplug, Fault
    <2>2. faults = 0 /\ faults' = 1
      BY <1>1, <2>1
    <2>3. InStep
      BY <2>2 DEF OneFault
    <2>4. QED
      BY <1>4, <2>2, <2>3, FaultInStep, Interrupted DEF FaultStep
  <1>5. CASE UNCHANGED vars
    <2>1. /\ hostVars' = hostVars /\ wires' = wires /\ deviceVars' = deviceVars
          /\ history' = history
      BY <1>5 DEF vars
    <2>2. InStep => InStep'
      BY <2>1
      DEF hostVars, wires, deviceVars, history, InStep, WireInStep, WalletInStep,
          PeerInStep, ResultInStep, Quiet, Reading, Working, AckUnderWay, MessageInStep,
          ReplyInStep, Current
    <2>3. Trailing => Trailing'
      BY <2>1
      DEF hostVars, wires, deviceVars, history, Trailing, OneLeft, InFront, Restarting, Late,
          RefusingRequest, Refusing, RefusingStill, Working, ReplyInStep, Current
    <2>4. faults' = faults
      BY <2>1 DEF history, counters
    <2>5. QED
      BY <2>2, <2>3, <2>4 DEF OneFault
  <1>6. QED
    BY <1>2, <1>3, <1>4, <1>5 DEF Next

(* One fault, in any run and at any moment, makes no later run return        *)
(* anything but its own password, however often macer is run again.          *)
THEOREM OneFaultCorrect == Spec => []RightAfterOneFault
  <1>1. Init => OneFault
    BY InitInStep DEF OneFault
  <1>2. OneFault => RightAfterOneFault
    BY DEF OneFault, RightAfterOneFault, Trailing, InStep, ResultInStep, WireInStep, Quiet,
           Reading, ReadPhases
  <1>3. QED
    BY <1>1, <1>2, InvCorrect, OneFaultStep, PTL DEF Spec

-----------------------------------------------------------------------------
(* The session keeps the promise of PasswordService.                         *)

(* What the service sees of a run that ends without a password.              *)
LEMMA GivesUp ==
    ASSUME ControlOK, Running, phase' = "returned", Promised' => result' = Nothing,
           UNCHANGED <<run, entered, approved>>
    PROVE  Service!GiveUp
  <1>1. ~Running'
    BY DEF Running
  <1>2. (IF Promised' THEN result' ELSE Nothing) = (IF Promised THEN result ELSE Nothing)
    BY DEF ControlOK, Running
  <1>3. QED
    BY <1>1, <1>2 DEF Service!GiveUp

(* A step that the service does not see.                                     *)
LEMMA Unseen ==
    ASSUME Running' = Running,
           UNCHANGED <<run, entered, approved>>,
           (IF Promised' THEN result' ELSE Nothing) = (IF Promised THEN result ELSE Nothing)
    PROVE  UNCHANGED Service!vars
  BY DEF Service!vars

LEMMA ServiceHost ==
    ASSUME Inv, Lockstep', RightAfterOneFault', HostStep \/ UserStep
    PROVE  [Service!Next]_Service!vars
  <1> USE DEF Inv
  <1>0. Promised' = Promised
    BY KeepsCounters DEF counters, Promised
  <1>1. CASE SendInitialize \/ SendRequest \/ SendEcdh \/ SendButtonAck \/ AnswerPin
    <2>1. UNCHANGED <<run, result, entered, approved>>
      BY <1>1
      DEF SendInitialize, SendRequest, SendEcdh, SendButtonAck, AnswerPin, history
    <2>2. Running /\ Running'
      BY <1>1
      DEF SendInitialize, SendRequest, SendEcdh, SendButtonAck, AnswerPin, ReadEmpty,
          ControlOK, Running, ReadPhases
    <2>3. QED
      BY <1>0, <2>1, <2>2, Unseen
  <1>2. CASE AnswerPassphrase
    <2>1. /\ entered' \in Passphrases
          /\ UNCHANGED <<run, result, approved>>
      BY <1>2 DEF AnswerPassphrase
    <2>2. Running /\ Running'
      BY <1>2 DEF AnswerPassphrase, ReadEmpty, ControlOK, Running, ReadPhases
    <2>3. Service!Enter
      BY <1>0, <2>1, <2>2 DEF Service!Enter
    <2>4. QED
      BY <2>3 DEF Service!Next
  <1>3. CASE PromptFails
    <2>1. Running
      BY <1>3 DEF PromptFails, ControlOK, Running, ReadPhases
    <2>2. phase' = "returned" /\ result' = Nothing /\ UNCHANGED <<run, entered, approved>>
      BY <1>3 DEF PromptFails, Return, history
    <2>3. QED
      BY <2>1, <2>2, GivesUp DEF Service!Next
  <1>4. ASSUME NEW ids, Receive(ids)
        PROVE  Running /\ UNCHANGED <<run, entered, approved>>
    BY <1>4, ReceiveType DEF TypeInv, Running, ReadPhases
  <1>5. CASE ReadFeatures \/ ReadPrompt
    <2>1. Running' /\ result' = result
      BY <1>5 DEF ReadFeatures, ReadPrompt, Receive, ReadEmpty, Running, ReadPhases
    <2>2. Running /\ UNCHANGED <<run, entered, approved>>
      BY <1>4, <1>5 DEF ReadFeatures, ReadPrompt
    <2>3. QED
      BY <1>0, <2>1, <2>2, Unseen
  <1>6. CASE ReadError
    <2>1. phase' = "returned" /\ result' = Nothing
      BY <1>6 DEF ReadError, Return
    <2>2. Running /\ UNCHANGED <<run, entered, approved>>
      BY <1>4, <1>6 DEF ReadError
    <2>3. QED
      BY <2>1, <2>2, GivesUp DEF Service!Next
  <1>7. CASE ReadKey
    <2>1. Running /\ UNCHANGED <<run, entered, approved>>
      BY <1>4, <1>7 DEF ReadKey
    <2>2. CASE phase # "secret"
      <3>1. Running' /\ result' = result
        BY <1>7, <2>2 DEF ReadKey, ReadEmpty, Running
      <3>2. QED
        BY <1>0, <2>1, <3>1, Unseen
    <2>3. CASE phase = "secret"
      <3>1. phase' = "returned"
        BY <1>7, <2>3 DEF ReadKey, Return
      <3>2. CASE Promised /\ result' # Nothing
        <4>1. result' = Password(run, entered) /\ approved = result'
          BY <1>0, <2>1, <3>2
          DEF Promised, RightAfterOneFault, Lockstep, InStep, ResultInStep, Password
        <4>2. Service!Deliver
          BY <1>0, <2>1, <3>1, <3>2, <4>1 DEF Service!Deliver, Running
        <4>3. QED
          BY <4>2 DEF Service!Next
      <3>3. CASE ~(Promised /\ result' # Nothing)
        BY <1>0, <2>1, <3>1, <3>3, GivesUp DEF Service!Next
      <3>4. QED
        BY <3>2, <3>3
    <2>4. QED
      BY <2>2, <2>3
  <1>8. QED
    BY <1>1, <1>2, <1>3, <1>5, <1>6, <1>7 DEF HostStep, UserStep

LEMMA ServiceStep ==
    Inv /\ Lockstep' /\ RightAfterOneFault' /\ [Next]_vars => [Service!Next]_Service!vars
  <1> SUFFICES ASSUME Inv, Lockstep', RightAfterOneFault', [Next]_vars
               PROVE  [Service!Next]_Service!vars
    OBVIOUS
  <1> USE DEF Inv
  <1>1. CASE HostStep \/ UserStep
    BY <1>1, ServiceHost
  <1>2. CASE DeviceStep
    <2>1. UNCHANGED <<hostVars, history>>
      BY <1>2
      DEF DeviceStep, DeviceInitialize, DeviceRequest, DevicePin, DevicePassphrase,
          DeviceButton, DeviceUnexpected, Take
    <2>2. QED
      BY <2>1, Unseen DEF hostVars, history, counters, Running, Promised
  <1>3. CASE OwnerRejects
    BY <1>3, Unseen DEF OwnerRejects, hostVars, history, counters, Running, Promised
  <1>4. CASE OwnerConfirms
    <2>1. approved' \in Keys
      BY <1>4, KeyForType DEF OwnerConfirms, TypeInv, TypeOK, JobOK
    <2>2. Service!Approve
      BY <1>4, <2>1 DEF OwnerConfirms, Service!Approve, hostVars, counters, Running, Promised
    <2>3. QED
      BY <2>2 DEF Service!Next
  <1>5. CASE StartRun
    <2>1. Service!Begin
      BY <1>5 DEF StartRun, Service!Begin, Running
    <2>2. QED
      BY <2>1 DEF Service!Next
  <1>6. CASE SendFails \/ Kill \/ WriteTimesOut \/ (Unplug /\ Running)
    <2>1. Running
      <3>1. Outgoing # {} => Running
        BY DEF Outgoing, ControlOK, Running, ReadPhases
      <3>2. QED
        BY <1>6, <3>1 DEF SendFails, Kill, WriteTimesOut, Running
    <2>2. phase' = "returned" /\ result' = Nothing /\ UNCHANGED <<run, entered, approved>>
      BY <1>6 DEF SendFails, Kill, WriteTimesOut, Unplug, Return
    <2>3. QED
      BY <2>1, <2>2, GivesUp DEF Service!Next
  <1>7. CASE Unplug /\ ~Running
    <2>1. Running' = Running /\ UNCHANGED <<run, entered, approved, result, clean>>
      BY <1>7 DEF Unplug, Running
    <2>2. CASE Promised = Promised'
      BY <1>7, <2>1, <2>2, Unseen
    <2>3. CASE Promised # Promised'
      <3>1. faults' = faults + 1 /\ faults \in Nat
        BY <1>7 DEF Unplug, Fault, TypeInv, TypeOK
      <3>2. ~Promised'
        BY <2>1, <2>3, <3>1 DEF Promised
      <3>3. Service!Forget
        BY <1>7, <2>1, <3>2 DEF Service!Forget
      <3>4. QED
        BY <3>3 DEF Service!Next
    <2>4. QED
      BY <2>2, <2>3
  <1>8. CASE UNCHANGED vars
    BY <1>8, Unseen DEF vars, hostVars, history, counters, Running, Promised
  <1>9. QED
    BY <1>1, <1>2, <1>3, <1>4, <1>5, <1>6, <1>7, <1>8 DEF Next, OwnerStep, FaultStep

(* A run that found nothing under way, and every run while there was at most *)
(* one fault, ends with nothing or with the key of its own identity and      *)
(* passphrase, which the owner approved before it was delivered.  Of a run   *)
(* that is neither, after a second fault, this says nothing.                 *)
THEOREM Refines == Spec => ImplementsService
  <1>1. Init => Service!Init
    BY DEF Init, Service!Init, Running
  <1>2. QED
    BY <1>1, InvCorrect, LockstepCorrect, OneFaultCorrect, ServiceStep, PTL
    DEF Spec, ImplementsService, Service!Spec

=============================================================================

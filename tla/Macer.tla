-------------------------------- MODULE Macer --------------------------------
(* The program from the accepted command line to its exit: main of           *)
(* src/main.cpp and usb::run with open_and_run of src/usb.cpp.  What a       *)
(* session with the device returns is any outcome of TrezorSession; what a   *)
(* prompt returns is any outcome of PasswordPrompt.  The standard output is  *)
(* not a terminal (main insists), so stdio keeps what is written until main  *)
(* returns; the reader of the pipe sees it only then.                        *)
EXTENDS Interfaces, Bip39

CONSTANTS
    Options,      \* command lines: fmt, existing, password, host, tty
    Devices,      \* what may be plugged in, with its descriptors
    MaxDevices,   \* ports
    MaxPlugs      \* how often something is plugged in or pulled out

Formats == {"none", "legacy", "binary", "bip39_12", "bip39_18", "bip39_24"}

Endpoints == [attributes : 0..255, address : 1..255]
Setting   == [number : 0..255, class : 0..255, endpoints : Seq(Endpoints)]
Word      == 0..65535
Device    == [vendor : Word, product : Word, interfaces : Seq(Seq(Setting))]

MacerAssumption ==
    /\ Options \subseteq [fmt : Formats, existing : BOOLEAN, password : BOOLEAN,
                          host : BOOLEAN, tty : BOOLEAN]
    /\ Devices \subseteq Device
    /\ MaxDevices \in Nat /\ MaxPlugs \in Nat

VARIABLES
    pc,         \* where main, usb::run or open_and_run is
    prog,       \* the command line
    ports,      \* devices plugged in, in the order libusb lists them
    plugs,      \* how often that changed
    list,       \* the device list of the usb::run in progress, or NoList
    next,       \* i in usb::run
    context,    \* libusb_init succeeded
    handle,     \* the device usb::run has open, or NoDevice
    claimed,    \* the interface of it that is claimed, or NoInterface
    secret,     \* what usb::run returned, then what is left of it
    buffered,   \* stdio's buffer of stdout
    stdout,     \* what the reader of the pipe has been given
    status      \* exit status

busVars == <<ports, plugs>>
usbVars == <<list, next, handle, claimed>>
outVars == <<buffered, stdout, status>>
vars    == <<pc, prog, busVars, usbVars, context, secret, outVars>>

NoDevice == [vendor |-> 0, product |-> 0, interfaces |-> <<>>]
NoList   == <<NoDevice>>

Secret(form, size) == [form |-> form, size |-> size]
NoSecret == Secret("none", 0)
Item(what, size) == [what |-> what, size |-> size]

(* pass_size and bip39_output of main.                                       *)
PassSize(fmt) == CASE fmt = "legacy"   -> 64
                   [] fmt = "binary"   -> 32
                   [] fmt = "bip39_12" -> 16
                   [] fmt = "bip39_18" -> 24
                   [] fmt = "bip39_24" -> 32
IsBip39(fmt)  == fmt \in {"bip39_12", "bip39_18", "bip39_24"}

(* Sizes of what a session returns: the digest of an ECDH key, a signature,  *)
(* or a public key taken for one of them (TrezorSession).                    *)
SessionSizes == {32, 33, 64}

Start ==
    /\ ports = <<>> /\ plugs = 0
    /\ list = NoList /\ next = 1 /\ context = FALSE
    /\ handle = NoDevice /\ claimed = NoInterface
    /\ secret = NoSecret
    /\ buffered = <<>> /\ stdout = <<>> /\ status = "running"

Init == pc = "check" /\ prog \in Options /\ Start

-----------------------------------------------------------------------------
(* Ways to go on.  Leaving main, and leaving usb::run, runs the destructors  *)
(* of what is open there, in every case.                                     *)

LeaveUsb == /\ list' = NoList /\ next' = 1
            /\ handle' = NoDevice /\ claimed' = NoInterface

Exit(code, rest) ==
    /\ pc' = "exited" /\ status' = code
    /\ LeaveUsb /\ context' = FALSE
    /\ stdout' = buffered \o rest /\ buffered' = <<>>

Fail == Exit("failure", <<>>) /\ UNCHANGED <<prog, busVars, secret>>

Goto(where) == pc' = where

CheckFails ==
    /\ pc = "check"
    /\ prog.tty \/ ~prog.host \/ prog.fmt = "none"
    /\ Fail

CheckPasses ==
    /\ pc = "check"
    /\ ~prog.tty /\ prog.host /\ prog.fmt # "none"
    /\ Goto(IF prog.existing THEN "existing" ELSE "context")
    /\ UNCHANGED <<prog, busVars, usbVars, context, secret, outVars>>

(* The old password goes to the output before anything is known of the new.  *)
PromptExisting ==
    /\ pc = "existing"
    /\ buffered' = buffered \o <<Item("existing", 0), Item("newline", 1)>>
    /\ Goto("context")
    /\ UNCHANGED <<prog, busVars, usbVars, context, secret, stdout, status>>

PromptFails == pc \in {"existing", "local"} /\ Fail

MakeContext ==
    /\ pc = "context"
    /\ context' = TRUE /\ Goto("run")
    /\ UNCHANGED <<prog, busVars, usbVars, secret, outVars>>

MakeContextFails == pc = "context" /\ Fail

-----------------------------------------------------------------------------
(* usb::run and open_and_run.                                                *)

GetDeviceList ==
    /\ pc = "run"
    /\ list' = ports /\ next' = 1 /\ Goto("scan")
    /\ UNCHANGED <<prog, busVars, context, handle, claimed, secret, outVars>>

Scanning == pc = "scan" /\ next <= Len(list)

SkipDevice ==
    /\ Scanning /\ ~Known(list[next])
    /\ next' = next + 1
    /\ UNCHANGED <<pc, prog, busVars, list, context, handle, claimed, secret,
                   outVars>>

OpenDevice ==
    /\ Scanning /\ Known(list[next])
    /\ handle' = list[next] /\ Goto("select")
    /\ UNCHANGED <<prog, busVars, list, next, context, claimed, secret, outVars>>

(* The descriptor of the active configuration, the choice, the claim.        *)
SelectAndClaim ==
    /\ pc = "select"
    /\ claimed' = Select(handle.interfaces, OgFirmware(handle))
    /\ claimed' # NoInterface
    /\ Goto("session")
    /\ UNCHANGED <<prog, busVars, list, next, context, handle, secret, outVars>>

(* A device of the list, open or not, that is gone or answers with an error, *)
(* an interface that is missing or taken, or an error of the session.        *)
UsbFails ==
    /\ \/ pc \in {"run", "session"}
       \/ Scanning
       \/ pc = "select"
    /\ Fail

(* No transfer succeeds without an endpoint.                                 *)
Session ==
    /\ pc = "session" /\ claimed.in # 0 /\ claimed.out # 0
    /\ \E size \in SessionSizes : secret' = Secret("raw", size)
    /\ LeaveUsb /\ Goto("slice")
    /\ UNCHANGED <<prog, busVars, context, outVars>>

(* Mutant of NoDeviceFound: the device list is kept.                         *)
NoDeviceKeepsList ==
    /\ pc = "scan" /\ next > Len(list)
    /\ Goto("attach")
    /\ UNCHANGED <<prog, busVars, usbVars, context, secret, outVars>>

(* No device that macer knows: usb::run returns no bytes, and main waits for *)
(* a key before it tries again.                                              *)
NoDeviceFound ==
    /\ pc = "scan" /\ next > Len(list)
    /\ LeaveUsb /\ Goto("attach")
    /\ UNCHANGED <<prog, busVars, context, secret, outVars>>

(* Mutant of KeyPressed: the list without a device is looked at again.       *)
KeyPressedOldList ==
    /\ pc = "attach"
    /\ list' = <<>> /\ Goto("scan")
    /\ UNCHANGED <<prog, busVars, next, handle, claimed, context, secret, outVars>>

KeyPressed ==
    /\ pc = "attach"
    /\ Goto("run")
    /\ UNCHANGED <<prog, busVars, usbVars, context, secret, outVars>>

NoInput == pc = "attach" /\ Fail

-----------------------------------------------------------------------------
(* Back in main.                                                             *)

TooShort == pc = "slice" /\ secret.size < PassSize(prog.fmt) /\ Fail

(* Mutants of Slice: the secret is not cut to the size of the format, and it *)
(* is written before the local passphrase is asked for.                      *)
SliceNothing ==
    /\ pc = "slice" /\ secret.size >= PassSize(prog.fmt)
    /\ secret' = IF IsBip39(prog.fmt) THEN Secret("words", WordCount(PassSize(prog.fmt)))
                 ELSE secret
    /\ Goto(IF prog.password THEN "local" ELSE "write")
    /\ UNCHANGED <<prog, busVars, usbVars, context, outVars>>

SliceAndWrite ==
    /\ pc = "slice" /\ secret.size >= PassSize(prog.fmt)
    /\ buffered' = Append(buffered, Item("raw", PassSize(prog.fmt)))
    /\ Goto(IF prog.password THEN "local" ELSE "write")
    /\ UNCHANGED <<prog, busVars, usbVars, context, secret, stdout, status>>

(* bip39::encode refuses some sizes, and main calls value() on what it       *)
(* returns, which throws then.                                               *)
Slice ==
    /\ pc = "slice" /\ secret.size >= PassSize(prog.fmt)
    /\ LET size == PassSize(prog.fmt) IN
       IF IsBip39(prog.fmt) /\ ~Encodable(size)
       THEN /\ pc' = "thrown" /\ status' = "aborted"
            /\ UNCHANGED secret
       ELSE /\ secret' = IF IsBip39(prog.fmt) THEN Secret("words", WordCount(size))
                         ELSE Secret("raw", size)
            /\ Goto(IF prog.password THEN "local" ELSE "write")
            /\ UNCHANGED status
    /\ UNCHANGED <<prog, busVars, usbVars, context, buffered, stdout>>

PromptLocal ==
    /\ pc = "local"
    /\ Exit("success", <<Item(secret.form, secret.size), Item("local", 0)>>)
    /\ UNCHANGED <<prog, busVars, secret>>

Write ==
    /\ pc = "write"
    /\ Exit("success", <<Item(secret.form, secret.size)>>)
    /\ UNCHANGED <<prog, busVars, secret>>

(* The process is interrupted: nothing that stdio holds is written, and the  *)
(* system closes what is open.                                               *)
Interrupt ==
    /\ pc \notin {"exited", "thrown"}
    /\ pc' = "exited" /\ status' = "killed"
    /\ LeaveUsb /\ context' = FALSE /\ buffered' = <<>>
    /\ UNCHANGED <<prog, busVars, secret, stdout>>

(* Devices come and go at any time; the list in use is a snapshot.           *)
Change == plugs < MaxPlugs /\ plugs' = plugs + 1
          /\ UNCHANGED <<pc, prog, usbVars, context, secret, outVars>>

Plug == /\ Change /\ Len(ports) < MaxDevices
        /\ \E d \in Devices : ports' \in {<<d>> \o ports, Append(ports, d)}

Pull == /\ Change /\ ports # <<>>
        /\ \E i \in DOMAIN ports :
             ports' = SubSeq(ports, 1, i - 1) \o SubSeq(ports, i + 1, Len(ports))

-----------------------------------------------------------------------------
Main == \/ CheckFails \/ CheckPasses \/ PromptExisting \/ PromptFails
        \/ MakeContext \/ MakeContextFails
        \/ GetDeviceList \/ SkipDevice \/ OpenDevice \/ SelectAndClaim
        \/ UsbFails \/ Session \/ NoDeviceFound \/ KeyPressed \/ NoInput
        \/ TooShort \/ Slice \/ PromptLocal \/ Write

Next == Main \/ Interrupt \/ Plug \/ Pull

Spec == Init /\ [][Next]_vars

(* macer does not pause by itself, and the person answers what it asks.      *)
FairSpec == Spec /\ WF_vars(Main)

-----------------------------------------------------------------------------
(* Properties.                                                               *)

(* A run that fails prints no part of a new password, and one that is        *)
(* interrupted prints nothing.                                               *)
FailurePrintsNoSecret ==
    /\ status = "failure" => \A i \in DOMAIN stdout : stdout[i].what \in {"existing", "newline"}
    /\ status \in {"running", "killed"} => stdout = <<>>

(* The interface is free again while main asks the person for something, so  *)
(* that another program may use the device and a new attempt may claim it.   *)
ReleasedOutsideSession ==
    pc \notin {"scan", "select", "session"} =>
        list = NoList /\ handle = NoDevice /\ claimed = NoInterface

(* What is claimed are the endpoints of a setting that has interrupt         *)
(* endpoints only: one of its inputs and one of its outputs, as far as it    *)
(* has any.                                                                  *)
Uses(setting) ==
    LET ends == ToSet(setting.endpoints)
        ins  == {e \in ends : e.address >= 128}
    IN  (\A e \in ends : e.attributes = 3) =>
            /\ IF ins = {} THEN claimed.in = 0
               ELSE \E e \in ins : claimed.in = e.address
            /\ IF ins = ends THEN claimed.out = 0
               ELSE \E e \in ends \ ins : claimed.out = e.address

(* A session is held with the first device of the list that macer knows, on  *)
(* the first interface of the class of its firmware, the one it claimed; and *)
(* where that has interrupt endpoints only, what macer writes goes to one of *)
(* its outputs and what it reads comes from one of its inputs.               *)
SessionEndpoints ==
    pc = "session" =>
        /\ handle = list[next] /\ Known(handle)
        /\ \A i \in 1..(next - 1) : ~Known(list[i])
        /\ LET class == IF handle.vendor = VendorId THEN VendorSpec ELSE Hid
               intf  == handle.interfaces
           IN  \E i \in DOMAIN intf : \E j \in DOMAIN intf[i] :
                 /\ intf[i][j].class = class
                 /\ intf[i][j].number = claimed.number
                 /\ Uses(intf[i][j])
                 /\ \A k \in 1..i : \A l \in DOMAIN intf[k] :
                      k < i \/ l < j => intf[k][l].class # class

(* A run with a device that stays attached ends, in one of the ways main     *)
(* provides for: the loop around usb::run looks at the bus anew each time,   *)
(* and value() never throws, since every slice main makes can be encoded.    *)
Attached == \E i \in DOMAIN ports : Known(ports[i])

AttachedIsFound == <>[]Attached => <>(pc = "exited")

=============================================================================

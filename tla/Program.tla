------------------------------ MODULE Program --------------------------------
(* main of src/main.cpp as a whole: the command line (Arguments), and what   *)
(* the program makes of it (Macer).                                          *)
EXTENDS Naturals, Sequences

CONSTANTS Values, CommandLines, Devices, MaxDevices, MaxPlugs

VARIABLES
    argv, parsed, done, given,                    \* Arguments
    pc, prog, ports, plugs, list, next, context,  \* Macer
    handle, claimed, secret, buffered, stdout, status,
    wanted                                        \* history: what the accepted command line asks to be printed

Parser == INSTANCE Arguments WITH prog <- parsed

AllOptions == [fmt : {"none", "legacy", "binary", "bip39_12", "bip39_18", "bip39_24"},
               existing : BOOLEAN, password : BOOLEAN, host : BOOLEAN, tty : BOOLEAN]

(* enum format, from the value of --format.                                  *)
Format(value) == CASE value = "bip39-12" -> "bip39_12"
                   [] value = "bip39-18" -> "bip39_18"
                   [] value = "bip39-24" -> "bip39_24"
                   [] OTHER -> value

Core == INSTANCE Macer WITH Options <- AllOptions

ASSUME ProgramAssumption ==
    /\ Parser!ArgumentsAssumption /\ Core!MacerAssumption
    /\ Core!TablesAscending

parserVars  == <<argv, parsed, done, given>>
programVars == <<parserVars, Core!vars, wanted>>

(* What is of interest of struct program once the arguments are read.        *)
options(tty) == [fmt |-> Format(parsed.fmt), existing |-> parsed.existing,
                 password |-> parsed.password, host |-> parsed.host # "", tty |-> tty]

Nothing == [fmt |-> "none", existing |-> FALSE, password |-> FALSE]

Init ==
    /\ Parser!Init
    /\ pc = "arguments" /\ Core!Start
    /\ prog = options(FALSE) /\ wanted = Nothing

Parse ==
    /\ pc = "arguments"
    /\ Parser!Next
    /\ UNCHANGED <<pc, prog, ports, plugs, list, next, context, handle, claimed,
                   secret, buffered, stdout, status, wanted>>

Asked(flag) == {given[i][2] : i \in {j \in DOMAIN given : given[j][1] = flag}}

(* The loop around process_argument is over, and is_cout_tty is asked next.  *)
(* The history of the options is reduced to what is of interest afterwards.  *)
Begin ==
    /\ pc = "arguments" /\ done /\ ~parsed.failed
    /\ pc' = "check"
    /\ \E tty \in BOOLEAN : prog' = options(tty)
    /\ wanted' = [fmt |-> IF Asked("format") = {} THEN "none"
                          ELSE CHOOSE value \in Asked("format") : TRUE,
                  existing |-> Asked("existing") # {},
                  password |-> Asked("password") # {}]
    /\ given' = <<>>
    /\ UNCHANGED <<argv, parsed, done, ports, plugs, list, next, context, handle,
                   claimed, secret, buffered, stdout, status>>

BadArguments ==
    /\ pc = "arguments" /\ done /\ parsed.failed
    /\ UNCHANGED <<parserVars, wanted>>
    /\ Core!Fail

(* The bus changes from here on; what happened to it before makes no         *)
(* difference.                                                               *)
Continue ==
    /\ pc # "arguments"
    /\ UNCHANGED <<parserVars, wanted>>
    /\ Core!Main \/ Core!Interrupt \/ Core!Plug \/ Core!Pull

Next == Parse \/ Begin \/ BadArguments \/ Continue

Main == \/ Parse \/ Begin \/ BadArguments
        \/ pc # "arguments" /\ UNCHANGED <<parserVars, wanted>> /\ Core!Main

Spec == Init /\ [][Next]_programVars

(* macer does not pause by itself, and the person answers what it asks.      *)
FairSpec == Spec /\ WF_programVars(Main)

-----------------------------------------------------------------------------
(* Properties.                                                               *)

(* With a new format the device always shows the same phrase, in whichever   *)
(* order the options came (main.cpp:103, 137).                               *)
NewFormatFixesMessage == Parser!NewFormatFixesMessage

(* Nothing the user gave is dropped: each value that is not empty is in      *)
(* effect when the command line is accepted.                                 *)
EveryValueCounts == Parser!EveryValueCounts

(* A run that succeeds printed what its command line asked for and no more:  *)
(* the old password on a line of its own, the secret in the form and at      *)
(* exactly the strength of the format (README.md:3), and the passphrase.     *)
Strength == CASE wanted.fmt = "legacy"   -> Core!Item("raw", 64)
              [] wanted.fmt = "binary"   -> Core!Item("raw", 32)
              [] wanted.fmt = "bip39-12" -> Core!Item("words", 12)
              [] wanted.fmt = "bip39-18" -> Core!Item("words", 18)
              [] wanted.fmt = "bip39-24" -> Core!Item("words", 24)

OutputAsAsked ==
    status = "success" =>
        stdout = (IF wanted.existing THEN <<Core!Item("existing", 0), Core!Item("newline", 1)>>
                  ELSE <<>>)
                 \o <<Strength>>
                 \o (IF wanted.password THEN <<Core!Item("local", 0)>> ELSE <<>>)

(* A run that fails prints no part of a new password, and one that is        *)
(* interrupted prints nothing (main.cpp:307).                                *)
FailurePrintsNoSecret == Core!FailurePrintsNoSecret

(* The interface is free again while main asks the person for something, so  *)
(* that another program may use the device and a new attempt may claim it.   *)
ReleasedOutsideSession == Core!ReleasedOutsideSession

(* A session is held with the first device macer knows, and through the      *)
(* endpoints of the interface it claimed (usb.cpp:90 of trezor).             *)
SessionEndpoints == Core!SessionEndpoints

(* A run with a device that stays attached ends in a way main provides for.  *)
AttachedIsFound == Core!AttachedIsFound

=============================================================================

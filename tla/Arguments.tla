------------------------------ MODULE Arguments ------------------------------
(* The command line of macer: process_argument and the handlers of           *)
(* src/main.cpp.  An argument is a flag, long or short, or anything else; a  *)
(* handler that takes a value takes the next argument, whatever it is.       *)
EXTENDS Naturals, Sequences

CONSTANTS
    Values,        \* arguments that are not the name of an option
    CommandLines

Flags      == {"help", "existing", "format", "host", "user", "message", "password"}
NewFormats == {"binary", "bip39-12", "bip39-18", "bip39-24"}
Generated  == "GENERATE PASSWORD"

ArgumentsAssumption ==
    /\ CommandLines \subseteq Seq(Values \union Flags)
    /\ Values \intersect Flags = {} /\ "" \in Values
    /\ Generated \notin Values \union Flags

VARIABLES
    argv,     \* arguments not yet looked at
    prog,     \* struct program
    done,     \* the loop of main is over
    given     \* history: options handled so far, with their values

vars == <<argv, prog, done, given>>

Init ==
    /\ argv \in CommandLines
    /\ prog = [host |-> "", user |-> "", message |-> "", fmt |-> "none",
               existing |-> FALSE, password |-> FALSE, failed |-> FALSE]
    /\ done = FALSE /\ given = <<>>

At(flag)  == ~done /\ argv # <<>> /\ argv[1] = flag
HasValue  == Len(argv) >= 2
Value     == argv[2]
IsNew     == prog.fmt \notin {"none", "legacy"}

Accept(to, n, option) ==
    /\ prog' = to
    /\ argv' = SubSeq(argv, n + 1, Len(argv))
    /\ given' = Append(given, option)
    /\ UNCHANGED done

Reject(with) ==
    /\ prog' = [with EXCEPT !.failed = TRUE]
    /\ done' = TRUE
    /\ UNCHANGED <<argv, given>>

HandleSwitch ==
    \E flag \in {"existing", "password"} :
        /\ At(flag)
        /\ Accept([prog EXCEPT ![flag] = TRUE], 1, <<flag, "">>)

(* Mutant of Basic: an option given twice takes the last value.              *)
BasicLast(flag) ==
    \/ /\ HasValue
       /\ Accept([prog EXCEPT ![flag] = Value], 2, <<flag, Value>>)
    \/ ~HasValue /\ Reject(prog)

(* basic_handler: an option counts as given when its value is not empty.     *)
Basic(flag) ==
    \/ /\ HasValue /\ prog[flag] = ""
       /\ Accept([prog EXCEPT ![flag] = Value], 2, <<flag, Value>>)
    \/ /\ ~HasValue \/ prog[flag] # ""
       /\ Reject(prog)

HandleHost == At("host") /\ Basic("host")

HandleUser == At("user") /\ Basic("user")

HandleMessage ==
    /\ At("message")
    /\ \/ ~IsNew /\ Basic("message")
       \/ IsNew /\ Reject(prog)

(* Mutant of HandleFormat: the phrase shown is not set.                      *)
HandleFormatSilent ==
    /\ At("format")
    /\ \/ /\ HasValue /\ prog.fmt = "none"
          /\ Value \in NewFormats \union {"legacy"}
          /\ Accept([prog EXCEPT !.fmt = Value], 2, <<"format", Value>>)
       \/ /\ ~HasValue \/ prog.fmt # "none"
          /\ Reject(prog)

HandleFormat ==
    /\ At("format")
    /\ \/ /\ HasValue /\ prog.fmt = "none" /\ Value = "legacy"
          /\ Accept([prog EXCEPT !.fmt = Value], 2, <<"format", Value>>)
       \/ /\ HasValue /\ prog.fmt = "none" /\ prog.message = ""
          /\ Value \in NewFormats
          /\ Accept([prog EXCEPT !.fmt = Value, !.message = Generated], 2,
                    <<"format", Value>>)
       \/ /\ \/ ~HasValue \/ prog.fmt # "none"
             \/ HasValue /\ Value # "legacy" /\ prog.message # ""
          /\ Reject(prog)
       \/ /\ HasValue /\ prog.fmt = "none" /\ prog.message = ""
          /\ Value \notin NewFormats \union {"legacy"}
          /\ Reject([prog EXCEPT !.message = Generated])

(* help has no handler; anything that is no flag is not found.               *)
Unknown == \E word \in Values \union {"help"} : At(word) /\ Reject(prog)

Finish == /\ ~done /\ argv = <<>>
          /\ done' = TRUE
          /\ UNCHANGED <<argv, prog, given>>

Next == \/ HandleSwitch \/ HandleHost \/ HandleUser \/ HandleMessage \/ HandleFormat
        \/ Unknown \/ Finish

Spec == Init /\ [][Next]_vars

-----------------------------------------------------------------------------
(* Properties.                                                               *)

Accepted == done /\ ~prog.failed

(* With a new format the device always shows the same phrase, in whichever   *)
(* order the options came.                                                   *)
NewFormatFixesMessage == Accepted => (IsNew <=> prog.message = Generated)

(* Nothing the user gave is dropped: each value that is not empty is in      *)
(* effect when the command line is accepted.                                 *)
EveryValueCounts ==
    Accepted => \A i \in DOMAIN given :
        LET flag == given[i][1] value == given[i][2] IN
        CASE flag = "format" -> prog.fmt = value
          [] flag \in {"existing", "password"} -> prog[flag]
          [] OTHER -> value = "" \/ prog[flag] = value

=============================================================================

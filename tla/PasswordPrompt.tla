---------------------------- MODULE PasswordPrompt ----------------------------
(* password_prompt and do_password of src/password.cpp, and the pause of     *)
(* main ("press any key when ready"), with the terminal and the person they  *)
(* share: all of them read the same stdin, and a character that one of them  *)
(* does not consume is there for the next.                                   *)
(*                                                                           *)
(* The terminal (not part of the repository) holds back a line until Enter   *)
(* in its canonical mode and passes every character on at once without it.   *)
(* Characters are tagged with the question the person was answering.         *)
EXTENDS Naturals, Sequences, SequencesExt

CONSTANTS
    Letters,      \* ordinary characters
    MaxPassword,  \* max_password_size
    MaxLine,      \* characters a person types in front of Enter
    MaxAsks       \* prompts and pauses

Special == {"DEL", "EOT"}
Chars   == Letters \union Special \union {"NL", "EOF"}

ASSUME PromptAssumption ==
    /\ MaxPassword \in Nat \ {0} /\ MaxLine \in Nat /\ MaxAsks \in Nat \ {0}
    /\ Letters \intersect (Special \union {"NL", "EOF"}) = {}

VARIABLES
    pc,        \* "idle", "shown", "reading", "pause" or "exited"
    confirm,   \* the argument of password_prompt
    second,    \* do_password("Confirm") runs
    pass,      \* aPass of the do_password that runs
    secret,    \* the first answer, while the second is read
    answer,    \* what password_prompt returned last, Refused for an error
    canonical, \* ICANON and ECHO of the terminal
    line,      \* typed, not yet passed on by the terminal
    input,     \* passed on, not yet consumed (terminal and stdio together)
    ask,       \* number of the question on the screen
    replying,  \* number of the question the person replies to
    pressed,   \* keys the person pressed in this reply, Enter included
    done,      \* the person pressed Enter
    foreign,   \* history: the question consumed a character meant for another
    echoed,    \* history: a character of an answer was shown on the screen
    habits     \* history: what the person did that macer does not provide for

programVars  == <<pc, confirm, second, pass, secret, answer>>
terminalVars == <<canonical, line, input>>
personVars   == <<replying, pressed, done, habits>>
historyVars  == <<foreign, echoed>>
Habits       == {"early", "long", "anykey"}
vars == <<programVars, terminalVars, personVars, historyVars, ask>>

Refused == <<"refused">>

Typed(c, k) == [char |-> c, ask |-> k, shown |-> canonical]

Init ==
    /\ pc = "idle" /\ confirm = FALSE /\ second = FALSE
    /\ pass = <<>> /\ secret = <<>> /\ answer = <<>>
    /\ canonical = TRUE /\ line = <<>> /\ input = <<>>
    /\ ask = 0 /\ replying = 0 /\ pressed = 0 /\ done = TRUE
    /\ foreign = FALSE /\ echoed = FALSE /\ habits = {}

-----------------------------------------------------------------------------
(* The program.                                                              *)

Ask == ask' = ask + 1

(* fprintf of the prompt, before the terminal is switched.                   *)
ShowPrompt ==
    /\ pc = "idle" /\ ask < MaxAsks /\ Ask
    /\ pc' = "shown" /\ confirm' \in BOOLEAN
    /\ confirm' => ask + 1 < MaxAsks
    /\ second' = FALSE
    /\ UNCHANGED <<pass, secret, answer, terminalVars, personVars, historyVars>>

(* Without a terminal there is no prompt.                                    *)
NoTerminal ==
    /\ pc = "idle" /\ ask < MaxAsks
    /\ answer' = Refused /\ pc' = "exited"
    /\ UNCHANGED <<confirm, second, pass, secret, ask, terminalVars, personVars,
                   historyVars>>

(* Mutant of DisableEcho: the mode of the terminal is not changed.           *)
DisableNothing ==
    /\ pc = "shown"
    /\ pc' = "reading" /\ pass' = <<>>
    /\ UNCHANGED <<confirm, second, secret, answer, ask, terminalVars, personVars,
                   historyVars>>

(* tcsetattr without ICANON and ECHO; a line held back becomes readable.     *)
DisableEcho ==
    /\ pc = "shown"
    /\ pc' = "reading" /\ pass' = <<>>
    /\ canonical' = FALSE /\ input' = input \o line /\ line' = <<>>
    /\ UNCHANGED <<confirm, second, secret, answer, ask, personVars, historyVars>>

EnableEcho == canonical' = TRUE /\ UNCHANGED line

(* password_prompt after its do_password returned what: the second answer    *)
(* has to equal the first.                                                   *)
Finish(what) ==
    /\ EnableEcho
    /\ \/ /\ confirm /\ ~second /\ what # Refused
          /\ Ask
          /\ pc' = "shown" /\ second' = TRUE /\ secret' = what
          /\ UNCHANGED answer
       \/ /\ ~(confirm /\ ~second /\ what # Refused)
          /\ answer' = IF second /\ what # secret THEN Refused ELSE what
          /\ pc' = IF answer' = Refused THEN "exited" ELSE "idle"
          /\ UNCHANGED <<second, secret, ask>>

(* getchar; the end of the input is met again by the next read.              *)
GetChar(c) ==
    /\ input # <<>> /\ c = Head(input).char
    /\ input' = IF c = "EOF" THEN input ELSE Tail(input)
    /\ foreign' = (foreign \/ (Head(input).ask # ask /\ c # "EOF"))

Keep(c, text) ==
    /\ pass' = text
    /\ echoed' = (echoed \/ Head(input).shown)

(* Mutant of ReadEnd: the terminal is not restored at the end of the input.  *)
ReadEndAtOnce ==
    /\ pc = "reading" /\ Len(pass) < MaxPassword
    /\ \E c \in {"EOF", "EOT"} : GetChar(c)
    /\ pc' = "exited" /\ answer' = Refused
    /\ UNCHANGED <<confirm, second, pass, secret, canonical, line, ask, echoed, personVars>>

ReadEnd ==
    /\ pc = "reading" /\ Len(pass) < MaxPassword
    /\ \E c \in {"EOF", "EOT"} : GetChar(c)
    /\ Finish(Refused)
    /\ UNCHANGED <<pass, confirm, echoed, personVars>>

(* Mutants of ReadEnter: the newline is left in the input, or is skipped     *)
(* when nothing was typed.                                                   *)
ReadEnterLeft ==
    /\ pc = "reading" /\ Len(pass) < MaxPassword
    /\ input # <<>> /\ Head(input).char = "NL"
    /\ foreign' = (foreign \/ Head(input).ask # ask)
    /\ Finish(pass)
    /\ UNCHANGED <<pass, confirm, input, echoed, personVars>>

ReadEnterSkipped ==
    /\ pc = "reading" /\ Len(pass) < MaxPassword
    /\ GetChar("NL")
    /\ \/ pass # <<>> /\ Finish(pass)
       \/ pass = <<>> /\ UNCHANGED <<pc, second, secret, answer, canonical, line, ask>>
    /\ UNCHANGED <<pass, confirm, echoed, personVars>>

ReadEnter ==
    /\ pc = "reading" /\ Len(pass) < MaxPassword
    /\ GetChar("NL")
    /\ Finish(pass)
    /\ UNCHANGED <<pass, confirm, echoed, personVars>>

ReadBackspace ==
    /\ pc = "reading" /\ Len(pass) < MaxPassword
    /\ GetChar("DEL") /\ pass # <<>>
    /\ pass' = Front(pass)
    /\ UNCHANGED <<pc, confirm, second, secret, answer, canonical, line, ask,
                   personVars, echoed>>

(* Every other character is kept, a backspace in front of all others too.    *)
ReadChar ==
    /\ pc = "reading" /\ Len(pass) < MaxPassword
    /\ \E c \in Letters \union {"DEL"} :
         /\ GetChar(c) /\ (c = "DEL" => pass = <<>>)
         /\ Keep(c, Append(pass, c))
    /\ UNCHANGED <<pc, confirm, second, secret, answer, canonical, line, ask, personVars>>

(* The loop of do_password ends by itself at the limit, without Enter.       *)
Full ==
    /\ pc = "reading" /\ Len(pass) = MaxPassword
    /\ Finish(pass)
    /\ UNCHANGED <<pass, confirm, input, personVars, historyVars>>

(* main waits for a key with a plain getchar.                                *)
Pause ==
    /\ pc = "idle" /\ ask < MaxAsks /\ Ask
    /\ pc' = "pause"
    /\ UNCHANGED <<confirm, second, pass, secret, answer, terminalVars, personVars,
                   historyVars>>

Resume ==
    /\ pc = "pause"
    /\ \E c \in Chars : GetChar(c) /\ pc' = IF c = "EOF" THEN "exited" ELSE "idle"
    /\ UNCHANGED <<confirm, second, pass, secret, answer, canonical, line, ask,
                   personVars, echoed>>

-----------------------------------------------------------------------------
(* The person and the terminal.                                              *)

(* Someone who finished a line goes on when there is a new question.         *)
MayType == ~done \/ replying < ask

Before == IF done THEN 0 ELSE pressed

(* What a person should know not to do: type ahead of the program, type as   *)
(* much as a password may have, and end the pause with another key.          *)
Habit(c) ==
    (IF pc \notin {"reading", "pause"} THEN {"early"} ELSE {})
      \union (IF c # "NL" /\ Before + 1 >= MaxPassword THEN {"long"} ELSE {})
      \union (IF pc = "pause" /\ c # "NL" THEN {"anykey"} ELSE {})

Reply(c) ==
    /\ MayType
    /\ habits' = habits \union Habit(c)
    /\ LET k == IF done THEN ask ELSE replying IN
       /\ replying' = k
       /\ IF canonical
          THEN CASE c = "NL"  -> line' = <<>> /\ input' = (input \o line) \o <<Typed(c, k)>>
                 [] c = "DEL" -> /\ line' = IF line = <<>> THEN <<>> ELSE Front(line)
                                 /\ UNCHANGED input
                 [] c = "EOT" -> /\ line' = <<>>
                                 /\ input' = IF line = <<>> THEN Append(input, Typed("EOF", k))
                                             ELSE input \o line
                 [] OTHER     -> line' = Append(line, Typed(c, k)) /\ UNCHANGED input
          ELSE input' = Append(input, Typed(c, k)) /\ UNCHANGED line
    /\ UNCHANGED <<programVars, canonical, ask, historyVars>>

TypeEnter ==
    /\ Reply("NL")
    /\ done' = TRUE /\ pressed' = Before + 1

TypeKey ==
    /\ Before < MaxLine
    /\ \E c \in Letters \union Special : Reply(c)
    /\ done' = FALSE /\ pressed' = Before + 1

HangUp ==
    /\ input' = Append(input, Typed("EOF", ask))
    /\ \A i \in DOMAIN input : input[i].char # "EOF"
    /\ done' = TRUE
    /\ UNCHANGED <<programVars, canonical, line, ask, replying, pressed, historyVars, habits>>

Program == \/ DisableEcho \/ ReadEnd \/ ReadEnter \/ ReadBackspace \/ ReadChar
           \/ Full \/ Resume
Person  == TypeEnter \/ TypeKey \/ HangUp

Next == \/ ShowPrompt \/ NoTerminal \/ Pause \/ Program
        \/ Person

Spec == Init /\ [][Next]_vars

(* The program does not pause, and a person who began a reply presses Enter. *)
FairSpec == Spec /\ WF_vars(Program) /\ WF_vars(TypeEnter)

-----------------------------------------------------------------------------
(* Properties.                                                               *)

(* Someone who waits for the program to read, ends the pause with Enter and  *)
(* keeps to the limit (password.cpp:41) answers each question with what was  *)
(* typed in reply to it: the passphrase of one prompt never completes the    *)
(* PIN of another.                                                           *)
AnswersOwnQuestion == habits = {} => ~foreign

(* The same, if the pause may be ended with any key, as it says it may       *)
(* (main.cpp:254).                                                           *)
AnyKeyEndsPause == habits \subseteq {"anykey"} => ~foreign

(* Nothing of an answer appears on the screen unless it is typed before the  *)
(* program reads; keys for the pause, which do appear, are no answer.        *)
NoPasswordOnScreen == habits \subseteq {"long"} => ~echoed

(* However the prompt ends, the terminal is as it was.                       *)
EchoRestored == pc # "reading" => canonical

(* Every question is over some time, with an answer or an error.             *)
QuestionEnds == pc \in {"shown", "reading", "pause"} ~> pc \in {"idle", "exited"}

=============================================================================

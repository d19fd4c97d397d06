------------------------ MODULE PasswordPrompt_proofs ------------------------
(* The terminal and the answers, for any characters, any size of a password, *)
(* any length of what a person types and any number of questions.            *)
EXTENDS PasswordPrompt, SequenceTheorems, TLAPS

(* The keys a person presses, and what the terminal hands on.                *)
Arrived == [char : Chars, ask : Nat, shown : BOOLEAN]

-----------------------------------------------------------------------------
(* The terminal.                                                             *)

(* do_password switches the terminal, and every way out of it switches back. *)
Switched == canonical = (pc # "reading")

LEMMA SwitchedStep ==
    ASSUME Switched, [Next]_vars
    PROVE  Switched'
<1> USE DEF Switched
<1>1. CASE UNCHANGED vars
  BY <1>1 DEF vars, programVars, terminalVars
<1>2. CASE ShowPrompt \/ NoTerminal \/ Pause
  BY <1>2 DEF ShowPrompt, NoTerminal, Pause, terminalVars
<1>3. CASE DisableEcho \/ ReadBackspace \/ ReadChar \/ Resume
  BY <1>3 DEF DisableEcho, ReadBackspace, ReadChar, Resume
<1>4. CASE ReadEnd \/ ReadEnter \/ Full
  BY <1>4 DEF ReadEnd, ReadEnter, Full, Finish, EnableEcho
<1>5. CASE Person
  BY <1>5 DEF Person, TypeEnter, TypeKey, HangUp, Reply, programVars
<1> QED
  BY <1>1, <1>2, <1>3, <1>4, <1>5 DEF Next, Program

(* However the prompt ends, the terminal is as it was.                       *)
THEOREM EchoCorrect == Spec => []EchoRestored
<1>1. Init => Switched
  BY DEF Init, Switched
<1>2. Switched => EchoRestored
  BY DEF Switched, EchoRestored
<1> QED
  BY <1>1, <1>2, SwitchedStep, PTL DEF Spec

-----------------------------------------------------------------------------
(* What a person types who keeps to what macer provides for.                 *)

TypeInv ==
    /\ Switched
    /\ pc \in {"idle", "shown", "reading", "pause", "exited"}
    /\ input \in Seq(Arrived) /\ line \in Seq(Arrived)
    /\ ask \in Nat /\ replying \in Nat /\ pressed \in Nat /\ done \in BOOLEAN
    /\ pass \in Seq(Chars)

(* A line is never held back, and what is shown is no part of an answer.     *)
ScreenInv ==
    habits \subseteq {"long"} =>
        /\ line = <<>>
        /\ \A i \in DOMAIN input : input[i].shown => input[i].char \in {"NL", "EOF"}
        /\ ~echoed

(* No end of the input among the first n characters: they can be read.       *)
Open(n) == \A i \in 1..n : input[i].char # "EOF"

Ordinary(n) == \A i \in 1..n : input[i].char \notin {"NL", "EOF"}

(* While a question is read, whatever can be read answers it.                *)
Own == \A i \in DOMAIN input : Open(i) => input[i].ask = ask

(* Enter ends the reply, so that nothing is left for the next question.      *)
EnterIsLast == \A i \in DOMAIN input : Open(i) /\ input[i].char = "NL" =>
            /\ done /\ replying = ask
            /\ i < Len(input) => input[i + 1].char = "EOF"

Blocked == input # <<>> => input[1].char = "EOF"

(* The answer is always shorter than the limit, so that it is Enter that     *)
(* ends it.                                                                  *)
Short == \A n \in 0..Len(input) : Ordinary(n) => Len(pass) + n < MaxPassword
Few   == Ordinary(Len(input)) => Len(pass) + Len(input) <= Before

OnlyEnter == \A i \in DOMAIN input : Open(i) => input[i].char = "NL"

OrderInv ==
    /\ pc \in {"reading", "pause"} => Own
    /\ pc \in {"idle", "shown"} => done /\ Blocked
    /\ EnterIsLast
    /\ ~done => replying = ask
    /\ replying <= ask
    /\ pc = "reading" => Short /\ Few
    /\ pc = "pause" => OnlyEnter

AnswerInv == habits = {} => ~foreign /\ (pc # "exited" => OrderInv)

-----------------------------------------------------------------------------
(* Sequences.                                                                *)

LEMMA Tailed ==
    ASSUME NEW T, NEW s \in Seq(T), s # <<>>
    PROVE  /\ Len(s) \in Nat \ {0} /\ DOMAIN s = 1..Len(s)
           /\ Head(s) = s[1] /\ s[1] \in T
           /\ Tail(s) \in Seq(T) /\ Len(Tail(s)) = Len(s) - 1
           /\ DOMAIN Tail(s) = 1..(Len(s) - 1)
           /\ \A i \in 1..(Len(s) - 1) : Tail(s)[i] = s[i + 1]
<1>1. Len(s) \in Nat \ {0} /\ DOMAIN s = 1..Len(s) /\ s \in [1..Len(s) -> T]
  BY LenProperties, EmptySeq
<1>2. Head(s) = s[1] /\ s[1] \in T
  BY <1>1
<1>3. /\ Tail(s) \in Seq(T) /\ Len(Tail(s)) = Len(s) - 1
      /\ \A i \in 1..Len(Tail(s)) : Tail(s)[i] = s[i + 1]
  BY HeadTailProperties
<1>4. DOMAIN Tail(s) = 1..Len(Tail(s))
  BY <1>3, LenProperties
<1> QED
  BY <1>1, <1>2, <1>3, <1>4

LEMMA Appended ==
    ASSUME NEW T, NEW s \in Seq(T), NEW x \in T
    PROVE  /\ Len(s) \in Nat /\ DOMAIN s = 1..Len(s)
           /\ Append(s, x) \in Seq(T) /\ Len(Append(s, x)) = Len(s) + 1
           /\ DOMAIN Append(s, x) = 1..(Len(s) + 1)
           /\ \A i \in 1..Len(s) : Append(s, x)[i] = s[i]
           /\ Append(s, x)[Len(s) + 1] = x
<1>1. Len(s) \in Nat /\ DOMAIN s = 1..Len(s)
  BY LenProperties
<1>2. /\ Append(s, x) \in Seq(T) /\ Len(Append(s, x)) = Len(s) + 1
      /\ \A i \in 1..Len(s) : Append(s, x)[i] = s[i]
      /\ Append(s, x)[Len(s) + 1] = x
  BY AppendProperties
<1>3. DOMAIN Append(s, x) = 1..Len(Append(s, x))
  BY <1>2, LenProperties
<1> QED
  BY <1>1, <1>2, <1>3

LEMMA Shortened ==
    ASSUME NEW T, NEW s \in Seq(T), s # <<>>
    PROVE  Front(s) \in Seq(T) /\ Len(Front(s)) = Len(s) - 1
<1>1. Len(s) \in Nat \ {0} /\ s \in [1..Len(s) -> T]
  BY LenProperties, EmptySeq
<1>2. Front(s) = SubSeq(s, 1, Len(s) - 1)
  BY DEF Front
<1>3. \A i \in 1..(Len(s) - 1) : s[i] \in T
  BY <1>1
<1>4. /\ SubSeq(s, 1, Len(s) - 1) \in Seq(T)
      /\ Len(SubSeq(s, 1, Len(s) - 1)) = IF 1 <= Len(s) - 1 THEN Len(s) - 1 - 1 + 1 ELSE 0
  BY <1>1, <1>3, SubSeqProperties
<1> QED
  BY <1>1, <1>2, <1>4

-----------------------------------------------------------------------------
(* Types.                                                                    *)

LEMMA TypeStep ==
    ASSUME TypeInv, [Next]_vars
    PROVE  TypeInv'
<1> USE DEF TypeInv
<1>0. Switched'
  BY SwitchedStep
<1>1. CASE UNCHANGED vars
  BY <1>0, <1>1 DEF vars, programVars, terminalVars, personVars
<1>2. CASE ShowPrompt \/ NoTerminal \/ Pause
  BY <1>0, <1>2 DEF ShowPrompt, NoTerminal, Pause, terminalVars, personVars, Ask
<1>3. CASE DisableEcho
  <2>1. input \o line \in Seq(Arrived) /\ <<>> \in Seq(Arrived) /\ <<>> \in Seq(Chars)
    BY ConcatProperties
  <2> QED
    BY <1>0, <1>3, <2>1 DEF DisableEcho, personVars
<1>4. ASSUME NEW c, GetChar(c)
      PROVE  input' \in Seq(Arrived) /\ c \in Chars
  <2>1. input # <<>> /\ Tail(input) \in Seq(Arrived) /\ Head(input) \in Arrived
    BY <1>4, Tailed DEF GetChar
  <2> QED
    BY <1>4, <2>1 DEF GetChar, Arrived
<1>5. ASSUME NEW what, Finish(what)
      PROVE  ask' \in Nat /\ line' = line /\ pc' \in {"shown", "idle", "exited"}
  BY <1>5 DEF Finish, EnableEcho, Ask
<1>6. CASE ReadEnd \/ ReadEnter
  BY <1>0, <1>4, <1>5, <1>6 DEF ReadEnd, ReadEnter, personVars
<1>7. CASE Full
  BY <1>0, <1>5, <1>7 DEF Full, personVars
<1>8. CASE ReadBackspace
  BY <1>0, <1>4, <1>8, Shortened DEF ReadBackspace, personVars
<1>9. CASE ReadChar
  <2>1. PICK c : GetChar(c) /\ pass' = Append(pass, c)
    BY <1>9 DEF ReadChar, Keep
  <2>2. pass' \in Seq(Chars)
    BY <1>4, <2>1, Appended
  <2> QED
    BY <1>0, <1>4, <1>9, <2>1, <2>2 DEF ReadChar, personVars
<1>10. CASE Resume
  BY <1>0, <1>4, <1>10 DEF Resume, personVars
<1>11. ASSUME NEW c \in Chars, Reply(c)
       PROVE  /\ input' \in Seq(Arrived) /\ line' \in Seq(Arrived) /\ replying' \in Nat
              /\ ask' = ask /\ pc' = pc /\ pass' = pass
  <2> DEFINE k == IF done THEN ask ELSE replying
             x == Typed(c, k)
  <2>1. k \in Nat /\ canonical \in BOOLEAN
    BY DEF Switched
  <2>2. x \in Arrived /\ Typed("EOF", k) \in Arrived
    BY <2>1 DEF Typed, Arrived, Chars
  <2>3. replying' = k /\ ask' = ask /\ pc' = pc /\ pass' = pass
    BY <1>11 DEF Reply, programVars
  <2>4. IF canonical
        THEN CASE c = "NL"  -> line' = <<>> /\ input' = (input \o line) \o <<x>>
               [] c = "DEL" -> /\ line' = IF line = <<>> THEN <<>> ELSE Front(line)
                               /\ input' = input
               [] c = "EOT" -> /\ line' = <<>>
                               /\ input' = IF line = <<>> THEN Append(input, Typed("EOF", k))
                                           ELSE input \o line
               [] OTHER     -> line' = Append(line, x) /\ input' = input
        ELSE input' = Append(input, x) /\ line' = line
    BY <1>11 DEF Reply
  <2> HIDE DEF k, x
  <2>5. Append(line, x) \in Seq(Arrived) /\ Append(input, x) \in Seq(Arrived)
        /\ Append(input, Typed("EOF", k)) \in Seq(Arrived)
    BY <2>2, AppendProperties
  <2>6. input \o line \in Seq(Arrived) /\ <<x>> \in Seq(Arrived) /\ <<>> \in Seq(Arrived)
    BY <2>2, ConcatProperties
  <2>7. (input \o line) \o <<x>> \in Seq(Arrived)
    BY <2>6, ConcatProperties
  <2>8. line # <<>> => Front(line) \in Seq(Arrived)
    BY Shortened
  <2>9. CASE canonical
    <3>1. ASSUME c = "NL" PROVE input' \in Seq(Arrived) /\ line' \in Seq(Arrived)
      BY <2>4, <2>6, <2>7, <2>9, <3>1
    <3>2. ASSUME c = "DEL" PROVE input' \in Seq(Arrived) /\ line' \in Seq(Arrived)
      BY <2>4, <2>6, <2>8, <2>9, <3>2
    <3>3. ASSUME c = "EOT" PROVE input' \in Seq(Arrived) /\ line' \in Seq(Arrived)
      BY <2>4, <2>5, <2>6, <2>9, <3>3
    <3>4. ASSUME c \notin {"NL", "DEL", "EOT"}
          PROVE  input' \in Seq(Arrived) /\ line' \in Seq(Arrived)
      BY <2>4, <2>5, <2>9, <3>4
    <3>5. input' \in Seq(Arrived) /\ line' \in Seq(Arrived)
      BY <3>1, <3>2, <3>3, <3>4
    <3> QED
      BY <2>1, <2>3, <3>5
  <2>10. CASE ~canonical
    BY <2>1, <2>3, <2>4, <2>5, <2>10
  <2> QED
    BY <2>9, <2>10
<1>12. CASE TypeEnter \/ TypeKey
  <2>1. \E c \in Chars : Reply(c)
    BY <1>12 DEF TypeEnter, TypeKey, Chars
  <2>2. done' \in BOOLEAN
    BY <1>12 DEF TypeEnter, TypeKey
  <2>3. pressed' = Before + 1
    BY <1>12 DEF TypeEnter, TypeKey
  <2>4. pressed' \in Nat
    BY <2>3 DEF Before
  <2> QED
    BY <1>0, <1>11, <2>1, <2>2, <2>4
<1>13. CASE HangUp
  <2>1. Typed("EOF", ask) \in Arrived
    BY DEF Typed, Arrived, Chars, Switched
  <2>2. input' \in Seq(Arrived)
    BY <1>13, <2>1, AppendProperties DEF HangUp
  <2> QED
    BY <1>0, <1>13, <2>2 DEF HangUp, programVars
<1> QED
  BY <1>1, <1>2, <1>3, <1>6, <1>7, <1>8, <1>9, <1>10, <1>12, <1>13 DEF Next, Program, Person

-----------------------------------------------------------------------------
(* The screen.                                                               *)

(* Someone who waits for the program to read, and ends a pause with Enter,   *)
(* never leaves a line half typed.                                           *)
LEMMA Typing ==
    ASSUME TypeInv, line = <<>>, NEW c \in Chars \ {"EOF"}, Reply(c), habits' \subseteq {"long"}
    PROVE  /\ pc \in {"reading", "pause"} /\ (pc = "pause" => c = "NL")
           /\ line' = <<>> /\ replying' = IF done THEN ask ELSE replying
           /\ input' = Append(input, Typed(c, replying')) /\ Typed(c, replying') \in Arrived
<1> DEFINE k == IF done THEN ask ELSE replying
           x == Typed(c, k)
<1>1. pc \in {"reading", "pause"} /\ (pc = "pause" => c = "NL")
  BY DEF Reply, Habit
<1>2. replying' = k
  BY DEF Reply
<1>3. x \in Arrived
  BY DEF TypeInv, Switched, Typed, Arrived
<1>4. CASE pc = "reading"
  BY <1>1, <1>2, <1>3, <1>4 DEF TypeInv, Switched, Reply
<1>5. CASE pc = "pause"
  <2>1. canonical /\ c = "NL"
    BY <1>1, <1>5 DEF TypeInv, Switched
  <2>2. line' = <<>> /\ input' = (input \o <<>>) \o <<x>>
    BY <2>1 DEF Reply
  <2>3. input \o <<>> = input
    BY ConcatEmptySeq DEF TypeInv
  <2> HIDE DEF x
  <2>4. Append(input, x) = input \o <<x>>
    BY <1>3, AppendIsConcat DEF TypeInv
  <2> QED
    BY <1>1, <1>2, <1>3, <2>2, <2>3, <2>4 DEF x
<1> QED
  BY <1>1, <1>4, <1>5

Harmless(s) == \A i \in DOMAIN s : s[i].shown => s[i].char \in {"NL", "EOF"}

LEMMA ScreenStep ==
    ASSUME TypeInv, ScreenInv, [Next]_vars
    PROVE  ScreenInv'
<1> SUFFICES ASSUME habits' \subseteq {"long"}
             PROVE  line' = <<>> /\ Harmless(input') /\ ~echoed'
  BY DEF ScreenInv, Harmless
<1>1. habits \subseteq habits'
  BY DEF Next, Program, Person, ShowPrompt, NoTerminal, Pause, DisableEcho, ReadEnd, ReadEnter,
     ReadBackspace, ReadChar, Full, Resume, TypeEnter, TypeKey, HangUp, Reply, vars, personVars
<1>2. line = <<>> /\ Harmless(input) /\ ~echoed
  BY <1>1 DEF ScreenInv, Harmless
<1>3. CASE UNCHANGED vars \/ ShowPrompt \/ NoTerminal \/ Pause
  BY <1>2, <1>3 DEF vars, ShowPrompt, NoTerminal, Pause, terminalVars, historyVars
<1>4. CASE DisableEcho
  <2>1. input \o <<>> = input
    BY ConcatEmptySeq DEF TypeInv
  <2> QED
    BY <1>2, <1>4, <2>1 DEF DisableEcho, historyVars
<1>5. ASSUME NEW c, GetChar(c) PROVE Harmless(input')
  <2>1. CASE input' = input
    BY <1>2, <2>1
  <2>2. CASE input' = Tail(input)
    <3>1. input # <<>>
      BY <1>5 DEF GetChar
    <3>2. /\ Len(input) \in Nat /\ DOMAIN input = 1..Len(input)
          /\ DOMAIN Tail(input) = 1..(Len(input) - 1)
          /\ \A i \in 1..(Len(input) - 1) : Tail(input)[i] = input[i + 1]
      BY <3>1, Tailed DEF TypeInv
    <3>3. \A i \in 1..(Len(input) - 1) : i + 1 \in 1..Len(input)
      BY <3>2
    <3> QED
      BY <1>2, <2>2, <3>2, <3>3 DEF Harmless
  <2> QED
    BY <1>5, <2>1, <2>2 DEF GetChar
<1>6. CASE ReadEnd \/ ReadEnter
  BY <1>2, <1>5, <1>6 DEF ReadEnd, ReadEnter, Finish, EnableEcho
<1>7. CASE Full
  BY <1>2, <1>7 DEF Full, Finish, EnableEcho, historyVars
<1>8. CASE ReadBackspace \/ Resume
  BY <1>2, <1>5, <1>8 DEF ReadBackspace, Resume
<1>9. CASE ReadChar
  <2>1. PICK c \in Letters \union {"DEL"} : GetChar(c) /\ echoed' = (echoed \/ Head(input).shown)
    BY <1>9 DEF ReadChar, Keep
  <2>2. c \notin {"NL", "EOF"}
    BY <2>1, PromptAssumption
  <2>3. input # <<>> /\ c = Head(input).char
    BY <2>1 DEF GetChar
  <2>4. 1 \in DOMAIN input /\ Head(input) = input[1]
    BY <2>3, Tailed DEF TypeInv
  <2>5. ~Head(input).shown
    BY <1>2, <2>2, <2>3, <2>4 DEF Harmless
  <2> QED
    BY <1>2, <1>5, <1>9, <2>1, <2>5 DEF ReadChar
<1>10. ASSUME NEW x \in Arrived, input' = Append(input, x), x.shown => x.char \in {"NL", "EOF"}
       PROVE  Harmless(input')
  <2>1. /\ Len(input) \in Nat /\ DOMAIN input = 1..Len(input)
        /\ DOMAIN input' = 1..(Len(input) + 1)
        /\ \A i \in 1..Len(input) : input'[i] = input[i]
        /\ input'[Len(input) + 1] = x
    BY <1>10, Appended DEF TypeInv
  <2>2. \A i \in 1..(Len(input) + 1) : i \in 1..Len(input) \/ i = Len(input) + 1
    BY <2>1
  <2> QED
    BY <1>2, <1>10, <2>1, <2>2 DEF Harmless
<1>11. CASE TypeEnter \/ TypeKey
  <2>1. PICK c \in Chars \ {"EOF"} : Reply(c)
    BY <1>11, PromptAssumption DEF TypeEnter, TypeKey, Chars, Special
  <2>2. /\ pc = "pause" => c = "NL"
        /\ pc \in {"reading", "pause"} /\ line' = <<>>
        /\ input' = Append(input, Typed(c, replying')) /\ Typed(c, replying') \in Arrived
    BY <1>2, <2>1, Typing
  <2>3. Typed(c, replying').shown => Typed(c, replying').char = "NL"
    BY <2>2 DEF Typed, TypeInv, Switched
  <2>4. echoed' = echoed
    BY <2>1 DEF Reply, historyVars
  <2> QED
    BY <1>2, <1>10, <2>2, <2>3, <2>4
<1>12. CASE HangUp
  <2>1. Typed("EOF", ask) \in Arrived /\ Typed("EOF", ask).char = "EOF"
    BY DEF TypeInv, Switched, Typed, Arrived, Chars
  <2>2. Harmless(input')
    BY <1>10, <1>12, <2>1 DEF HangUp
  <2> QED
    BY <1>2, <1>12, <2>2 DEF HangUp, historyVars
<1> QED
  BY <1>3, <1>4, <1>6, <1>7, <1>8, <1>9, <1>11, <1>12 DEF Next, Program, Person

LEMMA TypeInit ==
    ASSUME Init
    PROVE  TypeInv /\ ScreenInv /\ AnswerInv
<1> USE DEF Init
<1>1. TypeInv
  <2>1. <<>> \in Seq(Arrived) /\ <<>> \in Seq(Chars)
    OBVIOUS
  <2>2. canonical = (pc # "reading")
    OBVIOUS
  <2> QED
    BY <2>1, <2>2 DEF TypeInv, Switched
<1>2. ScreenInv
  BY DEF ScreenInv
<1>3. AnswerInv
  BY DEF AnswerInv, OrderInv, Blocked, EnterIsLast
<1> QED
  BY <1>1, <1>2, <1>3

(* Nothing of an answer appears on the screen unless it is typed before the  *)
(* program reads.                                                            *)
THEOREM ScreenCorrect == Spec => []NoPasswordOnScreen
<1>1. Init => TypeInv /\ ScreenInv
  BY TypeInit
<1>2. TypeInv /\ ScreenInv /\ [Next]_vars => (TypeInv /\ ScreenInv)'
  BY TypeStep, ScreenStep
<1>3. ScreenInv => NoPasswordOnScreen
  BY DEF ScreenInv, NoPasswordOnScreen
<1> QED
  BY <1>1, <1>2, <1>3, PTL DEF Spec

-----------------------------------------------------------------------------
(* The order of what is typed and what is read.                              *)

LEMMA Shift ==
    ASSUME TypeInv, NEW c, c # "EOF", GetChar(c)
    PROVE  /\ Len(input) \in Nat \ {0} /\ DOMAIN input = 1..Len(input)
           /\ Len(input') = Len(input) - 1 /\ DOMAIN input' = 1..Len(input')
           /\ c = input[1].char /\ foreign' = (foreign \/ input[1].ask # ask)
           /\ \A i \in 1..Len(input') : i + 1 \in 1..Len(input) /\ input'[i] = input[i + 1]
           /\ \A i \in 0..Len(input') : Open(i)' => Open(i + 1)
           /\ c # "NL" => \A n \in 0..Len(input') : Ordinary(n)' => Ordinary(n + 1)
           /\ input' = <<>> <=> Len(input) = 1
<1>1. input # <<>> /\ c = Head(input).char /\ input' = Tail(input)
      /\ foreign' = (foreign \/ Head(input).ask # ask)
  BY DEF GetChar
<1>2. /\ Len(input) \in Nat \ {0} /\ DOMAIN input = 1..Len(input)
      /\ Head(input) = input[1]
      /\ input' \in Seq(Arrived) /\ Len(input') = Len(input) - 1
      /\ DOMAIN input' = 1..(Len(input) - 1)
      /\ \A i \in 1..(Len(input) - 1) : input'[i] = input[i + 1]
  BY <1>1, Tailed DEF TypeInv
<1>3. \A i \in 1..Len(input') : i + 1 \in 1..Len(input) /\ input'[i] = input[i + 1]
  BY <1>2
<1>4. ASSUME NEW n \in 0..Len(input'), NEW j \in 1..(n + 1)
      PROVE  j = 1 \/ (j - 1 \in 1..n /\ input'[j - 1] = input[j])
  BY <1>2, <1>3
<1>5. \A i \in 0..Len(input') : Open(i)' => Open(i + 1)
  BY <1>1, <1>2, <1>4, ZenonT(40) DEF Open
<1>6. c # "NL" => \A n \in 0..Len(input') : Ordinary(n)' => Ordinary(n + 1)
  BY <1>1, <1>2, <1>4 DEF Ordinary
<1>7. input' = <<>> <=> Len(input) = 1
  BY <1>2, EmptySeq
<1> QED
  BY <1>1, <1>2, <1>3, <1>5, <1>6, <1>7

LEMMA Join ==
    ASSUME TypeInv, NEW x \in Arrived, input' = Append(input, x), NEW n, n = Len(input)
    PROVE  /\ n \in Nat /\ DOMAIN input = 1..n
           /\ Len(input') = n + 1 /\ DOMAIN input' = 1..(n + 1)
           /\ \A i \in 1..n : input'[i] = input[i]
           /\ input'[n + 1] = x
           /\ \A i \in 0..n : Open(i)' = Open(i) /\ Ordinary(i)' = Ordinary(i)
           /\ Open(n + 1)' => Open(n) /\ x.char # "EOF"
           /\ Ordinary(n + 1)' => Ordinary(n) /\ x.char \notin {"NL", "EOF"}
<1>1. /\ n \in Nat /\ DOMAIN input = 1..n
      /\ Len(input') = n + 1 /\ DOMAIN input' = 1..(n + 1)
      /\ \A i \in 1..n : input'[i] = input[i]
      /\ input'[n + 1] = x
  BY Appended DEF TypeInv
<1>2. \A i \in 0..n : \A j \in 1..i : input'[j] = input[j]
  BY <1>1
<1>3. \A i \in 0..n : Open(i)' = Open(i)
  BY <1>2 DEF Open
<1>4. \A i \in 0..n : Ordinary(i)' = Ordinary(i)
  BY <1>2 DEF Ordinary
<1>5. n + 1 \in 1..(n + 1) /\ \A j \in 1..n : j \in 1..(n + 1)
  BY <1>1
<1>6. Open(n + 1)' => Open(n) /\ x.char # "EOF"
  BY <1>1, <1>5 DEF Open
<1>7. Ordinary(n + 1)' => Ordinary(n) /\ x.char \notin {"NL", "EOF"}
  BY <1>1, <1>5 DEF Ordinary
<1> QED
  BY <1>1, <1>3, <1>4, <1>6, <1>7

(* A key that is pressed while the program reads.                            *)
LEMMA Pressed ==
    ASSUME TypeInv, OrderInv, line = <<>>, NEW c \in Chars \ {"EOF"}, Reply(c), habits' = {},
           done' = (c = "NL"), pressed' = Before + 1
    PROVE  OrderInv'
<1> DEFINE x == Typed(c, replying')
<1>1. /\ pc \in {"reading", "pause"} /\ (pc = "pause" => c = "NL")
      /\ input' = Append(input, x) /\ x \in Arrived
      /\ replying' = IF done THEN ask ELSE replying
  BY Typing
<1>2. pc' = pc /\ ask' = ask /\ pass' = pass /\ replying' = ask
  BY <1>1 DEF Reply, programVars, OrderInv
<1>3. x.char = c /\ x.ask = ask
  BY <1>2 DEF Typed
<1>4. Own
  BY <1>1 DEF OrderInv
<1>5. \A i \in DOMAIN input : ~(Open(i) /\ input[i].char = "NL")
  BY DEF OrderInv, EnterIsLast, Reply, MayType, TypeInv
<1> HIDE DEF x
<1> PICK n \in Nat : n = Len(input)
  BY LenProperties DEF TypeInv
<1>6. /\ n \in Nat /\ DOMAIN input = 1..n
      /\ Len(input') = n + 1 /\ DOMAIN input' = 1..(n + 1)
      /\ \A i \in 1..n : input'[i] = input[i]
      /\ input'[n + 1] = x
      /\ \A i \in 0..n : Open(i)' = Open(i) /\ Ordinary(i)' = Ordinary(i)
      /\ Ordinary(n + 1)' => Ordinary(n) /\ x.char \notin {"NL", "EOF"}
  BY <1>1, Join
<1>7. \A i \in 1..(n + 1) : i = n + 1 \/ (i \in 1..n /\ i \in 0..n)
  BY <1>6
<1>8. Own'
  BY <1>2, <1>3, <1>4, <1>6, <1>7 DEF Own
<1>9. EnterIsLast'
  <2>1. ASSUME NEW i \in DOMAIN input', Open(i)', input'[i].char = "NL"
        PROVE  done' /\ replying' = ask' /\ ~(i < Len(input'))
    <3>1. i = n + 1
      BY <1>5, <1>6, <1>7, <2>1
    <3> QED
      <4>1. c = "NL"
        BY <1>3, <1>6, <2>1, <3>1
      <4>2. done'
        BY <4>1, Zenon
      <4>3. replying' = ask' /\ ~(i < Len(input'))
        BY <1>2, <1>6, <3>1
      <4> QED
        BY <4>2, <4>3
  <2> QED
    BY <2>1 DEF EnterIsLast
<1>10. ASSUME pc = "reading" PROVE Short' /\ Few'
  <2>1. Short /\ Few /\ Len(pass) \in Nat /\ Before \in Nat
    BY <1>10, LenProperties DEF OrderInv, TypeInv, Before
  <2>2. c # "NL" => Before + 1 < MaxPassword
    <3>1. Habit(c) = {}
      BY DEF Reply
    <3>2. c # "NL" => ~(Before + 1 >= MaxPassword)
      BY <3>1 DEF Habit
    <3> QED
      BY <2>1, <3>2, PromptAssumption
  <2>3. c # "NL" => Before' = Before + 1
    BY DEF Before
  <2>4. ASSUME Ordinary(n + 1)'
        PROVE  Len(pass) + (n + 1) < MaxPassword /\ Len(pass) + (n + 1) <= Before'
    <3>1. Ordinary(n) /\ c # "NL"
      BY <1>3, <1>6, <2>4
    <3>2. Len(pass) + n <= Before
      BY <2>1, <3>1 DEF Few
    <3> QED
      BY <1>6, <2>1, <2>2, <2>3, <3>1, <3>2, PromptAssumption
  <2>5. \A i \in 0..(n + 1) : i = n + 1 \/ i \in 0..n
    BY <1>6
  <2>6. \A i \in 0..n : Ordinary(i)' => Len(pass) + i < MaxPassword
    BY <1>6, <2>1 DEF Short
  <2>7. Short'
    BY <1>2, <1>6, <2>4, <2>5, <2>6 DEF Short
  <2>8. Few'
    BY <1>2, <1>6, <2>4 DEF Few
  <2> QED
    BY <2>7, <2>8
<1>11. ASSUME pc = "pause" PROVE OnlyEnter'
  <2>1. OnlyEnter /\ c = "NL"
    BY <1>1, <1>11 DEF OrderInv
  <2> QED
    BY <1>3, <1>6, <1>7, <2>1 DEF OnlyEnter
<1>12. replying' <= ask'
  BY <1>2 DEF TypeInv
<1> QED
  BY <1>1, <1>2, <1>8, <1>9, <1>10, <1>11, <1>12 DEF OrderInv

(* The end of the input, which the next read meets again.                    *)
LEMMA HungUp ==
    ASSUME TypeInv, OrderInv, HangUp, habits' = {}
    PROVE  OrderInv'
<1> DEFINE x == Typed("EOF", ask)
<1>1. x \in Arrived /\ x.char = "EOF"
  BY DEF TypeInv, Switched, Typed, Arrived, Chars
<1>2. /\ input' = Append(input, x) /\ pc' = pc /\ ask' = ask /\ pass' = pass /\ done'
      /\ replying' = replying /\ \A i \in DOMAIN input : input[i].char # "EOF"
  BY DEF HangUp, programVars
<1> HIDE DEF x
<1> PICK n \in Nat : n = Len(input)
  BY LenProperties DEF TypeInv
<1>3. /\ DOMAIN input = 1..n
      /\ Len(input') = n + 1 /\ DOMAIN input' = 1..(n + 1)
      /\ \A i \in 1..n : input'[i] = input[i]
      /\ input'[n + 1] = x
      /\ \A i \in 0..n : Open(i)' = Open(i) /\ Ordinary(i)' = Ordinary(i)
      /\ ~Open(n + 1)' /\ ~Ordinary(n + 1)'
  BY <1>1, <1>2, Join
<1>4. \A i \in 0..(n + 1) : i = n + 1 \/ i \in 0..n
  OBVIOUS
<1>5. \A i \in 1..(n + 1) : i = n + 1 \/ (i \in 1..n /\ i \in 0..n)
  OBVIOUS
<1>6. Own => Own'
  BY <1>2, <1>3, <1>5 DEF Own
<1>7. EnterIsLast'
  <2>1. ASSUME NEW i \in DOMAIN input', Open(i)', input'[i].char = "NL"
        PROVE  done' /\ replying' = ask' /\ (i < Len(input') => input'[i + 1].char = "EOF")
    <3>1. i \in 1..n /\ Open(i) /\ input[i].char = "NL"
      BY <1>3, <1>5, <2>1
    <3>2. replying = ask /\ (i < n => input[i + 1].char = "EOF")
      BY <1>3, <3>1 DEF OrderInv, EnterIsLast
    <3>3. i = n
      <4>1. i < n => i + 1 \in DOMAIN input
        BY <1>3, <3>1
      <4> QED
        BY <1>2, <3>1, <3>2, <4>1
    <3> QED
      BY <1>1, <1>2, <1>3, <3>2, <3>3
  <2> QED
    BY <2>1 DEF EnterIsLast
<1>8. Blocked => Blocked'
  <2>1. CASE n = 0
    BY <1>1, <1>3, <2>1 DEF Blocked
  <2>2. CASE n # 0
    <3>1. input # <<>> /\ 1 \in DOMAIN input
      BY <1>3, <2>2
    <3> QED
      BY <1>2, <3>1 DEF Blocked
  <2> QED
    BY <2>1, <2>2
<1>9. Short => Short'
  BY <1>2, <1>3, <1>4 DEF Short
<1>10. Few'
  BY <1>3 DEF Few
<1>11. OnlyEnter => OnlyEnter'
  BY <1>3, <1>5 DEF OnlyEnter
<1> QED
  BY <1>2, <1>6, <1>7, <1>8, <1>9, <1>10, <1>11 DEF OrderInv

(* A character that is kept, or takes the last one away.                     *)
LEMMA Taken ==
    ASSUME TypeInv, OrderInv, ReadChar \/ ReadBackspace
    PROVE  (foreign' => foreign) /\ OrderInv'
<1>1. PICK c \in Letters \union {"DEL"} :
          /\ GetChar(c)
          /\ pass' = Append(pass, c) \/ (pass # <<>> /\ pass' = Front(pass))
  BY DEF ReadChar, ReadBackspace, Keep
<1>2. c \notin {"NL", "EOF"} /\ c \in Chars
  BY PromptAssumption DEF Chars, Special
<1>3. /\ pc = "reading" /\ pc' = pc /\ ask' = ask /\ done' = done /\ replying' = replying
      /\ pressed' = pressed
  BY DEF ReadChar, ReadBackspace, personVars
<1> PICK n \in Nat \ {0} : n = Len(input)
  BY <1>1, <1>2, Shift
<1>4. /\ DOMAIN input = 1..n /\ Len(input') = n - 1 /\ DOMAIN input' = 1..(n - 1)
      /\ c = input[1].char /\ foreign' = (foreign \/ input[1].ask # ask)
      /\ \A i \in 1..(n - 1) : i + 1 \in 1..n /\ input'[i] = input[i + 1]
      /\ \A i \in 0..(n - 1) : (Open(i)' => Open(i + 1)) /\ (Ordinary(i)' => Ordinary(i + 1))
  BY <1>1, <1>2, Shift
<1>5. Len(pass) \in Nat /\ Len(pass') \in Nat /\ Len(pass') <= Len(pass) + 1
  BY <1>1, <1>2, Appended, Shortened, LenProperties DEF TypeInv
<1>6. \A i \in 1..(n - 1) : i \in 0..(n - 1)
  OBVIOUS
<1>7. Own /\ EnterIsLast /\ Short /\ Few /\ (~done => replying = ask) /\ replying <= ask
  BY <1>3 DEF OrderInv
<1>8. foreign' => foreign
  <2>1. 1 \in DOMAIN input /\ Open(1)
    BY <1>2, <1>4 DEF Open
  <2> QED
    BY <1>4, <1>7, <2>1 DEF Own
<1>9. Own'
  BY <1>3, <1>4, <1>6, <1>7 DEF Own
<1>10. EnterIsLast'
  <2>1. ASSUME NEW i \in 1..(n - 1), Open(i)', input'[i].char = "NL"
        PROVE  done' /\ replying' = ask' /\ (i < n - 1 => input'[i + 1].char = "EOF")
    <3>1. i + 1 \in DOMAIN input /\ Open(i + 1) /\ input[i + 1].char = "NL"
      BY <1>4, <1>6, <2>1
    <3>2. done /\ replying = ask /\ (i + 1 < n => input[i + 2].char = "EOF")
      BY <1>7, <3>1 DEF EnterIsLast
    <3>3. i < n - 1 => i + 1 \in 1..(n - 1) /\ (i + 1) + 1 = i + 2
      OBVIOUS
    <3> QED
      BY <1>3, <1>4, <3>2, <3>3
  <2> QED
    BY <1>4, <2>1 DEF EnterIsLast
<1>11. Short'
  <2>1. ASSUME NEW i \in 0..(n - 1), Ordinary(i)' PROVE Len(pass') + i < MaxPassword
    <3>1. i + 1 \in 0..n /\ Ordinary(i + 1)
      BY <1>4, <2>1
    <3>2. Len(pass) + (i + 1) < MaxPassword
      BY <1>7, <3>1 DEF Short
    <3> QED
      BY <1>5, <3>2, PromptAssumption
  <2> QED
    BY <1>4, <2>1 DEF Short
<1>12. Few'
  <2>1. ASSUME Ordinary(Len(input))' PROVE Len(pass') + (n - 1) <= Before'
    <3>1. Ordinary(n)
      BY <1>4, <2>1
    <3>2. Len(pass) + n <= Before /\ Before' = Before /\ Before \in Nat
      BY <1>3, <1>7, <3>1 DEF Few, Before, TypeInv
    <3> QED
      BY <1>5, <3>2
  <2> QED
    BY <1>4, <2>1 DEF Few
<1> QED
  BY <1>3, <1>7, <1>8, <1>9, <1>10, <1>11, <1>12 DEF OrderInv

(* The end of a question, with Enter or with the end of the input.           *)
LEMMA Ended ==
    ASSUME TypeInv, OrderInv, pc \in {"reading", "pause"}, NEW c, GetChar(c)
    PROVE  /\ foreign' => foreign
           /\ c = "NL" => done /\ Blocked' /\ EnterIsLast'
<1>1. CASE c = "EOF"
  BY <1>1 DEF GetChar
<1>2. CASE c # "EOF"
  <2> PICK n \in Nat \ {0} : n = Len(input)
    BY <1>2, Shift
  <2>1. /\ DOMAIN input = 1..n /\ Len(input') = n - 1 /\ DOMAIN input' = 1..(n - 1)
        /\ c = input[1].char /\ foreign' = (foreign \/ input[1].ask # ask)
        /\ \A i \in 1..(n - 1) : i + 1 \in 1..n /\ input'[i] = input[i + 1]
        /\ input' = <<>> <=> n = 1
    BY <1>2, Shift
  <2>2. 1 \in DOMAIN input /\ Open(1)
    BY <1>2, <2>1 DEF Open
  <2>3. foreign' => foreign
    BY <2>1, <2>2 DEF OrderInv, Own
  <2>4. ASSUME c = "NL" PROVE done /\ (1 < n => input[2].char = "EOF")
    <3>1. EnterIsLast /\ input[1].char = "NL" /\ 1 + 1 = 2
      BY <2>1, <2>4 DEF OrderInv
    <3>2. done
      BY <2>2, <3>1, Zenon DEF EnterIsLast
    <3>3. 1 < n => input[1 + 1].char = "EOF"
      BY <2>2, <3>1, Zenon DEF EnterIsLast
    <3> QED
      BY <3>1, <3>2, <3>3
  <2>5. ASSUME c = "NL", 1 < n PROVE input'[1].char = "EOF" /\ 1 \in DOMAIN input'
    BY <2>1, <2>4, <2>5
  <2>6. c = "NL" => Blocked'
    BY <2>1, <2>5 DEF Blocked
  <2>7. c = "NL" => \A i \in DOMAIN input' : ~Open(i)'
    BY <2>1, <2>5 DEF Open
  <2> QED
    BY <2>3, <2>4, <2>6, <2>7 DEF EnterIsLast
<1> QED
  BY <1>1, <1>2

LEMMA AnswerStep ==
    ASSUME TypeInv, ScreenInv, AnswerInv, [Next]_vars
    PROVE  AnswerInv'
<1> SUFFICES ASSUME habits' = {}
             PROVE  ~foreign' /\ (pc' # "exited" => OrderInv')
  BY DEF AnswerInv
<1>1. habits \subseteq habits'
  BY DEF Next, Program, Person, ShowPrompt, NoTerminal, Pause, DisableEcho, ReadEnd, ReadEnter,
     ReadBackspace, ReadChar, Full, Resume, TypeEnter, TypeKey, HangUp, Reply, vars, personVars
<1>2. line = <<>> /\ ~foreign /\ (pc # "exited" => OrderInv)
  BY <1>1 DEF ScreenInv, AnswerInv
<1>3. CASE UNCHANGED vars
  BY <1>2, <1>3 DEF vars, programVars, terminalVars, personVars, historyVars, OrderInv, Own,
     EnterIsLast, Blocked, Short, Few, OnlyEnter, Open, Ordinary, Before
<1>4. ASSUME OrderInv, pc \in {"idle", "shown"}
      PROVE  /\ \A i \in DOMAIN input : ~Open(i)
             /\ Ordinary(Len(input)) => input = <<>>
  <2>1. input # <<>> => 1 \in DOMAIN input /\ DOMAIN input = 1..Len(input) /\ Len(input) \in Nat
    BY Tailed DEF TypeInv
  <2>2. \A i \in DOMAIN input : 1 \in 1..i
    BY LenProperties DEF TypeInv
  <2>3. \A i \in DOMAIN input : ~Open(i)
    BY <1>4, <2>2 DEF OrderInv, Blocked, Open
  <2>4. Ordinary(Len(input)) => input = <<>>
    BY <1>4, <2>1 DEF OrderInv, Blocked, Ordinary
  <2> QED
    BY <2>3, <2>4
<1>5. CASE ShowPrompt \/ Pause
  <2>1. /\ pc = "idle" /\ pc' \in {"shown", "pause"} /\ ask' = ask + 1
        /\ UNCHANGED <<input, done, replying, foreign>>
    BY <1>5 DEF ShowPrompt, Pause, Ask, terminalVars, personVars, historyVars
  <2>2. OrderInv
    BY <1>2, <2>1
  <2>3. \A i \in DOMAIN input' : ~Open(i)'
    BY <1>4, <2>1, <2>2 DEF Open
  <2>4. done /\ Blocked /\ replying <= ask
    BY <2>1, <2>2 DEF OrderInv
  <2>5. done' /\ Blocked'
    BY <2>1, <2>4 DEF Blocked
  <2>6. Own' /\ EnterIsLast' /\ OnlyEnter'
    BY <2>3 DEF Own, EnterIsLast, OnlyEnter
  <2>7. replying' <= ask'
    BY <2>1, <2>4 DEF TypeInv
  <2> QED
    BY <1>2, <2>1, <2>5, <2>6, <2>7 DEF OrderInv
<1>6. CASE NoTerminal
  BY <1>2, <1>6 DEF NoTerminal, historyVars
<1>7. CASE DisableEcho
  <2>1. input \o <<>> = input
    BY ConcatEmptySeq DEF TypeInv
  <2>2. /\ pc = "shown" /\ pc' = "reading" /\ ask' = ask /\ input' = input /\ pass' = <<>>
        /\ UNCHANGED <<done, replying, pressed, foreign>>
    BY <1>2, <1>7, <2>1 DEF DisableEcho, personVars, historyVars
  <2>3. OrderInv
    BY <1>2, <2>2
  <2>4. (\A i \in DOMAIN input' : ~Open(i)') /\ (Ordinary(Len(input))' => input' = <<>>)
    BY <1>4, <2>2, <2>3 DEF Open, Ordinary
  <2>5. Own' /\ EnterIsLast'
    BY <2>4 DEF Own, EnterIsLast
  <2>6. Len(pass') = 0 /\ Before' \in Nat /\ Len(input') \in Nat
    BY <2>2, LenProperties DEF TypeInv, Before
  <2>7. Few'
    BY <2>4, <2>6 DEF Few
  <2>8. ASSUME NEW i \in 0..Len(input'), Ordinary(i)' PROVE i = 0
    <3>1. input # <<>> => 1 \in DOMAIN input /\ input[1].char = "EOF"
      BY <2>2, <2>3, Tailed DEF TypeInv, OrderInv, Blocked
    <3>2. i # 0 => input # <<>> /\ 1 \in 1..i
      BY <2>2, <2>6, <2>8
    <3> QED
      BY <2>2, <2>8, <3>1, <3>2 DEF Ordinary
  <2>9. Short'
    BY <2>6, <2>8, PromptAssumption DEF Short
  <2> QED
    BY <1>2, <2>2, <2>3, <2>5, <2>7, <2>9 DEF OrderInv
<1>8. CASE ReadEnd
  <2>1. \E c : GetChar(c)
    BY <1>8 DEF ReadEnd
  <2>2. pc = "reading" /\ pc' = "exited"
    BY <1>8 DEF ReadEnd, Finish
  <2> QED
    BY <1>2, <2>1, <2>2, Ended
<1>9. CASE ReadEnter
  <2>1. pc = "reading" /\ GetChar("NL") /\ UNCHANGED personVars
    BY <1>9 DEF ReadEnter
  <2>2. (foreign' => foreign) /\ done /\ Blocked' /\ EnterIsLast' /\ OrderInv
    BY <1>2, <2>1, Ended
  <2>3. pc' \in {"shown", "idle", "exited"} /\ ask' \in {ask, ask + 1}
    BY <1>9 DEF ReadEnter, Finish, Ask
  <2>4. replying' = replying /\ done' = done
    BY <2>1 DEF personVars
  <2>5. replying' <= ask'
    BY <2>2, <2>3, <2>4 DEF OrderInv, TypeInv
  <2> QED
    BY <1>2, <2>2, <2>3, <2>4, <2>5 DEF OrderInv
<1>10. CASE Full
  <2>1. pc = "reading" /\ Len(pass) = MaxPassword /\ Short
    BY <1>2, <1>10 DEF Full, OrderInv
  <2>2. 0 \in 0..Len(input) /\ Ordinary(0)
    BY LenProperties DEF TypeInv, Ordinary
  <2> QED
    BY <2>1, <2>2, PromptAssumption DEF Short
<1>11. CASE ReadBackspace \/ ReadChar
  <2>1. OrderInv
    BY <1>2, <1>11 DEF ReadBackspace, ReadChar
  <2> QED
    BY <1>2, <1>11, <2>1, Taken
<1>12. CASE Resume
  <2>1. PICK c \in Chars : GetChar(c) /\ pc' = IF c = "EOF" THEN "exited" ELSE "idle"
    BY <1>12 DEF Resume
  <2>2. pc = "pause" /\ ask' = ask /\ replying' = replying /\ done' = done /\ OrderInv
    BY <1>2, <1>12 DEF Resume, personVars
  <2>3. foreign' => foreign
    BY <2>1, <2>2, Ended
  <2>4. ASSUME c # "EOF" PROVE c = "NL"
    <3>1. 1 \in DOMAIN input /\ c = input[1].char
      BY <2>1, <2>4, Shift
    <3>2. Open(1)
      BY <2>4, <3>1 DEF Open
    <3> QED
      BY <2>2, <3>1, <3>2 DEF OrderInv, OnlyEnter
  <2>5. c = "NL" => done /\ Blocked' /\ EnterIsLast'
    BY <2>1, <2>2, Ended
  <2> QED
    BY <1>2, <2>1, <2>2, <2>3, <2>4, <2>5 DEF OrderInv
<1>13. CASE TypeEnter \/ TypeKey
  <2>1. PICK c \in Chars \ {"EOF"} :
            Reply(c) /\ done' = (c = "NL") /\ pressed' = Before + 1
    BY <1>13, PromptAssumption DEF TypeEnter, TypeKey, Chars, Special
  <2>2. pc \in {"reading", "pause"} /\ pc' = pc /\ foreign' = foreign
    BY <1>2, <2>1, Typing DEF Reply, programVars, historyVars
  <2> QED
    BY <1>2, <2>1, <2>2, Pressed
<1>14. CASE HangUp
  BY <1>2, <1>14, HungUp DEF HangUp, programVars, historyVars
<1> QED
  BY <1>3, <1>5, <1>6, <1>7, <1>8, <1>9, <1>10, <1>11, <1>12, <1>13, <1>14 DEF Next, Program,
     Person

(* Someone who waits for the program to read, ends a pause with Enter and    *)
(* keeps to the limit answers each question with what was typed in reply to  *)
(* it, whatever the limit, the length of the lines and the order of          *)
(* prompts, pauses, ends of input and keys.                                  *)
THEOREM AnswersCorrect == Spec => []AnswersOwnQuestion
<1>1. Init => TypeInv /\ ScreenInv /\ AnswerInv
  BY TypeInit
<1>2. TypeInv /\ ScreenInv /\ AnswerInv /\ [Next]_vars => (TypeInv /\ ScreenInv /\ AnswerInv)'
  BY TypeStep, ScreenStep, AnswerStep
<1>3. AnswerInv => AnswersOwnQuestion
  BY DEF AnswerInv, AnswersOwnQuestion
<1> QED
  BY <1>1, <1>2, <1>3, PTL DEF Spec

=============================================================================

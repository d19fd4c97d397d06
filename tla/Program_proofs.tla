---------------------------- MODULE Program_proofs ----------------------------
(* What main prints and what it holds, for every command line, every device  *)
(* on the bus and any number of changes of it.                               *)
EXTENDS Program, SequenceTheorems, WellFoundedInduction, TLAPS

-----------------------------------------------------------------------------
(* What is open.                                                             *)

(* Whatever a step of main is, it leaves usb::run only through LeaveUsb.     *)
LEMMA ReleasedStep ==
    ASSUME ReleasedOutsideSession, [Next]_programVars
    PROVE  ReleasedOutsideSession'
<1> USE DEF ReleasedOutsideSession, Core!ReleasedOutsideSession, Core!LeaveUsb, Core!Goto
<1>1. CASE UNCHANGED programVars
  BY <1>1 DEF programVars, Core!vars, Core!usbVars
<1>2. CASE Parse
  BY <1>2 DEF Parse
<1>3. CASE Begin
  BY <1>3 DEF Begin
<1>4. CASE BadArguments
  BY <1>4 DEF BadArguments, Core!Fail, Core!Exit
<1>5. ASSUME Core!Fail PROVE ReleasedOutsideSession'
  BY <1>5 DEF Core!Fail, Core!Exit
<1>6. CASE Continue /\ Core!Main
  <2>1. CASE \/ Core!CheckPasses \/ Core!PromptExisting \/ Core!MakeContext
             \/ Core!KeyPressed \/ Core!Slice
    BY <2>1 DEF Core!CheckPasses, Core!PromptExisting, Core!MakeContext, Core!KeyPressed,
                Core!Slice, Core!usbVars
  <2>2. CASE \/ Core!GetDeviceList \/ Core!SkipDevice \/ Core!OpenDevice
             \/ Core!SelectAndClaim
    BY <2>2 DEF Core!GetDeviceList, Core!SkipDevice, Core!OpenDevice, Core!SelectAndClaim,
                Core!Scanning
  <2>3. CASE \/ Core!Session \/ Core!NoDeviceFound \/ Core!PromptLocal \/ Core!Write
    BY <2>3 DEF Core!Session, Core!NoDeviceFound, Core!PromptLocal, Core!Write, Core!Exit
  <2>4. CASE \/ Core!CheckFails \/ Core!PromptFails \/ Core!MakeContextFails
             \/ Core!UsbFails \/ Core!NoInput \/ Core!TooShort
    BY <1>5, <2>4 DEF Core!CheckFails, Core!PromptFails, Core!MakeContextFails,
                Core!UsbFails, Core!NoInput, Core!TooShort
  <2> QED
    BY <1>6, <2>1, <2>2, <2>3, <2>4 DEF Core!Main
<1>7. CASE Continue /\ (Core!Interrupt \/ Core!Plug \/ Core!Pull)
  BY <1>7 DEF Core!Interrupt, Core!Plug, Core!Pull, Core!Change, Core!usbVars
<1> QED
  BY <1>1, <1>2, <1>3, <1>4, <1>6, <1>7 DEF Next, Continue

(* While main asks the person for something, and after it, no list, device   *)
(* or interface is held.                                                     *)
THEOREM ReleasedCorrect == Spec => []ReleasedOutsideSession
<1>1. Init => ReleasedOutsideSession
  BY DEF Init, Core!Start, ReleasedOutsideSession, Core!ReleasedOutsideSession
<1> QED
  BY <1>1, ReleasedStep, PTL DEF Spec

-----------------------------------------------------------------------------
(* The command line.                                                         *)

Words   == Values \union Parser!Flags
Given   == Parser!Flags \X Words
Formats == {"none", "legacy"} \union Parser!NewFormats
Parsed  == [host : Words, user : Words, message : Words \union {Parser!Generated},
            fmt : Formats, existing : BOOLEAN, password : BOOLEAN, failed : BOOLEAN]

(* What the handlers leave in struct program is what they were given.        *)
Recorded ==
    /\ Asked("format") = IF parsed.fmt = "none" THEN {} ELSE {parsed.fmt}
    /\ Asked("existing") # {} <=> parsed.existing
    /\ Asked("password") # {} <=> parsed.password

ParserInv ==
    /\ argv \in Seq(Words)
    /\ given \in Seq(Given)
    /\ parsed \in Parsed
    /\ Recorded

(* What a sequence holds once something is appended.                         *)
LEMMA Appended ==
    ASSUME NEW T, NEW s \in Seq(T), NEW x \in T
    PROVE  {Append(s, x)[i] : i \in DOMAIN Append(s, x)} = {s[i] : i \in DOMAIN s} \union {x}
<1> DEFINE n == Len(s)
           t == Append(s, x)
<1>1. n \in Nat /\ DOMAIN s = 1..n
  BY LenProperties
<1>2. /\ t \in Seq(T) /\ Len(t) = n + 1
      /\ \A i \in 1..n : t[i] = s[i]
      /\ t[n + 1] = x
  BY AppendProperties
<1>3. DOMAIN t = 1..(n + 1)
  BY <1>2, LenProperties
<1> HIDE DEF n, t
<1>4. 1..(n + 1) = 1..n \union {n + 1}
  BY <1>1
<1>5. {t[i] : i \in 1..(n + 1)} = {s[i] : i \in 1..n} \union {x}
  BY <1>2, <1>4, ZenonT(40)
<1> QED
  BY <1>1, <1>3, <1>5 DEF t

(* An option that is accepted adds its value to those asked for.             *)
LEMMA AskedOneMore ==
    ASSUME given \in Seq(Given), NEW flag \in Parser!Flags, NEW value \in Words,
           given' = Append(given, <<flag, value>>), NEW f
    PROVE  Asked(f)' = IF f = flag THEN Asked(f) \union {value} ELSE Asked(f)
<1> DEFINE all == {given[i] : i \in DOMAIN given}
<1>1. <<flag, value>> \in Given
  BY DEF Given
<1>2. all' = all \union {<<flag, value>>}
  BY <1>1, Appended
<1>3. Asked(f) = {o[2] : o \in {p \in all : p[1] = f}}
  BY DEF Asked
<1>4. Asked(f)' = {o[2] : o \in {p \in all' : p[1] = f}}
  BY ZenonT(40) DEF Asked
<1>5. <<flag, value>>[1] = flag /\ <<flag, value>>[2] = value
  OBVIOUS
<1> HIDE DEF all
<1> QED
  BY <1>2, <1>3, <1>4, <1>5

(* What an option that is accepted leaves.                                   *)
LEMMA Accepted ==
    ASSUME ParserInv, NEW to, NEW n \in Nat, NEW flag \in Parser!Flags, NEW value \in Words,
           Parser!Accept(to, n, <<flag, value>>)
    PROVE  /\ argv' \in Seq(Words) /\ given' \in Seq(Given) /\ parsed' = to
           /\ \A f : Asked(f)' = IF f = flag THEN Asked(f) \union {value} ELSE Asked(f)
<1>1. /\ argv' = SubSeq(argv, n + 1, Len(argv))
      /\ given' = Append(given, <<flag, value>>)
      /\ parsed' = to
  BY DEF Parser!Accept
<1>2. /\ Len(argv) \in Nat
      /\ \A i \in 1..Len(argv) : argv[i] \in Words
  BY LenProperties DEF ParserInv
<1>3. argv' \in Seq(Words)
  BY <1>1, <1>2, SubSeqProperties
<1>4. <<flag, value>> \in Given
  BY DEF Given
<1>5. given' \in Seq(Given)
  BY <1>1, <1>4, AppendProperties DEF ParserInv
<1> QED
  BY <1>1, <1>3, <1>5, AskedOneMore DEF ParserInv

LEMMA ParserStep ==
    ASSUME ParserInv, Parser!Next
    PROVE  ParserInv'
<1> USE DEF Parsed
<1>1. "" \in Words
  BY ProgramAssumption DEF Parser!ArgumentsAssumption, Words
<1>2. parsed \in Parsed
  BY DEF ParserInv
<1>3. ASSUME Parser!HasValue PROVE Parser!Value \in Words
  <2>1. Len(argv) \in Nat /\ argv \in [1..Len(argv) -> Words]
    BY LenProperties DEF ParserInv
  <2> QED
    BY <1>3, <2>1 DEF Parser!HasValue, Parser!Value
<1>4. ASSUME NEW with, Parser!Reject(with), \/ with = parsed
                                           \/ with = [parsed EXCEPT !.message = Parser!Generated]
      PROVE  ParserInv'
  <2>1. argv' = argv /\ given' = given
    BY <1>4 DEF Parser!Reject
  <2>2. /\ parsed'.fmt = parsed.fmt /\ parsed'.existing = parsed.existing
        /\ parsed'.password = parsed.password
    BY <1>2, <1>4 DEF Parser!Reject
  <2>3. \A f : Asked(f)' = Asked(f)
    BY <2>1 DEF Asked
  <2>4. Recorded'
    BY <2>2, <2>3 DEF ParserInv, Recorded
  <2>5. parsed' \in Parsed
    BY <1>2, <1>4 DEF Parser!Reject
  <2> QED
    BY <2>1, <2>4, <2>5 DEF ParserInv
<1>5. ASSUME Parser!HandleSwitch PROVE ParserInv'
  <2>1. PICK flag \in {"existing", "password"} :
            Parser!Accept([parsed EXCEPT ![flag] = TRUE], 1, <<flag, "">>)
    BY <1>5 DEF Parser!HandleSwitch
  <2>2. flag \in Parser!Flags
    BY DEF Parser!Flags
  <2>3. /\ argv' \in Seq(Words) /\ given' \in Seq(Given)
        /\ parsed' = [parsed EXCEPT ![flag] = TRUE]
        /\ \A f : Asked(f)' = IF f = flag THEN Asked(f) \union {""} ELSE Asked(f)
    BY <1>1, <2>1, <2>2, Accepted
  <2>4. CASE flag = "existing"
    <3>1. Recorded'
      BY <1>2, <2>3, <2>4 DEF ParserInv, Recorded
    <3> QED
      BY <1>2, <2>3, <2>4, <3>1 DEF ParserInv
  <2>5. CASE flag = "password"
    <3>1. Recorded'
      BY <1>2, <2>3, <2>5 DEF ParserInv, Recorded
    <3> QED
      BY <1>2, <2>3, <2>5, <3>1 DEF ParserInv
  <2> QED
    BY <2>4, <2>5
<1>6. ASSUME NEW flag \in {"host", "user", "message"}, Parser!Basic(flag)
      PROVE  ParserInv'
  <2>1. CASE Parser!HasValue
             /\ Parser!Accept([parsed EXCEPT ![flag] = Parser!Value], 2, <<flag, Parser!Value>>)
    <3> DEFINE value == Parser!Value
    <3>1. flag \in Parser!Flags /\ value \in Words
      BY <1>3, <2>1 DEF Parser!Flags
    <3> HIDE DEF value
    <3>2. Parser!Accept([parsed EXCEPT ![flag] = value], 2, <<flag, value>>)
      BY <2>1 DEF value
    <3>3. /\ argv' \in Seq(Words) /\ given' \in Seq(Given)
          /\ parsed' = [parsed EXCEPT ![flag] = value]
          /\ \A f : Asked(f)' = IF f = flag THEN Asked(f) \union {value} ELSE Asked(f)
      BY <3>1, <3>2, Accepted
    <3>4. /\ parsed'.fmt = parsed.fmt /\ parsed'.existing = parsed.existing
          /\ parsed'.password = parsed.password
      BY <1>2, <3>3
    <3>5. Recorded'
      BY <3>3, <3>4 DEF ParserInv, Recorded
    <3> QED
      BY <1>2, <3>1, <3>3, <3>5 DEF ParserInv
  <2> QED
    BY <1>4, <1>6, <2>1 DEF Parser!Basic
<1>7. ASSUME Parser!HandleFormat PROVE ParserInv'
  <2> DEFINE value == Parser!Value
  <2>1. CASE /\ Parser!HasValue /\ parsed.fmt = "none" /\ value \in Formats \ {"none"}
             /\ \E to \in {[parsed EXCEPT !.fmt = value],
                          [parsed EXCEPT !.fmt = value, !.message = Parser!Generated]} :
                   Parser!Accept(to, 2, <<"format", value>>)
    <3>1. "format" \in Parser!Flags /\ value \in Words
      BY <1>3, <2>1 DEF Parser!Flags
    <3> HIDE DEF value
    <3>2. PICK to \in {[parsed EXCEPT !.fmt = value],
                       [parsed EXCEPT !.fmt = value, !.message = Parser!Generated]} :
                   Parser!Accept(to, 2, <<"format", value>>)
      BY <2>1
    <3>3. /\ argv' \in Seq(Words) /\ given' \in Seq(Given) /\ parsed' = to
          /\ \A f : Asked(f)' = IF f = "format" THEN Asked(f) \union {value} ELSE Asked(f)
      BY <3>1, <3>2, Accepted
    <3>4. /\ parsed'.fmt = value /\ parsed'.existing = parsed.existing
          /\ parsed'.password = parsed.password
      BY <1>2, <3>2, <3>3
    <3>5. Recorded'
      BY <2>1, <3>3, <3>4, ZenonT(40) DEF ParserInv, Recorded
    <3>6. value \in Formats
      BY <2>1
    <3>7. parsed' \in Parsed
      BY <1>2, <3>2, <3>3, <3>6
    <3> QED
      BY <3>3, <3>5, <3>7 DEF ParserInv
  <2> QED
    BY <1>4, <1>7, <2>1 DEF Parser!HandleFormat, Formats, Parser!NewFormats
<1>8. ASSUME Parser!Finish PROVE ParserInv'
  <2>1. argv' = argv /\ parsed' = parsed /\ given' = given
    BY <1>8 DEF Parser!Finish
  <2>2. \A f : Asked(f)' = Asked(f)
    BY <2>1 DEF Asked
  <2>3. Recorded'
    BY <2>1, <2>2 DEF ParserInv, Recorded
  <2> QED
    BY <2>1, <2>3 DEF ParserInv
<1> QED
  BY <1>4, <1>5, <1>6, <1>7, <1>8 DEF Parser!Next, Parser!HandleHost, Parser!HandleUser,
     Parser!HandleMessage, Parser!Unknown

-----------------------------------------------------------------------------
(* What an accepted command line means.                                      *)

(* While nothing is refused, the phrase follows the format and no value is   *)
(* overwritten.                                                              *)
Counted ==
    ~parsed.failed =>
        /\ parsed.fmt \in Parser!NewFormats <=> parsed.message = Parser!Generated
        /\ Asked("help") = {}
        /\ \A flag \in {"host", "user", "message"} : Asked(flag) \subseteq {"", parsed[flag]}

MeaningInv ==
    /\ pc = "arguments" => ParserInv /\ Counted
    /\ pc # "arguments" => NewFormatFixesMessage /\ EveryValueCounts

LEMMA CountedStep ==
    ASSUME ParserInv, Counted, Parser!Next
    PROVE  Counted'
<1> USE DEF Parsed
<1>1. "" \in Words /\ Parser!Generated \notin Words
  BY ProgramAssumption DEF Parser!ArgumentsAssumption, Words
<1>2. parsed \in Parsed
  BY DEF ParserInv
<1>3. ASSUME Parser!HasValue PROVE Parser!Value \in Words
  <2>1. Len(argv) \in Nat /\ argv \in [1..Len(argv) -> Words]
    BY LenProperties DEF ParserInv
  <2> QED
    BY <1>3, <2>1 DEF Parser!HasValue, Parser!Value
<1>4. ASSUME NEW with \in Parsed, Parser!Reject(with) PROVE Counted'
  BY <1>4 DEF Parser!Reject, Counted
<1>5. ASSUME Parser!HandleSwitch PROVE Counted'
  <2>1. PICK flag \in {"existing", "password"} :
            Parser!Accept([parsed EXCEPT ![flag] = TRUE], 1, <<flag, "">>)
    BY <1>5 DEF Parser!HandleSwitch
  <2>2. flag \in Parser!Flags
    BY DEF Parser!Flags
  <2>3. /\ parsed' = [parsed EXCEPT ![flag] = TRUE]
        /\ \A f : Asked(f)' = IF f = flag THEN Asked(f) \union {""} ELSE Asked(f)
    BY <1>1, <2>1, <2>2, Accepted
  <2>4. /\ parsed'.failed = parsed.failed /\ parsed'.fmt = parsed.fmt
        /\ \A f \in {"host", "user", "message"} : parsed'[f] = parsed[f]
        /\ parsed'.message = parsed.message
    BY <1>2, <2>3
  <2>5. \A f \in {"help", "host", "user", "message"} : Asked(f)' = Asked(f)
    BY <2>3
  <2> QED
    BY <2>4, <2>5 DEF Counted
<1>6. ASSUME NEW flag \in {"host", "user", "message"}, Parser!Basic(flag),
             flag = "message" => ~Parser!IsNew
      PROVE  Counted'
  <2>1. CASE Parser!HasValue /\ parsed[flag] = ""
             /\ Parser!Accept([parsed EXCEPT ![flag] = Parser!Value], 2, <<flag, Parser!Value>>)
    <3> DEFINE value == Parser!Value
    <3>1. flag \in Parser!Flags /\ value \in Words
      BY <1>3, <2>1 DEF Parser!Flags
    <3> HIDE DEF value
    <3>2. Parser!Accept([parsed EXCEPT ![flag] = value], 2, <<flag, value>>)
      BY <2>1 DEF value
    <3>3. /\ parsed' = [parsed EXCEPT ![flag] = value]
          /\ \A f : Asked(f)' = IF f = flag THEN Asked(f) \union {value} ELSE Asked(f)
      BY <3>1, <3>2, Accepted
    <3>4. /\ parsed'.failed = parsed.failed /\ parsed'.fmt = parsed.fmt
          /\ \A f \in {"host", "user", "message"} :
               parsed'[f] = IF f = flag THEN value ELSE parsed[f]
      BY <1>2, <3>3
    <3>5. CASE ~parsed.failed
      <4>1. parsed'.fmt \in Parser!NewFormats <=> parsed'.message = Parser!Generated
        <5>1. CASE flag = "message"
          BY <1>1, <1>6, <3>1, <3>4, <5>1 DEF Parser!IsNew, Parser!NewFormats
        <5>2. CASE flag # "message"
          BY <3>4, <3>5, <5>2 DEF Counted
        <5> QED
          BY <5>1, <5>2
      <4>2. Asked("help")' = {}
        BY <3>3, <3>5 DEF Counted
      <4>3. \A f \in {"host", "user", "message"} : Asked(f)' \subseteq {"", parsed'[f]}
        BY <2>1, <3>3, <3>4, <3>5 DEF Counted
      <4> QED
        BY <4>1, <4>2, <4>3 DEF Counted
    <3> QED
      BY <3>4, <3>5 DEF Counted
  <2> QED
    BY <1>2, <1>4, <1>6, <2>1 DEF Parser!Basic
<1>7. ASSUME Parser!HandleFormat PROVE Counted'
  <2> DEFINE value == Parser!Value
  <2>1. CASE /\ Parser!HasValue /\ parsed.fmt = "none"
             /\ \/ /\ value = "legacy"
                   /\ Parser!Accept([parsed EXCEPT !.fmt = value], 2, <<"format", value>>)
                \/ /\ value \in Parser!NewFormats /\ parsed.message = ""
                   /\ Parser!Accept([parsed EXCEPT !.fmt = value, !.message = Parser!Generated],
                                    2, <<"format", value>>)
    <3>1. "format" \in Parser!Flags /\ value \in Words
      BY <1>3, <2>1 DEF Parser!Flags
    <3> HIDE DEF value
    <3>2. /\ \A f : Asked(f)' = IF f = "format" THEN Asked(f) \union {value} ELSE Asked(f)
          /\ \/ value = "legacy" /\ parsed' = [parsed EXCEPT !.fmt = value]
             \/ /\ value \in Parser!NewFormats /\ parsed.message = ""
                /\ parsed' = [parsed EXCEPT !.fmt = value, !.message = Parser!Generated]
      <4>1. PICK to : /\ Parser!Accept(to, 2, <<"format", value>>)
                      /\ \/ value = "legacy" /\ to = [parsed EXCEPT !.fmt = value]
                         \/ /\ value \in Parser!NewFormats /\ parsed.message = ""
                            /\ to = [parsed EXCEPT !.fmt = value, !.message = Parser!Generated]
        BY <2>1
      <4>2. /\ parsed' = to
            /\ \A f : Asked(f)' = IF f = "format" THEN Asked(f) \union {value} ELSE Asked(f)
        BY <3>1, <4>1, Accepted
      <4> QED
        BY <4>1, <4>2
    <3>3. \A f \in {"help", "host", "user", "message"} : Asked(f)' = Asked(f)
      BY <3>2
    <3>4. CASE value = "legacy" /\ parsed' = [parsed EXCEPT !.fmt = value]
      <4>1. /\ parsed'.fmt = "legacy" /\ parsed'.message = parsed.message
            /\ parsed'.failed = parsed.failed
            /\ \A f \in {"host", "user", "message"} : parsed'[f] = parsed[f]
        BY <1>2, <3>4
      <4> QED
        BY <2>1, <3>3, <4>1, ZenonT(40) DEF Counted, Parser!NewFormats
    <3>5. CASE /\ value \in Parser!NewFormats /\ parsed.message = ""
               /\ parsed' = [parsed EXCEPT !.fmt = value, !.message = Parser!Generated]
      <4>1. /\ parsed'.fmt = value /\ parsed'.message = Parser!Generated
            /\ parsed'.failed = parsed.failed
            /\ parsed'.host = parsed.host /\ parsed'.user = parsed.user
        BY <1>2, <3>5
      <4> QED
        BY <3>3, <3>5, <4>1, ZenonT(40) DEF Counted
    <3> QED
      BY <3>2, <3>4, <3>5
  <2>2. [parsed EXCEPT !.message = Parser!Generated] \in Parsed
    BY <1>2
  <2> QED
    BY <1>2, <1>4, <1>7, <2>1, <2>2 DEF Parser!HandleFormat
<1>8. ASSUME Parser!Finish PROVE Counted'
  <2>1. parsed' = parsed /\ given' = given
    BY <1>8 DEF Parser!Finish
  <2>2. \A f : Asked(f)' = Asked(f)
    BY <2>1 DEF Asked
  <2> QED
    BY <2>1, <2>2 DEF Counted
<1> QED
  BY <1>2, <1>4, <1>5, <1>6, <1>7, <1>8 DEF Parser!Next, Parser!HandleHost, Parser!HandleUser,
     Parser!HandleMessage, Parser!Unknown

(* What a command line means when it is accepted.                            *)
LEMMA Meaning ==
    ASSUME ParserInv, Counted
    PROVE  NewFormatFixesMessage /\ EveryValueCounts
<1>1. NewFormatFixesMessage
  BY DEF ParserInv, Parsed, Formats, Counted, NewFormatFixesMessage, Parser!Accepted,
     Parser!NewFormatFixesMessage, Parser!IsNew, Parser!NewFormats
<1>2. ASSUME ~parsed.failed, NEW i \in DOMAIN given
      PROVE  LET flag == given[i][1] value == given[i][2] IN
             CASE flag = "format" -> parsed.fmt = value
               [] flag \in {"existing", "password"} -> parsed[flag]
               [] OTHER -> value = "" \/ parsed[flag] = value
  <2> DEFINE flag == given[i][1]
             value == given[i][2]
  <2>1. flag \in Parser!Flags
    BY <1>2, LenProperties DEF ParserInv, Given
  <2>2. value \in Asked(flag)
    BY <1>2 DEF Asked
  <2> HIDE DEF flag, value
  <2>3. flag = "format" => parsed.fmt = value
    BY <2>2 DEF ParserInv, Recorded
  <2>4. flag = "existing" => parsed.existing
    BY <2>2 DEF ParserInv, Recorded
  <2>5. flag = "password" => parsed.password
    BY <2>2 DEF ParserInv, Recorded
  <2>6. flag \in {"host", "user", "message"} => value \in {"", parsed[flag]}
    BY <1>2, <2>2 DEF Counted
  <2>7. flag # "help"
    BY <1>2, <2>2 DEF Counted
  <2>8. (CASE flag = "format" -> parsed.fmt = value
           [] flag \in {"existing", "password"} -> parsed[flag]
           [] OTHER -> value = "" \/ parsed[flag] = value)
    BY <2>1, <2>3, <2>4, <2>5, <2>6, <2>7 DEF Parser!Flags
  <2> QED
    BY <2>8 DEF flag, value
<1> QED
  BY <1>1, <1>2 DEF EveryValueCounts, Parser!EveryValueCounts, Parser!Accepted

LEMMA MeaningStep ==
    ASSUME MeaningInv, [Next]_programVars
    PROVE  MeaningInv'
<1>1. CASE pc = "arguments" /\ Parser!Next /\ pc' = pc
  BY <1>1, ParserStep, CountedStep DEF MeaningInv
<1>2. CASE UNCHANGED <<argv, parsed, done, given>> /\ (pc' = "arguments" => pc = "arguments")
  <2>1. \A f : Asked(f)' = Asked(f)
    BY <1>2 DEF Asked
  <2>2. (ParserInv => ParserInv') /\ (Counted => Counted')
    BY <1>2, <2>1 DEF ParserInv, Recorded, Counted
  <2>3. NewFormatFixesMessage /\ EveryValueCounts
    BY Meaning DEF MeaningInv
  <2>4. NewFormatFixesMessage' /\ EveryValueCounts'
    BY <1>2, <2>3 DEF NewFormatFixesMessage, EveryValueCounts, Parser!NewFormatFixesMessage,
       Parser!EveryValueCounts, Parser!Accepted, Parser!IsNew
  <2> QED
    BY <1>2, <2>2, <2>4 DEF MeaningInv
<1>3. CASE Begin
  <2>1. /\ pc' = "check" /\ given' = <<>> /\ parsed' = parsed /\ done' = done
    BY <1>3 DEF Begin
  <2>2. NewFormatFixesMessage
    BY <1>3, Meaning DEF Begin, MeaningInv
  <2>3. NewFormatFixesMessage' /\ EveryValueCounts'
    BY <2>1, <2>2 DEF NewFormatFixesMessage, EveryValueCounts, Parser!NewFormatFixesMessage,
       Parser!EveryValueCounts, Parser!Accepted, Parser!IsNew
  <2> QED
    BY <2>1, <2>3 DEF MeaningInv
<1>4. CASE Continue
  <2>1. pc # "arguments" /\ pc' # "arguments" /\ UNCHANGED <<argv, parsed, done, given>>
    <3> USE <1>4 DEF Continue, parserVars, Core!Fail, Core!Exit, Core!Goto
    <3>1. CASE Core!Interrupt \/ Core!Plug \/ Core!Pull
      BY <3>1 DEF Core!Interrupt, Core!Plug, Core!Pull, Core!Change
    <3>2. CASE Core!CheckFails \/ Core!CheckPasses \/ Core!PromptExisting \/ Core!PromptFails
               \/ Core!MakeContext \/ Core!MakeContextFails \/ Core!GetDeviceList
      BY <3>2 DEF Core!CheckFails, Core!CheckPasses, Core!PromptExisting, Core!PromptFails,
         Core!MakeContext, Core!MakeContextFails, Core!GetDeviceList
    <3>3. CASE Core!SkipDevice \/ Core!OpenDevice \/ Core!SelectAndClaim \/ Core!UsbFails
               \/ Core!Session \/ Core!NoDeviceFound
      BY <3>3 DEF Core!SkipDevice, Core!OpenDevice, Core!SelectAndClaim, Core!UsbFails,
         Core!Session, Core!NoDeviceFound
    <3>4. CASE Core!KeyPressed \/ Core!NoInput \/ Core!TooShort \/ Core!Slice
               \/ Core!PromptLocal \/ Core!Write
      BY <3>4 DEF Core!KeyPressed, Core!NoInput, Core!TooShort, Core!Slice, Core!PromptLocal,
         Core!Write
    <3> QED
      BY <3>1, <3>2, <3>3, <3>4 DEF Core!Main
  <2> QED
    BY <1>2, <2>1
<1>5. CASE BadArguments \/ UNCHANGED programVars
  BY <1>2, <1>5 DEF BadArguments, Core!Fail, Core!Exit, programVars, parserVars, Core!vars
<1> QED
  BY <1>1, <1>3, <1>4, <1>5 DEF Next, Parse

LEMMA MeaningInit ==
    ASSUME Init
    PROVE  MeaningInv
<1> USE DEF Init
<1>1. argv \in Seq(Words) /\ "" \in Words
  BY ProgramAssumption DEF Parser!ArgumentsAssumption, Parser!Init, Words
<1>2. given = <<>> /\ parsed \in Parsed
  BY <1>1 DEF Parser!Init, Parsed, Formats
<1>3. given \in Seq(Given) /\ \A f : Asked(f) = {}
  BY <1>2 DEF Asked
<1>4. Recorded /\ Counted
  BY <1>3 DEF Recorded, Counted, Parser!Init, Parser!NewFormats, Parser!Generated
<1> QED
  BY <1>1, <1>2, <1>3, <1>4 DEF MeaningInv, ParserInv

LEMMA MeaningInvCorrect == Spec => []MeaningInv
  BY MeaningInit, MeaningStep, PTL DEF Spec

(* With a new format the device always shows the same phrase, whichever the  *)
(* command line and its order.                                               *)
THEOREM MeaningCorrect == Spec => []NewFormatFixesMessage
<1>1. MeaningInv => NewFormatFixesMessage
  BY Meaning DEF MeaningInv
<1> QED
  BY <1>1, MeaningInvCorrect, PTL

(* And nothing the user gave is dropped.                                     *)
THEOREM ValuesCorrect == Spec => []EveryValueCounts
<1>1. MeaningInv => EveryValueCounts
  BY Meaning DEF MeaningInv
<1> QED
  BY <1>1, MeaningInvCorrect, PTL

-----------------------------------------------------------------------------
(* What is printed.                                                          *)

OldPassword == IF wanted.existing THEN <<Core!Item("existing", 0), Core!Item("newline", 1)>>
               ELSE <<>>

AfterOldPassword == {"context", "run", "scan", "select", "session", "attach", "slice",
                     "local", "write"}
Running == {"arguments", "check", "existing"} \union AfterOldPassword

(* struct program, as far as main uses it, is what was asked for.            *)
Understood ==
    /\ wanted \in [fmt : Formats, existing : BOOLEAN, password : BOOLEAN]
    /\ prog.fmt = Format(wanted.fmt)
    /\ prog.existing = wanted.existing /\ prog.password = wanted.password

(* What stdio holds grows in two places only, and reaches the pipe in one.   *)
PrintInv ==
    /\ pc \in Running \union {"exited", "thrown"}
    /\ pc = "arguments" => ParserInv
    /\ pc \in Running \ {"arguments"} => Understood
    /\ pc \in Running => status = "running" /\ stdout = <<>>
    /\ pc \in Running \ AfterOldPassword => buffered = <<>>
    /\ pc = "existing" => wanted.existing /\ wanted.fmt # "none"
    /\ pc \in AfterOldPassword => buffered = OldPassword /\ wanted.fmt # "none"
    /\ pc \in {"local", "write"} => Core!Item(secret.form, secret.size) = Strength
    /\ pc = "local" => wanted.password
    /\ pc = "write" => ~wanted.password
    /\ pc = "thrown" => status = "aborted"
    /\ OutputAsAsked /\ FailurePrintsNoSecret

LEMMA Concatenated ==
    ASSUME NEW T, NEW s \in Seq(T), NEW a \in T, NEW b \in T
    PROVE  /\ s \o <<a, b>> = s \o <<a>> \o <<b>>
           /\ s \o <<a>> \o <<>> = s \o <<a>>
           /\ s \o <<>> = s /\ <<>> \o s = s
<1>1. <<a>> \in Seq(T) /\ <<b>> \in Seq(T)
  OBVIOUS
<1>2. <<a>> \o <<b>> = <<a, b>>
  <2>1. <<a, b>> \in Seq(T) /\ Len(<<a, b>>) = 2 /\ Len(<<a>>) = 1 /\ Len(<<b>>) = 1
    OBVIOUS
  <2>2. /\ <<a>> \o <<b>> \in Seq(T)
        /\ Len(<<a>> \o <<b>>) = 2
        /\ \A i \in 1..2 : (<<a>> \o <<b>>)[i] = IF i <= 1 THEN <<a>>[i] ELSE <<b>>[i - 1]
    BY <1>1, <2>1, ConcatProperties
  <2>3. \A i \in 1..2 : (<<a>> \o <<b>>)[i] = <<a, b>>[i]
    BY <2>2
  <2> QED
    BY <2>1, <2>2, <2>3, SeqEqual
<1>3. s \o <<a>> \in Seq(T)
  BY <1>1, ConcatProperties
<1>4. s \o (<<a>> \o <<b>>) = (s \o <<a>>) \o <<b>>
  BY <1>1, ConcatAssociative
<1>5. s \o <<a>> \o <<>> = s \o <<a>>
  BY <1>3, ConcatEmptySeq
<1>6. s \o <<>> = s /\ <<>> \o s = s
  BY ConcatEmptySeq
<1> QED
  BY <1>2, <1>4, <1>5, <1>6

(* Leaving main with an error prints at most the old password.               *)
LEMMA FailPrints ==
    ASSUME PrintInv, pc \in Running, Core!Fail, UNCHANGED wanted
    PROVE  PrintInv'
<1> DEFINE T == {Core!Item("existing", 0), Core!Item("newline", 1)}
<1>1. buffered \in {<<>>, <<Core!Item("existing", 0), Core!Item("newline", 1)>>}
  BY DEF PrintInv, OldPassword
<1>2. /\ buffered \in Seq(T)
      /\ \A i \in DOMAIN buffered : buffered[i].what \in {"existing", "newline"}
  <2>1. CASE buffered = <<>>
    BY <2>1
  <2>2. CASE buffered = <<Core!Item("existing", 0), Core!Item("newline", 1)>>
    <3>1. buffered \in Seq(T)
      BY <2>2
    <3>2. DOMAIN buffered = 1..2
      BY <2>2
    <3> QED
      BY <2>2, <3>1, <3>2 DEF Core!Item
  <2> QED
    BY <1>1, <2>1, <2>2
<1>3. buffered \o <<>> = buffered
  BY <1>2, ConcatEmptySeq
<1>4. stdout' = buffered /\ status' = "failure" /\ pc' = "exited"
  BY <1>3 DEF Core!Fail, Core!Exit
<1>5. OutputAsAsked' /\ FailurePrintsNoSecret'
  BY <1>2, <1>4 DEF OutputAsAsked, FailurePrintsNoSecret, Core!FailurePrintsNoSecret
<1> QED
  BY <1>4, <1>5 DEF PrintInv, Running, AfterOldPassword

(* The command line has been read.                                           *)
LEMMA BeginPrints ==
    ASSUME PrintInv, Begin
    PROVE  PrintInv'
<1>1. PICK tty \in BOOLEAN : prog' = options(tty)
  BY DEF Begin
<1>2. /\ pc = "arguments" /\ pc' = "check" /\ status' = status /\ stdout' = stdout
      /\ buffered' = buffered /\ ParserInv
  BY DEF Begin, PrintInv
<1>3. wanted' = [fmt |-> parsed.fmt, existing |-> parsed.existing, password |-> parsed.password]
  <2>1. Asked("format") = {} => parsed.fmt = "none"
    BY <1>2 DEF ParserInv, Recorded
  <2>2. Asked("format") # {} => Asked("format") = {parsed.fmt}
    BY <1>2 DEF ParserInv, Recorded
  <2>3. /\ parsed.existing = (Asked("existing") # {})
        /\ parsed.password = (Asked("password") # {})
    BY <1>2 DEF ParserInv, Recorded, Parsed
  <2> QED
    BY <2>1, <2>2, <2>3 DEF Begin
<1>4. Understood'
  BY <1>1, <1>2, <1>3 DEF Understood, options, ParserInv, Parsed
<1>5. status' = "running" /\ stdout' = <<>> /\ buffered' = <<>>
  BY <1>2 DEF PrintInv, Running, AfterOldPassword
<1>6. OutputAsAsked' /\ FailurePrintsNoSecret'
  BY <1>5 DEF OutputAsAsked, FailurePrintsNoSecret, Core!FailurePrintsNoSecret
<1> QED
  BY <1>2, <1>4, <1>5, <1>6 DEF PrintInv, Running, AfterOldPassword

(* A step that prints nothing and keeps what is asked for, on the way from   *)
(* the old password to the secret.                                           *)
LEMMA SilentStep ==
    ASSUME PrintInv, pc \in AfterOldPassword, pc' \in AfterOldPassword \ {"local", "write"},
           UNCHANGED <<wanted, prog, buffered, stdout, status>>
    PROVE  PrintInv'
<1>1. /\ Understood' /\ status' = "running" /\ stdout' = <<>>
      /\ buffered' = OldPassword' /\ wanted'.fmt # "none"
  BY DEF PrintInv, Understood, OldPassword, Running, AfterOldPassword
<1>2. OutputAsAsked' /\ FailurePrintsNoSecret'
  BY <1>1 DEF OutputAsAsked, FailurePrintsNoSecret, Core!FailurePrintsNoSecret
<1> QED
  BY <1>1, <1>2 DEF PrintInv, Running, AfterOldPassword

LEMMA SlicePrints ==
    ASSUME PrintInv, Core!Slice, UNCHANGED wanted
    PROVE  PrintInv'
<1> DEFINE size == Core!PassSize(prog.fmt)
           bip39 == Core!IsBip39(prog.fmt)
<1>1. /\ pc = "slice" /\ prog' = prog /\ buffered' = buffered /\ stdout' = <<>>
      /\ Understood /\ wanted.fmt # "none" /\ buffered = OldPassword /\ status = "running"
  BY DEF Core!Slice, PrintInv, Running, AfterOldPassword
<1>2. \/ /\ pc' = "thrown" /\ status' = "aborted"
      \/ /\ status' = "running" /\ pc' = IF prog.password THEN "local" ELSE "write"
         /\ secret' = IF bip39 THEN Core!Secret("words", Core!WordCount(size))
                      ELSE Core!Secret("raw", size)
  BY <1>1 DEF Core!Slice, Core!Goto
<1>3. CASE pc' = "thrown" /\ status' = "aborted"
  BY <1>1, <1>3 DEF PrintInv, Running, AfterOldPassword, OutputAsAsked, FailurePrintsNoSecret,
     Core!FailurePrintsNoSecret
<1>4. CASE /\ status' = "running" /\ pc' = IF prog.password THEN "local" ELSE "write"
           /\ secret' = IF bip39 THEN Core!Secret("words", Core!WordCount(size))
                        ELSE Core!Secret("raw", size)
  <2>1. wanted.fmt \in {"legacy", "binary", "bip39-12", "bip39-18", "bip39-24"}
    BY <1>1 DEF Understood, Formats, Parser!NewFormats
  <2>2. Core!Item(secret'.form, secret'.size) = Strength'
    <3> USE <1>1, <1>4 DEF Understood, Format, Core!PassSize, Core!IsBip39, Core!WordCount,
            Core!Secret, Core!Item, Strength
    <3>1. CASE wanted.fmt = "legacy"
      BY <3>1
    <3>2. CASE wanted.fmt = "binary"
      BY <3>2
    <3>3. CASE wanted.fmt = "bip39-12"
      BY <3>3
    <3>4. CASE wanted.fmt = "bip39-18"
      BY <3>4
    <3>5. CASE wanted.fmt = "bip39-24"
      BY <3>5
    <3> QED
      BY <2>1, <3>1, <3>2, <3>3, <3>4, <3>5
  <2>3. pc' = IF wanted.password THEN "local" ELSE "write"
    BY <1>1, <1>4 DEF Understood
  <2>4. Understood' /\ buffered' = OldPassword'
    BY <1>1 DEF Understood, OldPassword
  <2>5. OutputAsAsked' /\ FailurePrintsNoSecret'
    BY <1>1, <1>4 DEF OutputAsAsked, FailurePrintsNoSecret, Core!FailurePrintsNoSecret
  <2> QED
    BY <1>1, <1>4, <2>2, <2>3, <2>4, <2>5 DEF PrintInv, Running, AfterOldPassword
<1> QED
  BY <1>2, <1>3, <1>4

(* The two ways main ends well.                                              *)
LEMMA SuccessPrints ==
    ASSUME PrintInv, Core!PromptLocal \/ Core!Write, UNCHANGED wanted
    PROVE  PrintInv'
<1> DEFINE local == Core!Item("local", 0)
           T == {Core!Item("existing", 0), Core!Item("newline", 1), Strength, local}
<1>1. /\ pc \in {"local", "write"} /\ buffered = OldPassword
      /\ Core!Item(secret.form, secret.size) = Strength
      /\ pc' = "exited" /\ status' = "success" /\ (pc = "local" <=> wanted.password)
      /\ stdout' = buffered \o (IF wanted.password THEN <<Strength, local>> ELSE <<Strength>>)
  BY DEF PrintInv, Core!PromptLocal, Core!Write, Core!Exit, AfterOldPassword
<1>2. OldPassword \in Seq(T) /\ Strength \in T /\ local \in T
  <2>1. <<Core!Item("existing", 0), Core!Item("newline", 1)>> \in Seq(T) /\ <<>> \in Seq(T)
    OBVIOUS
  <2> QED
    BY <2>1 DEF OldPassword
<1> HIDE DEF T, local
<1>3. stdout' = OldPassword \o <<Strength>> \o (IF wanted.password THEN <<local>> ELSE <<>>)
  BY <1>1, <1>2, Concatenated, SMTT(30)
<1>4. OutputAsAsked'
  BY <1>3 DEF OutputAsAsked, OldPassword, Strength, local
<1> QED
  BY <1>1, <1>4 DEF PrintInv, Running, AfterOldPassword, FailurePrintsNoSecret,
     Core!FailurePrintsNoSecret

LEMMA PrintStep ==
    ASSUME PrintInv, [Next]_programVars
    PROVE  PrintInv'
<1>1. CASE UNCHANGED programVars
  <2>1. UNCHANGED <<argv, given, parsed, pc, prog, wanted, buffered, stdout, status, secret>>
    BY <1>1 DEF programVars, parserVars, Core!vars, Core!outVars
  <2>2. \A f : Asked(f)' = Asked(f)
    BY <2>1 DEF Asked
  <2>3. ParserInv => ParserInv'
    BY <2>1, <2>2 DEF ParserInv, Recorded
  <2> QED
    BY <2>1, <2>3 DEF PrintInv, Understood, OldPassword, Strength, OutputAsAsked,
       FailurePrintsNoSecret, Core!FailurePrintsNoSecret
<1>2. CASE Parse
  <2>1. ParserInv'
    BY <1>2, ParserStep DEF Parse, PrintInv
  <2>2. /\ pc' = pc /\ pc = "arguments" /\ status' = status /\ stdout' = stdout
        /\ buffered' = buffered
    BY <1>2 DEF Parse
  <2>3. OutputAsAsked' /\ FailurePrintsNoSecret'
    BY <2>2 DEF PrintInv, Running, OutputAsAsked, FailurePrintsNoSecret,
       Core!FailurePrintsNoSecret
  <2> QED
    BY <2>1, <2>2, <2>3 DEF PrintInv, Running, AfterOldPassword
<1>3. CASE Begin
  BY <1>3, BeginPrints
<1>4. CASE BadArguments
  BY <1>4, FailPrints DEF BadArguments, Running
<1>5. CASE Continue /\ Core!Main
  <2>1. UNCHANGED wanted
    BY <1>5 DEF Continue
  <2>2. CASE \/ Core!CheckFails \/ Core!PromptFails \/ Core!MakeContextFails
             \/ Core!UsbFails \/ Core!NoInput \/ Core!TooShort
    <3>1. Core!Fail /\ pc \in Running
      BY <2>2 DEF Core!CheckFails, Core!PromptFails, Core!MakeContextFails, Core!UsbFails,
         Core!NoInput, Core!TooShort, Core!Scanning, Running, AfterOldPassword
    <3> QED
      BY <2>1, <3>1, FailPrints
  <2>3. CASE Core!CheckPasses
    <3>1. /\ pc = "check" /\ pc' = IF prog.existing THEN "existing" ELSE "context"
          /\ prog' = prog /\ buffered' = buffered /\ stdout' = stdout /\ status' = status
          /\ prog.fmt # "none"
      BY <2>3 DEF Core!CheckPasses, Core!Goto, Core!outVars
    <3>2. Understood /\ status' = "running" /\ stdout' = <<>> /\ buffered' = <<>>
      BY <3>1 DEF PrintInv, Running, AfterOldPassword
    <3>3. wanted.fmt # "none" /\ prog.existing = wanted.existing
      BY <3>1, <3>2 DEF Understood, Format
    <3>4. OutputAsAsked' /\ FailurePrintsNoSecret'
      BY <3>2 DEF OutputAsAsked, FailurePrintsNoSecret, Core!FailurePrintsNoSecret
    <3>5. Understood' /\ (~wanted.existing => OldPassword' = <<>>)
      BY <2>1, <3>1, <3>2 DEF Understood, OldPassword
    <3> QED
      BY <2>1, <3>1, <3>2, <3>3, <3>4, <3>5 DEF PrintInv, Running, AfterOldPassword
  <2>4. CASE Core!PromptExisting
    <3>1. /\ pc = "existing" /\ pc' = "context" /\ prog' = prog
          /\ buffered' = buffered \o <<Core!Item("existing", 0), Core!Item("newline", 1)>>
          /\ stdout' = stdout /\ status' = status
      BY <2>4 DEF Core!PromptExisting, Core!Goto
    <3>2. /\ Understood /\ status' = "running" /\ stdout' = <<>> /\ buffered = <<>>
          /\ wanted.existing /\ wanted.fmt # "none"
      BY <3>1 DEF PrintInv, Running, AfterOldPassword
    <3>3. buffered' = OldPassword'
      <4> DEFINE T == {Core!Item("existing", 0), Core!Item("newline", 1)}
      <4>1. <<Core!Item("existing", 0), Core!Item("newline", 1)>> \in Seq(T)
        OBVIOUS
      <4> QED
        BY <2>1, <3>1, <3>2, <4>1, ConcatEmptySeq DEF OldPassword
    <3>4. OutputAsAsked' /\ FailurePrintsNoSecret'
      BY <3>2 DEF OutputAsAsked, FailurePrintsNoSecret, Core!FailurePrintsNoSecret
    <3>5. Understood' /\ wanted.fmt # "none"
      BY <2>1, <3>1, <3>2 DEF Understood
    <3> QED
      BY <2>1, <3>1, <3>2, <3>3, <3>4, <3>5 DEF PrintInv, Running, AfterOldPassword
  <2>5. CASE \/ Core!MakeContext \/ Core!GetDeviceList \/ Core!SkipDevice \/ Core!OpenDevice
             \/ Core!SelectAndClaim \/ Core!Session \/ Core!NoDeviceFound \/ Core!KeyPressed
    <3>1. /\ pc \in AfterOldPassword /\ pc' \in AfterOldPassword \ {"local", "write"}
          /\ UNCHANGED <<prog, buffered, stdout, status>>
      BY <2>5 DEF Core!MakeContext, Core!GetDeviceList, Core!SkipDevice, Core!OpenDevice,
         Core!SelectAndClaim, Core!Session, Core!NoDeviceFound, Core!KeyPressed, Core!Scanning,
         Core!Goto, Core!outVars, AfterOldPassword
    <3> QED
      BY <2>1, <3>1, SilentStep
  <2>6. CASE Core!Slice
    BY <2>1, <2>6, SlicePrints
  <2>7. CASE Core!PromptLocal \/ Core!Write
    BY <2>1, <2>7, SuccessPrints
  <2> QED
    BY <1>5, <2>2, <2>3, <2>4, <2>5, <2>6, <2>7 DEF Core!Main
<1>6. CASE Continue /\ Core!Interrupt
  <2>1. /\ pc \notin {"exited", "thrown"} /\ pc' = "exited" /\ status' = "killed"
        /\ stdout' = stdout
    BY <1>6 DEF Core!Interrupt
  <2>2. stdout' = <<>>
    BY <2>1 DEF PrintInv
  <2> QED
    BY <2>1, <2>2 DEF PrintInv, Running, AfterOldPassword, OutputAsAsked,
       FailurePrintsNoSecret, Core!FailurePrintsNoSecret
<1>7. CASE Continue /\ (Core!Plug \/ Core!Pull)
  <2>1. UNCHANGED <<pc, prog, wanted, buffered, stdout, status, secret>> /\ pc # "arguments"
    BY <1>7 DEF Continue, Core!Plug, Core!Pull, Core!Change, Core!outVars
  <2> QED
    BY <2>1 DEF PrintInv, Understood, OldPassword, Strength, OutputAsAsked,
       FailurePrintsNoSecret, Core!FailurePrintsNoSecret
<1> QED
  BY <1>1, <1>2, <1>3, <1>4, <1>5, <1>6, <1>7 DEF Next, Continue

LEMMA PrintInit ==
    ASSUME Init
    PROVE  PrintInv
<1> USE DEF Init, Core!Start
<1>1. argv \in Seq(Words) /\ "" \in Words
  BY ProgramAssumption DEF Parser!ArgumentsAssumption, Parser!Init, Words
<1>2. given = <<>> /\ parsed \in Parsed
  BY <1>1 DEF Parser!Init, Parsed, Formats
<1>3. given \in Seq(Given) /\ \A f : Asked(f) = {}
  BY <1>2 DEF Asked
<1>4. Recorded
  BY <1>3 DEF Recorded, Parser!Init
<1>5. OutputAsAsked /\ FailurePrintsNoSecret
  BY DEF OutputAsAsked, FailurePrintsNoSecret, Core!FailurePrintsNoSecret
<1> QED
  BY <1>1, <1>2, <1>3, <1>4, <1>5 DEF PrintInv, ParserInv, Running, AfterOldPassword

LEMMA PrintInvariant == Spec => []PrintInv
<1> QED
  BY PrintInit, PrintStep, PTL DEF Spec

(* A run that succeeds printed what its command line asked for and no more,  *)
(* at exactly the strength of the format, whatever the device returned.      *)
THEOREM OutputCorrect == Spec => []OutputAsAsked
<1>1. PrintInv => OutputAsAsked
  BY DEF PrintInv
<1> QED
  BY <1>1, PrintInvariant, PTL

(* A run that fails prints no part of a new password, and one that is        *)
(* interrupted prints nothing.                                               *)
THEOREM FailureCorrect == Spec => []FailurePrintsNoSecret
<1>1. PrintInv => FailurePrintsNoSecret
  BY DEF PrintInv
<1> QED
  BY <1>1, PrintInvariant, PTL
-----------------------------------------------------------------------------
(* The device and its endpoints.                                             *)

(* The loops of select end: a set of indices has a first and a last.         *)
LEMMA FirstIndex ==
    ASSUME NEW S \in SUBSET Nat, S # {}
    PROVE  Core!Min(S) \in S /\ \A y \in S : Core!Min(S) <= y
<1> DEFINE R == OpToRel(<, Nat)
<1>1. PICK x \in S : \A y \in S : ~(<<y, x>> \in R)
  BY NatLessThanWellFounded, WFMin
<1>2. \A y \in S : ~(y < x)
  BY <1>1 DEF OpToRel
<1>3. \A y \in S : x <= y
  BY <1>2
<1> QED
  BY <1>3 DEF Core!Min

LEMMA LastIndex ==
    ASSUME NEW n \in Nat, NEW S \in SUBSET (1..n), S # {}
    PROVE  Core!Max(S) \in S /\ \A y \in S : Core!Max(S) >= y
<1> DEFINE T == {m \in Nat : \A y \in S : y <= m}
<1>1. n \in T
  OBVIOUS
<1>2. Core!Min(T) \in T /\ \A m \in T : Core!Min(T) <= m
  BY <1>1, FirstIndex
<1>3. PICK last \in T : \A m \in T : last <= m
  BY <1>2
<1>4. last # 0
  <2>1. PICK y \in S : TRUE
    OBVIOUS
  <2> QED
    BY <1>3, <2>1
<1>5. ASSUME last \notin S PROVE FALSE
  <2>1. \A y \in S : y \in Nat /\ y <= last /\ y # last
    BY <1>3, <1>5
  <2>2. last - 1 \in Nat /\ \A y \in S : y <= last - 1
    BY <1>3, <1>4, <2>1
  <2> QED
    BY <1>3, <2>2
<1> QED
  BY <1>3, <1>5 DEF Core!Max

(* An endpoint of the direction asked for, unless there is none.             *)
LEMMA EndpointRight ==
    ASSUME NEW ends \in Seq(Core!Endpoints), NEW in \in BOOLEAN,
           \A i \in DOMAIN ends : ends[i].attributes = 3
    PROVE  IF \E i \in DOMAIN ends : Core!IsIn(ends[i]) = in
           THEN \E i \in DOMAIN ends : /\ Core!IsIn(ends[i]) = in
                                       /\ Core!EndpointOf(ends, in) = ends[i].address
           ELSE Core!EndpointOf(ends, in) = 0
<1> DEFINE usable == {i \in DOMAIN ends : Core!Passes(ends[i]) /\ Core!IsIn(ends[i]) = in}
<1>1. usable = {i \in DOMAIN ends : Core!IsIn(ends[i]) = in}
  BY DEF Core!Passes
<1>2. Len(ends) \in Nat /\ DOMAIN ends = 1..Len(ends)
  BY LenProperties
<1>3. Core!EndpointOf(ends, in) = IF usable = {} THEN 0 ELSE ends[Core!Max(usable)].address
  BY DEF Core!EndpointOf
<1>4. CASE usable = {}
  BY <1>1, <1>3, <1>4
<1>5. CASE usable # {}
  <2>1. Core!Max(usable) \in usable
    BY <1>2, <1>5, LastIndex
  <2> QED
    BY <1>1, <1>3, <1>5, <2>1
<1> QED
  BY <1>4, <1>5

(* What select finds is a setting of the class of the firmware with no such  *)
(* setting before it.                                                        *)
LEMMA SelectRight ==
    ASSUME NEW intf \in Seq(Seq(Core!Setting)), NEW og \in BOOLEAN,
           Core!Select(intf, og) # Core!NoInterface
    PROVE  \E i \in DOMAIN intf : \E j \in DOMAIN intf[i] :
              /\ intf[i][j].class = Core!FirmwareClass(og)
              /\ Core!Select(intf, og) =
                    [number |-> intf[i][j].number,
                     in     |-> Core!EndpointOf(intf[i][j].endpoints, TRUE),
                     out    |-> Core!EndpointOf(intf[i][j].endpoints, FALSE)]
              /\ \A k \in 1..i : \A l \in DOMAIN intf[k] :
                    k < i \/ l < j => intf[k][l].class # Core!FirmwareClass(og)
<1> DEFINE class == Core!FirmwareClass(og)
           candidates == {k \in DOMAIN intf : Core!OfClass(intf[k], class) # {}}
           m == Core!Min(candidates)
           first == Core!OfClass(intf[m], class)
           n == Core!Min(first)
<1>1. candidates # {}
  BY DEF Core!Select
<1>2. DOMAIN intf \subseteq Nat /\ \A k \in DOMAIN intf : intf[k] \in Seq(Core!Setting)
  BY LenProperties
<1>3. Core!Select(intf, og) =
        [number |-> intf[m][n].number,
         in     |-> Core!EndpointOf(intf[m][n].endpoints, TRUE),
         out    |-> Core!EndpointOf(intf[m][n].endpoints, FALSE)]
  BY <1>1 DEF Core!Select
<1>4. m \in candidates /\ \A k \in candidates : m <= k
  BY <1>1, <1>2, FirstIndex
<1>5. m \in DOMAIN intf /\ m \in Nat /\ first # {}
  BY <1>2, <1>4
<1>6. first \subseteq DOMAIN intf[m] /\ DOMAIN intf[m] \subseteq Nat
  <2>1. first \subseteq DOMAIN intf[m]
    BY DEF Core!OfClass
  <2>2. intf[m] \in Seq(Core!Setting)
    BY <1>2, <1>5
  <2> HIDE DEF m, first
  <2>3. DOMAIN intf[m] \subseteq Nat
    BY <2>2, LenProperties
  <2> QED
    BY <2>1, <2>3
<1>7. n \in first /\ \A l \in first : n <= l
  BY <1>5, <1>6, FirstIndex
<1>8. n \in DOMAIN intf[m] /\ n \in Nat /\ intf[m][n].class = class
  BY <1>6, <1>7 DEF Core!OfClass
<1> HIDE DEF m, n, class
<1>9. ASSUME NEW k \in 1..m, NEW l \in DOMAIN intf[k], k < m \/ l < n
      PROVE  intf[k][l].class # class
  <2>1. SUFFICES ASSUME intf[k][l].class = class PROVE FALSE
    OBVIOUS
  <2>2. k \in DOMAIN intf /\ k \in Nat
    BY <1>5, LenProperties
  <2>3. l \in Core!OfClass(intf[k], class)
    BY <2>1 DEF Core!OfClass
  <2>4. k \in candidates
    BY <2>2, <2>3
  <2>5. m <= k
    BY <1>4, <2>4
  <2>6. k = m
    BY <1>5, <2>2, <2>5
  <2>7. n <= l /\ l \in Nat
    BY <1>6, <1>7, <2>3, <2>6
  <2> QED
    BY <1>8, <1>9, <2>2, <2>6, <2>7
<1> QED
  BY <1>3, <1>5, <1>8, <1>9 DEF class

(* The device usb::run has open is the first of the list that macer knows,   *)
(* and what it has claimed is what select found there.                       *)
DeviceInv ==
    /\ ports \in Seq(Devices)
    /\ pc \in {"scan", "select", "session"} =>
          /\ list \in Seq(Devices) /\ next \in Nat \ {0}
          /\ \A i \in 1..(next - 1) : ~Core!Known(list[i])
    /\ pc \in {"select", "session"} =>
          next <= Len(list) /\ handle = list[next] /\ Core!Known(handle)
    /\ pc = "session" =>
          /\ claimed = Core!Select(handle.interfaces, Core!OgFirmware(handle))
          /\ claimed # Core!NoInterface

(* Plugging in and pulling out leaves a sequence of devices.                 *)
LEMMA PortsStep ==
    ASSUME ports \in Seq(Devices), Core!Plug \/ Core!Pull
    PROVE  ports' \in Seq(Devices)
<1>1. CASE Core!Plug
  <2>1. PICK d \in Devices : ports' = <<d>> \o ports \/ ports' = Append(ports, d)
    BY <1>1 DEF Core!Plug
  <2>2. <<d>> \in Seq(Devices)
    OBVIOUS
  <2> QED
    BY <2>1, <2>2, AppendProperties, ConcatProperties, ZenonT(40)
<1>2. CASE Core!Pull
  <2>1. PICK i \in DOMAIN ports :
            ports' = SubSeq(ports, 1, i - 1) \o SubSeq(ports, i + 1, Len(ports))
    BY <1>2 DEF Core!Pull
  <2>2. /\ Len(ports) \in Nat /\ i \in 1..Len(ports)
        /\ \A k \in 1..Len(ports) : ports[k] \in Devices
    BY LenProperties
  <2>3. SubSeq(ports, 1, i - 1) \in Seq(Devices)
    BY <2>2, SubSeqProperties
  <2>4. SubSeq(ports, i + 1, Len(ports)) \in Seq(Devices)
    BY <2>2, SubSeqProperties
  <2> QED
    BY <2>1, <2>3, <2>4, ConcatProperties
<1> QED
  BY <1>1, <1>2

LEMMA DeviceStep ==
    ASSUME DeviceInv, [Next]_programVars
    PROVE  DeviceInv'
<1> USE DEF DeviceInv
<1>1. CASE \/ UNCHANGED programVars \/ Parse \/ Begin
  BY <1>1 DEF programVars, Core!vars, Core!usbVars, Core!busVars, Parse, Begin
<1>2. ASSUME Core!Fail PROVE DeviceInv'
  BY <1>2 DEF Core!Fail, Core!Exit, Core!busVars
<1>3. CASE BadArguments
  BY <1>2, <1>3 DEF BadArguments
<1>4. CASE Core!Main
  <2> USE DEF Core!Goto, Core!busVars, Core!usbVars
  <2>1. CASE \/ Core!CheckPasses \/ Core!PromptExisting \/ Core!MakeContext
             \/ Core!KeyPressed \/ Core!Slice
    BY <2>1 DEF Core!CheckPasses, Core!PromptExisting, Core!MakeContext, Core!KeyPressed,
                Core!Slice
  <2>2. CASE \/ Core!Session \/ Core!NoDeviceFound \/ Core!PromptLocal \/ Core!Write
    BY <2>2 DEF Core!Session, Core!NoDeviceFound, Core!PromptLocal, Core!Write, Core!Exit
  <2>3. CASE \/ Core!CheckFails \/ Core!PromptFails \/ Core!MakeContextFails
             \/ Core!UsbFails \/ Core!NoInput \/ Core!TooShort
    BY <1>2, <2>3 DEF Core!CheckFails, Core!PromptFails, Core!MakeContextFails,
                Core!UsbFails, Core!NoInput, Core!TooShort
  <2>4. CASE Core!GetDeviceList
    BY <2>4 DEF Core!GetDeviceList
  <2>5. CASE Core!SkipDevice
    <3>1. /\ pc' = "scan" /\ list' = list /\ next' = next + 1 /\ ports' = ports
          /\ next \in Nat \ {0} /\ list \in Seq(Devices) /\ ~Core!Known(list[next])
          /\ \A i \in 1..(next - 1) : ~Core!Known(list[i])
      BY <2>5 DEF Core!SkipDevice, Core!Scanning
    <3>2. \A i \in 1..(next' - 1) : i = next \/ i \in 1..(next - 1)
      BY <3>1
    <3>3. \A i \in 1..(next' - 1) : ~Core!Known(list[i])
      BY <3>1, <3>2
    <3> QED
      BY <3>1, <3>3
  <2>6. CASE Core!OpenDevice
    BY <2>6 DEF Core!OpenDevice, Core!Scanning
  <2>7. CASE Core!SelectAndClaim
    BY <2>7 DEF Core!SelectAndClaim
  <2> QED
    BY <1>4, <2>1, <2>2, <2>3, <2>4, <2>5, <2>6, <2>7 DEF Core!Main
<1>5. CASE Core!Interrupt
  BY <1>5 DEF Core!Interrupt, Core!busVars
<1>6. CASE Core!Plug \/ Core!Pull
  BY <1>6, PortsStep DEF Core!Plug, Core!Pull, Core!Change, Core!usbVars
<1> QED
  BY <1>1, <1>3, <1>4, <1>5, <1>6 DEF Next, Continue

LEMMA DeviceImpliesEndpoints ==
    ASSUME DeviceInv
    PROVE  SessionEndpoints
<1> SUFFICES ASSUME pc = "session" PROVE SessionEndpoints
  BY DEF SessionEndpoints, Core!SessionEndpoints
<1> DEFINE intf == handle.interfaces
           og == Core!OgFirmware(handle)
           class == IF handle.vendor = Core!VendorId THEN Core!VendorSpec ELSE Core!Hid
<1>1. handle \in Core!Device /\ handle = list[next] /\ Core!Known(handle)
  <2>1. next \in 1..Len(list)
    BY LenProperties DEF DeviceInv
  <2> QED
    BY <2>1, ElementOfSeq, ProgramAssumption DEF DeviceInv, Core!MacerAssumption
<1>2. intf \in Seq(Seq(Core!Setting))
  BY <1>1 DEF Core!Device
<1>3. class = Core!FirmwareClass(og) /\ og \in BOOLEAN
  BY <1>1 DEF Core!Known, Core!OgFirmware, Core!FirmwareClass, Core!VendorId, Core!VendorIdOg
<1>4. PICK i \in DOMAIN intf : \E j \in DOMAIN intf[i] :
              /\ intf[i][j].class = class
              /\ claimed = [number |-> intf[i][j].number,
                            in     |-> Core!EndpointOf(intf[i][j].endpoints, TRUE),
                            out    |-> Core!EndpointOf(intf[i][j].endpoints, FALSE)]
              /\ \A k \in 1..i : \A l \in DOMAIN intf[k] :
                    k < i \/ l < j => intf[k][l].class # class
  <2>1. claimed = Core!Select(intf, og) /\ Core!Select(intf, og) # Core!NoInterface
    BY DEF DeviceInv
  <2> HIDE DEF intf, og, class
  <2> QED
    BY <1>2, <1>3, <2>1, SelectRight
<1>5. PICK j \in DOMAIN intf[i] :
              /\ intf[i][j].class = class
              /\ claimed = [number |-> intf[i][j].number,
                            in     |-> Core!EndpointOf(intf[i][j].endpoints, TRUE),
                            out    |-> Core!EndpointOf(intf[i][j].endpoints, FALSE)]
              /\ \A k \in 1..i : \A l \in DOMAIN intf[k] :
                    k < i \/ l < j => intf[k][l].class # class
  BY <1>4
<1>6. intf[i][j].endpoints \in Seq(Core!Endpoints)
  <2>1. intf[i] \in Seq(Core!Setting)
    BY <1>2, LenProperties
  <2>2. intf[i][j] \in Core!Setting
    BY <2>1, LenProperties
  <2> QED
    BY <2>2 DEF Core!Setting
<1>7. Core!Uses(intf[i][j])
  <2> DEFINE ends == intf[i][j].endpoints
             all == Core!ToSet(ends)
             ins == {e \in all : e.address >= 128}
  <2>1. all = {ends[n] : n \in DOMAIN ends} /\ \A e \in all : e.address \in Nat
    <3>1. all = {ends[n] : n \in DOMAIN ends}
      BY DEF Core!ToSet
    <3>2. \A n \in DOMAIN ends : ends[n] \in Core!Endpoints
      BY <1>6, LenProperties
    <3>3. \A e \in Core!Endpoints : e.address \in Nat
      BY DEF Core!Endpoints
    <3> QED
      BY <3>1, <3>2, <3>3
  <2>2. \A e \in all : Core!IsIn(e) = TRUE <=> e \in ins
    BY DEF Core!IsIn
  <2>3. \A e \in all : Core!IsIn(e) = FALSE <=> e \in all \ ins
    BY DEF Core!IsIn
  <2>4. SUFFICES ASSUME \A e \in all : e.attributes = 3
                 PROVE  /\ IF ins = {} THEN claimed.in = 0
                           ELSE \E e \in ins : claimed.in = e.address
                        /\ IF ins = all THEN claimed.out = 0
                           ELSE \E e \in all \ ins : claimed.out = e.address
    BY DEF Core!Uses
  <2>5. \A n \in DOMAIN ends : ends[n] \in all /\ ends[n].attributes = 3
    BY <2>1, <2>4
  <2>6. claimed.in = Core!EndpointOf(ends, TRUE) /\ claimed.out = Core!EndpointOf(ends, FALSE)
    BY <1>5
  <2>9. ins \subseteq all
    OBVIOUS
  <2>7. IF ins = {} THEN claimed.in = 0 ELSE \E e \in ins : claimed.in = e.address
    <3>1. IF \E n \in DOMAIN ends : Core!IsIn(ends[n]) = TRUE
          THEN \E n \in DOMAIN ends : /\ Core!IsIn(ends[n]) = TRUE
                                      /\ Core!EndpointOf(ends, TRUE) = ends[n].address
          ELSE Core!EndpointOf(ends, TRUE) = 0
      BY <1>6, <2>5, EndpointRight
    <3> HIDE DEF ends, all, ins
    <3>2. (\E n \in DOMAIN ends : Core!IsIn(ends[n]) = TRUE) <=> ins # {}
      BY <2>1, <2>2, <2>9
    <3> QED
      BY <2>1, <2>2, <2>6, <3>1, <3>2
  <2>8. IF ins = all THEN claimed.out = 0 ELSE \E e \in all \ ins : claimed.out = e.address
    <3>1. IF \E n \in DOMAIN ends : Core!IsIn(ends[n]) = FALSE
          THEN \E n \in DOMAIN ends : /\ Core!IsIn(ends[n]) = FALSE
                                      /\ Core!EndpointOf(ends, FALSE) = ends[n].address
          ELSE Core!EndpointOf(ends, FALSE) = 0
      BY <1>6, <2>5, EndpointRight
    <3> HIDE DEF ends, all, ins
    <3>2. (\E n \in DOMAIN ends : Core!IsIn(ends[n]) = FALSE) <=> ins # all
      BY <2>1, <2>3, <2>9
    <3> QED
      BY <2>1, <2>3, <2>6, <3>1, <3>2
  <2> QED
    BY <2>7, <2>8
<1>8. \A n \in 1..(next - 1) : ~Core!Known(list[n])
  BY DEF DeviceInv
<1> QED
  BY <1>1, <1>5, <1>7, <1>8 DEF SessionEndpoints, Core!SessionEndpoints

(* A session is held with the first device macer knows, on the interface and *)
(* through the endpoints that are meant for it.                              *)
THEOREM EndpointsCorrect == Spec => []SessionEndpoints
<1>1. Init => DeviceInv
  BY DEF Init, Core!Start, DeviceInv
<1> QED
  BY <1>1, DeviceStep, DeviceImpliesEndpoints, PTL DEF Spec

=============================================================================

------------------------------ MODULE MCProgram -------------------------------
(* Program for TLC.  Command lines: every sequence of up to three words, and *)
(* every sequence of up to four whole options, which reaches all formats     *)
(* with all other options in every order.                                    *)
EXTENDS Program, SequencesExt

MCValues == {"", "legacy", "binary", "bip39-12", "bip39-18", "bip39-24", "x"}

(* The flags of Arguments.                                                   *)
MCFlags == {"help", "existing", "format", "host", "user", "message", "password"}

ASSUME AllFlags == MCFlags = Parser!Flags

UpTo(n, S) == UNION {[1..k -> S] : k \in 0..n}

Groups == {<<"host", "x">>, <<"host", "">>, <<"message", "x">>, <<"message", "">>,
           <<"user", "x">>, <<"existing">>, <<"password">>}
          \union {<<"format", f>> : f \in MCValues \ {"", "x"}}

MCCommandLines ==
    UpTo(3, MCValues \union MCFlags)
        \union {FlattenSeq(g) : g \in UpTo(4, Groups)}

Pair(n) == <<[attributes |-> 3, address |-> 128 + n], [attributes |-> 3, address |-> n]>>

Interface(class, number, endpoints) ==
    <<[number |-> number, class |-> class, endpoints |-> endpoints]>>

(* One of the first firmware, its interface second and a debug interface of  *)
(* the same class behind it; one of the later firmware without its           *)
(* interface; one of the vendor that macer does not know.                    *)
MCDevices ==
    {[vendor |-> 21564, product |-> 2,
      interfaces |-> <<Interface(255, 0, Pair(1)), Interface(3, 1, Pair(2)),
                       Interface(3, 2, Pair(3))>>],
     [vendor |-> 4617, product |-> 21441, interfaces |-> <<Interface(3, 0, Pair(1))>>],
     [vendor |-> 4617, product |-> 1, interfaces |-> <<Interface(255, 0, Pair(1))>>]}

=============================================================================

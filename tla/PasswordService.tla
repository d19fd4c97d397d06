--------------------------- MODULE PasswordService ---------------------------
(* What a run of macer promises: it ends with nothing, or with the one key   *)
(* that belongs to the identity it was started for and to the passphrase     *)
(* typed in this run, and then only after the owner approved that very key   *)
(* on the device.  A run that gets no promise shows as one without a key.    *)
CONSTANTS
    Runs,            \* what macer can be started with
    Entries,         \* what can be typed as the passphrase
    Keys,            \* what a device can derive
    NoEntry,         \* nothing typed yet
    Nothing,         \* no key
    KeyOf(_, _)      \* the password of a run and a passphrase

VARIABLES
    running,    \* a run is in progress
    run,        \* what it was started with
    entered,    \* the passphrase typed in it
    approved,   \* the key the owner approved last
    password    \* what the last run ended with

vars == <<running, run, entered, approved, password>>

Init == /\ running = TRUE
        /\ run \in Runs
        /\ entered = NoEntry /\ approved = Nothing /\ password = Nothing

Begin == /\ ~running /\ running' = TRUE
         /\ run' \in Runs
         /\ entered' = NoEntry /\ approved' = Nothing /\ password' = Nothing

Enter == /\ running
         /\ entered' \in Entries
         /\ UNCHANGED <<running, run, approved, password>>

\* The button may still be pressed after the run that asked for it is gone.
Approve == /\ approved' \in Keys
           /\ UNCHANGED <<running, run, entered, password>>

Deliver == /\ running /\ running' = FALSE
           /\ approved = KeyOf(run, entered)
           /\ password' = approved
           /\ UNCHANGED <<run, entered, approved>>

GiveUp == /\ running /\ running' = FALSE
          /\ UNCHANGED <<run, entered, approved, password>>

\* The promise of a run that is over may end, with what comes after it.
Forget == /\ ~running
          /\ password' = Nothing
          /\ UNCHANGED <<running, run, entered, approved>>

Next == Begin \/ Enter \/ Approve \/ Deliver \/ GiveUp \/ Forget

Spec == Init /\ [][Next]_vars

=============================================================================

--------------------------- MODULE MCTrezorSession ---------------------------
(* TrezorSession for TLC: two identities and two passphrases, which are      *)
(* interchangeable.  The symmetry is used by the runs that check invariants  *)
(* only.                                                                     *)
EXTENDS TrezorSession, TLC

CONSTANTS alice, bob, hunter, staple

Symmetric == Permutations({alice, bob}) \union Permutations({hunter, staple})

=============================================================================

------------------------------- MODULE KeyPath -------------------------------
(* The path of the public key that a new format asks for: get_path, and      *)
(* trezor::usb::run where it fills address_n, of src/trezor/usb.cpp.  A      *)
(* number of 32 bits is a function of its bits, 0 the least significant.     *)
EXTENDS Naturals, Sequences

On  == <<"1">>
Off == <<"0">>

(* 17, the purpose of the path.                                              *)
Purpose == [b \in 0..31 |-> IF b \in {0, 4} THEN On ELSE Off]

(* Bit b of a byte of the hash.                                              *)
HashBit(byte, b) == <<"bit", byte, b>>

(* Mutant of Number: the parts of a number overlap.                          *)
NumberNarrow(hash, i) == [b \in 0..31 |-> HashBit(hash[4 * i + (b \div 16) + 1], b % 8)]

(* Four bytes of the hash, the least significant first.                      *)
Number(hash, i) == [b \in 0..31 |-> HashBit(hash[4 * i + (b \div 8) + 1], b % 8)]

(* hardened_path | number.                                                   *)
Hardened(number) == [number EXCEPT ![31] = On]

AddressN(hash) ==
    <<Hardened(Purpose)>> \o [i \in 1..4 |-> Hardened(Number(hash, i - 1))]

=============================================================================

-------------------------------- MODULE Bip39 --------------------------------
(* The sizes and the bits of bip39::encode, src/crypto/bip39/encoder.cpp.    *)
(* A byte is whatever it is; its bits are told apart by their place.         *)
EXTENDS Naturals, Sequences

(* Other sizes are refused with an error.                                    *)
Encodable(size) == 16 <= size /\ size <= 32 /\ size % 8 = 0

(* The number of words for so many bytes, the checksum not counted.          *)
WordCount(size) == (size * 3) \div 4

(* Bit n of a sequence of bytes, the most significant bit of the first byte  *)
(* being bit 0.                                                              *)
Bit(bytes, n) == <<bytes[n \div 8 + 1], n % 8>>

(* Mutant of Index: the bits in the opposite order.                          *)
IndexReversed(bytes, i) == [j \in 1..11 |-> Bit(bytes, i * 11 + 11 - j)]

(* The index of word i in the list of words, as its 11 bits.                 *)
Index(bytes, i) == [j \in 1..11 |-> Bit(bytes, i * 11 + j - 1)]

=============================================================================

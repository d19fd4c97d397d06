------------------------------- MODULE Varint --------------------------------
(* The integers of the wire format: groups of bits, the lowest first, and a  *)
(* bit in each byte that says whether another one follows.  A byte of the    *)
(* code has 7 bits of the integer; here it has Group of them, so that a few  *)
(* bytes reach the limits of the integer types.                              *)
EXTENDS Integers, Sequences, FiniteSetsExt

CONSTANT Group      \* bits of the integer in a byte, 7 in the code

ASSUME GroupAssumption == Group \in Nat \ {0}

Base == 2 ^ Group
Byte == 0 .. 2 * Base - 1

(* The bit of a byte that says that another one follows, and the others.     *)
Continues(raw) == raw >= Base
Low(raw)       == raw % Base

(* write_varint: the low groups with the continuation bit, then the rest.    *)
WriteVarint[value \in Nat] ==
    IF value < Base THEN <<value>>
    ELSE <<(value % Base) + Base>> \o WriteVarint[value \div Base]

(* What reading an integer returns: the value and how many bytes it took, or *)
(* the error it throws.                                                      *)
Read(value, used) == [error |-> "none", value |-> value, used |-> used]
Bad(error)        == [error |-> error, value |-> 0, used |-> 0]

(* A mutant: the bits that do not fit are not looked at.                     *)
TooLargeNever(bits, raw, shift) == FALSE

(* The byte has bits that the integer type has no room for.                  *)
TooLarge(bits, raw, shift) ==
    bits - shift < Group + 1 /\ Low(raw) >= 2 ^ (bits - shift)

(* protobuf_uvarint<T> for a T of so many bits.  The loop goes over the      *)
(* bytes that may belong to a T and leaves at the first one that is too      *)
(* large, is a needless zero, or does not announce another one.              *)
Uvarint(bits, source) ==
    LET Shift(i)  == (i - 1) * Group
        bytes     == {i \in DOMAIN source : Shift(i) < bits}
        Padding(i) == source[i] = 0 /\ i > 1
        leaves    == {i \in bytes : \/ TooLarge(bits, source[i], Shift(i))
                                    \/ Padding(i)
                                    \/ ~Continues(source[i])}
        last      == Min(leaves)
        Part(i)   == Low(source[i]) * 2 ^ Shift(i)
    IN  IF leaves = {} THEN Bad("invalid_encoding")
        ELSE IF TooLarge(bits, source[last], Shift(last)) THEN Bad("smaller_integer")
        ELSE IF Padding(last) THEN Bad("invalid_encoding")
        ELSE Read(MapThenSumSet(Part, 1 .. last), last)

(* protobuf_fixed<T> for a T of so many bytes.                               *)
Fixed(size, source) ==
    LET Part(i) == source[i] * (2 * Base) ^ (i - 1)
    IN  IF Len(source) < size THEN Bad("invalid_encoding")
        ELSE Read(MapThenSumSet(Part, 1 .. size), size)

=============================================================================

------------------------------- MODULE Sha256 --------------------------------
(* The streaming part of SHA-256: a message arrives in chunks, is cut into   *)
(* blocks with the help of a buffer, and is padded at the end.  What         *)
(* SHA256_Transform computes is left out: the state of the hash is the list  *)
(* of the blocks it was given, so two states are equal only if the hashes    *)
(* have to be.                                                               *)
EXTENDS Integers, Sequences

CONSTANTS
    BlockSize,      \* bytes in a block, 64 in the code
    LengthSize,     \* bytes of the length at the end of the last, 8 in the code
    MaxMessage,     \* bound: bytes of a message
    MaxHashes       \* bound: messages hashed with the same state

ASSUME ShaAssumption ==
    /\ BlockSize \in Nat /\ LengthSize \in Nat /\ 1 <= LengthSize
    /\ LengthSize < BlockSize /\ MaxMessage \in Nat /\ MaxHashes \in Nat

VARIABLES
    state,      \* [count, buf, blocks]; blocks stands for state->state
    phase,      \* "new", "open" after init, or "final"
    hashes      \* how many messages were begun

vars == <<state, phase, hashes>>

(* The bytes of a message are told apart by their place in it and by the     *)
(* message.  Junk is a byte of a state on the stack that nobody has written. *)
Byte(i)     == <<"byte", hashes, i>>
Mark        == <<"0x80">>
Zero        == <<"0">>
Length(n,i) == <<"length", n, i>>
Junk        == <<"junk">>

Init ==
    /\ state = [count |-> 0, buf |-> [i \in 1 .. BlockSize |-> Junk], blocks |-> <<>>]
    /\ phase = "new" /\ hashes = 0

-----------------------------------------------------------------------------
(* state->buf[at + i] = bytes[i].                                            *)
Into(buf, at, bytes) ==
    [i \in 1 .. BlockSize |->
        IF i \in at + 1 .. at + Len(bytes) THEN bytes[i - at] ELSE buf[i]]

Repeat(x, n) == [i \in 1 .. n |-> x]

(* SHA256_Transform.                                                         *)
Transform(blocks, block) == Append(blocks, block)

(* crypto_hash_sha256_init: the buffer keeps what it had.                    *)
HashInit ==
    /\ phase # "open" /\ hashes < MaxHashes
    /\ state' = [count |-> 0, buf |-> state.buf, blocks |-> <<>>]
    /\ phase' = "open" /\ hashes' = hashes + 1

(* crypto_hash_sha256_update of a chunk that leaves the block unfinished.    *)
UpdateShort(in, r) ==
    /\ Len(in) < BlockSize - r
    /\ state' = [count |-> state.count + Len(in), buf |-> Into(state.buf, r, in),
                  blocks |-> state.blocks]

(* crypto_hash_sha256_update of a chunk that finishes the block: as many     *)
(* whole blocks as there are come from the chunk itself, and the rest of it  *)
(* goes to the beginning of the buffer.                                      *)
UpdateLong(in, r) ==
    /\ Len(in) >= BlockSize - r
    /\ LET full  == Into(state.buf, r, SubSeq(in, 1, BlockSize - r))
           left  == SubSeq(in, BlockSize - r + 1, Len(in))
           whole == Len(left) \div BlockSize
           Block(k) == SubSeq(left, (k - 1) * BlockSize + 1, k * BlockSize)
           rest  == SubSeq(left, whole * BlockSize + 1, Len(left))
       IN  state' = [count  |-> state.count + Len(in),
                     buf    |-> Into(full, 0, rest),
                     blocks |-> Transform(state.blocks, full)
                                    \o [k \in 1 .. whole |-> Block(k)]]

Update(n) ==
    LET in == [i \in 1 .. n |-> Byte(state.count + i)]
        r  == state.count % BlockSize
    IN  /\ phase = "open" /\ 0 < n /\ state.count + n <= MaxMessage
        /\ UpdateShort(in, r) \/ UpdateLong(in, r)
        /\ UNCHANGED <<phase, hashes>>

(* The length of the message in the last bytes of the buffer, and the last   *)
(* block.                                                                    *)
Finish(buf, blocks) ==
    LET last == Into(buf, BlockSize - LengthSize,
                     [i \in 1 .. LengthSize |-> Length(state.count, i)])
    IN  [count |-> state.count, buf |-> last, blocks |-> Transform(blocks, last)]

(* A mutant: the second block is not cleared.                                *)
PadLongStale(r) ==
    /\ r >= BlockSize - LengthSize
    /\ LET full == Into(state.buf, r, <<Mark>> \o Repeat(Zero, BlockSize - r - 1))
       IN  state' = Finish(full, Transform(state.blocks, full))

(* SHA256_Pad: the mark and the zeros up to the length, in this block or, if *)
(* there is no room for the length, in another one.                          *)
PadShort(r) ==
    /\ r < BlockSize - LengthSize
    /\ state' = Finish(Into(state.buf, r,
                    <<Mark>> \o Repeat(Zero, BlockSize - LengthSize - r - 1)), state.blocks)

PadLong(r) ==
    /\ r >= BlockSize - LengthSize
    /\ LET full == Into(state.buf, r, <<Mark>> \o Repeat(Zero, BlockSize - r - 1))
       IN  state' = Finish(Into(full, 0, Repeat(Zero, BlockSize - LengthSize)),
                           Transform(state.blocks, full))

(* crypto_hash_sha256_final.                                                 *)
Final ==
    /\ phase = "open" /\ phase' = "final"
    /\ LET r == state.count % BlockSize IN PadShort(r) \/ PadLong(r)
    /\ UNCHANGED hashes

Next == HashInit \/ Final \/ \E n \in 1 .. MaxMessage : Update(n)

Spec == Init /\ [][Next]_vars

-----------------------------------------------------------------------------
(* Properties.                                                               *)

(* The pieces, each of so many elements, are s one after the other.          *)
InPieces(s, pieces, size) ==
    /\ Len(s) = size * Len(pieces)
    /\ \A k \in 1 .. Len(pieces) :
          /\ Len(pieces[k]) = size
          /\ \A j \in 1 .. size : pieces[k][j] = s[(k - 1) * size + j]

(* The standard: the message, 0x80, as few zeros as fill a block up to its   *)
(* length field, the length.                                                 *)
Standard(n) ==
    LET zeros == (BlockSize - ((n + 1 + LengthSize) % BlockSize)) % BlockSize
    IN  [i \in 1 .. n |-> Byte(i)] \o <<Mark>> \o Repeat(Zero, zeros)
            \o [i \in 1 .. LengthSize |-> Length(n, i)]

(* The blocks of the whole message are those of the standard, and nothing    *)
(* else that the buffer had before (sha256_cp.c:243).                        *)
Digested ==
    phase = "final" => InPieces(Standard(state.count), state.blocks, BlockSize)

=============================================================================

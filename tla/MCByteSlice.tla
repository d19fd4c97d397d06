----------------------------- MODULE MCByteSlice -----------------------------
(* ByteSlice for TLC.  Addresses and objects are interchangeable.            *)
EXTENDS ByteSlice, TLC

CONSTANTS b1, b2, b3, s1, s2, x, y

MCPieces == {<<1>>, <<2, 1>>}

Symmetric == Permutations({b1, b2, b3}) \union Permutations({s1, s2})
                \union Permutations({x, y})

=============================================================================

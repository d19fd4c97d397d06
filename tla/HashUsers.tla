------------------------------ MODULE HashUsers ------------------------------
(* What macer makes of SHA-256: the checksum and the words of bip39::encode, *)
(* and the path of the key of an identity.  Both call crypto_hash_sha256,    *)
(* which hashes a message in one go; the streaming calls of Sha256 stand for *)
(* any other use of the functions.                                           *)
EXTENDS Sha256, Bip39, KeyPath, FiniteSets

VARIABLES
    user,     \* what runs: "none", "words" (hashing, writing), "path"
    size,     \* bytes it hashes
    in,       \* bip39::encode: the bytes and the first of their hash
    i,        \* bip39::encode: the loop
    words,    \* bip39::encode: what is written so far
    path      \* address_n of the request

userVars == <<user, size, in, i, words, path>>
allVars  == <<vars, userVars>>

Space == <<"space">>

(* Byte k of the hash of the message; two hashes are equal only if the       *)
(* blocks they are made of are.                                              *)
HashByte(k) == <<"hash", state.blocks, k>>

UsersInit ==
    /\ Init
    /\ user = "none" /\ size = 0 /\ in = <<>> /\ i = 0 /\ words = <<>> /\ path = <<>>

-----------------------------------------------------------------------------
OtherUse == user = "none" /\ Next /\ UNCHANGED userVars

(* crypto_hash_sha256 of n bytes on its way.                                 *)
Begin(who, n) ==
    /\ user = "none" /\ HashInit
    /\ user' = who /\ size' = n
    /\ UNCHANGED <<i, words, path>>

HashAll ==
    /\ user # "none" /\ phase = "open"
    /\ \/ state.count < size /\ Update(size)
       \/ state.count = size /\ Final
    /\ UNCHANGED userVars

Refuse ==
    /\ user = "none" /\ phase # "open"
    /\ \E n \in 0..MaxMessage : ~Encodable(n) /\ size' = n
    /\ user' = "refused"
    /\ UNCHANGED <<vars, in, i, words, path>>

Encode ==
    \E n \in 0..MaxMessage :
        /\ Encodable(n) /\ Begin("words", n)
        /\ in' = [k \in 1..n |-> Byte(k)']

AddChecksum ==
    /\ user = "words" /\ phase = "final" /\ Len(in) = size
    /\ in' = Append(in, HashByte(1))
    /\ UNCHANGED <<vars, user, size, i, words, path>>

Writing == user = "words" /\ Len(in) > size

(* A word, and a space unless it is the last.                                *)
WriteWord ==
    /\ Writing
    /\ LET count == WordCount(Len(in) - 1) IN
         /\ i < count
         /\ words' = words \o <<Index(in, i)>>
                           \o (IF i = count - 1 THEN <<>> ELSE <<Space>>)
         /\ i' = i + 1
    /\ UNCHANGED <<vars, user, size, in, path>>

GetPath == /\ \E n \in 1..MaxMessage : Begin("path", n)
           /\ UNCHANGED in

FillPath ==
    /\ user = "path" /\ phase = "final" /\ path = <<>>
    /\ path' = AddressN([k \in 1..32 |-> HashByte(k)])
    /\ UNCHANGED <<vars, user, size, in, i, words>>

UsersNext == \/ OtherUse \/ HashAll
             \/ Refuse \/ Encode \/ AddChecksum \/ WriteWord
             \/ GetPath \/ FillPath

UsersSpec == UsersInit /\ [][UsersNext]_allVars

-----------------------------------------------------------------------------
(* Properties.                                                               *)

(* A phrase that is complete is that of the standard: words with single      *)
(* spaces between them whose bits are those of the entropy and, for each 32  *)
(* of them, one of the hash of exactly this entropy; none is cut off or used *)
(* twice.                                                                    *)
Written == Writing /\ i = WordCount(size)

PhraseIsStandard ==
    Written =>
        LET odd     == [k \in 1..((Len(words) + 1) \div 2) |-> words[2 * k - 1]]
            entropy == [n \in 1..(8 * size) |-> <<Byte((n - 1) \div 8 + 1), (n - 1) % 8>>]
            check   == [n \in 1..(size \div 4) |-> <<HashByte(1), n - 1>>]
        IN  /\ InPieces(entropy \o check, odd, 11)
            /\ state.count = size
            /\ Len(words) % 2 = 1
            /\ \A k \in 1..Len(words) : k % 2 = 0 <=> words[k] = Space

(* Two identities share a key only if their hashes agree in 124 of the first *)
(* 128 bits: each of those bits is at one place of the path, which has five  *)
(* hardened numbers, the first one 17.                                       *)
PathKeepsDigest ==
    path # <<>> =>
        LET Places(bit) == {p \in (1..5) \X (0..31) : path[p[1]][p[2]] = bit}
        IN  /\ Len(path) = 5 /\ \A k \in 1..5 : path[k][31] = On
            /\ {b \in 0..30 : path[1][b] = On} = {0, 4}
            /\ \A k \in 1..16, b \in 0..7 :
                 Cardinality(Places(HashBit(HashByte(k), b)))
                     = IF k % 4 = 0 /\ b = 7 THEN 0 ELSE 1

=============================================================================

CONSTANTS
    BlockSize = 8
    LengthSize = 2
    MaxMessage = 33
    MaxHashes = 2
SPECIFICATION UsersSpec
INVARIANT Digested
INVARIANT PhraseIsStandard
INVARIANT PathKeepsDigest
CHECK_DEADLOCK FALSE

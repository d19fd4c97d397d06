CONSTANTS
    Group = 4
    MaxDepth = 4
    TagBits = 7
    SizeBits = 9
    Fixed32Size = 1
    Fixed64Size = 2
    KeySize = 2
    SignatureSize = 2
    Cases <- MCCases
    Arrivals <- MCArrivals
SPECIFICATION WireSpec
INVARIANT SpansNest
INVARIANT WritesExactly
INVARIANT ReadsExactly
INVARIANT RoundTrip
CHECK_DEADLOCK FALSE

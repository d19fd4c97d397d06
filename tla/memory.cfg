CONSTANTS
    b1 = b1
    b2 = b2
    b3 = b3
    s1 = s1
    s2 = s2
    x = x
    y = y
    Blocks = {b1, b2, b3}
    None = None
    Streams = {s1, s2}
    Slices = {x, y}
    Pieces <- MCPieces
    HeaderSize = 2
    MaxSize = 5
    MinimumIncrease = 1
    MaxWritten = 3
    PageSize = 1
SPECIFICATION Spec
SYMMETRY Symmetric
INVARIANT Counted
INVARIANT Immutable
INVARIANT StreamHolds
CHECK_DEADLOCK FALSE

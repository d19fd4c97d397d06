CONSTANTS
    Letters = {"a"}
    MaxPassword = 3
    MaxLine = 2
    MaxAsks = 2
SPECIFICATION Spec
INVARIANT AnyKeyEndsPause
CHECK_DEADLOCK FALSE

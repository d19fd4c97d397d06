CONSTANTS
    Objects = {o1, o2, o3}
    Values = {v1, v2}
    Gone = Gone
    Errors = {e1, invalid}
    ZeroCodes = {ok, zero}
    Success = ok
    InvalidErrorCode = invalid
    Raw = Raw
SPECIFICATION Spec
INVARIANT EachValueDestroyedOnce
INVARIANT EqualIsSameResult
PROPERTY ImplementsResult

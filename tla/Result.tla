------------------------------- MODULE Result --------------------------------
(* What src/expect.hpp promises of a set of expect objects: each one that    *)
(* exists is a value or an error, it is made from what its constructor is    *)
(* given, and after that it changes only by what is handed on to it, taken   *)
(* from it or failed on it.  "called" names the last call, its object and    *)
(* its operand, so that what a call does is compared with what it should do. *)
CONSTANTS Objects, Values, Errors, ZeroCodes, InvalidErrorCode, Gone

VARIABLES
    result,     \* Absent, a value (Gone when it was moved away), or an error
    called      \* the last call

Absent     == [is |-> "absent"]
Value(v)   == [is |-> "value", value |-> v]
Error(e)   == [is |-> "error", error |-> e]
IsValue(r) == r.is = "value"

Init == result = [o \in Objects |-> Absent] /\ called = <<>>

Become(o, r) == result' = [result EXCEPT ![o] = r]

Call(name, o, operand) == called' = <<name, o, operand>>

(* A new object is the value or the error it is given; a code that stands    *)
(* for no error gives the one error there is for that.                       *)
Make(o) ==
    /\ result[o] = Absent
    /\ \/ \E v \in Values : Call("value", o, v) /\ Become(o, Value(v))
       \/ \E e \in Errors : Call("error", o, e) /\ Become(o, Error(e))
       \/ \E c \in ZeroCodes :
            Call("error", o, c) /\ Become(o, Error(InvalidErrorCode))

Copy(o, p) ==
    /\ o # p /\ result[p] # Absent
    /\ Call("copy", o, p) /\ Become(o, result[p])

Moved(r) == IF IsValue(r) THEN Value(Gone) ELSE r

Move(o, p) ==
    /\ o # p /\ result[p] # Absent
    /\ Call("move", o, p)
    /\ result' = [result EXCEPT ![o] = result[p], ![p] = Moved(@)]

(* The owner takes the value, or the copy of a value onto this one fails.    *)
Spoil(o, p) ==
    /\ IsValue(result[o])
    /\ IF o = p THEN Call("take", o, p)
       ELSE IsValue(result[p]) /\ Call("fail", o, p)
    /\ Become(o, Value(Gone))

Drop(o) == result[o] # Absent /\ Call("destroy", o, o) /\ Become(o, Absent)

Next == \/ \E o \in Objects : Make(o) \/ Drop(o)
        \/ \E o, p \in Objects : Copy(o, p) \/ Move(o, p) \/ Spoil(o, p)

Spec == Init /\ [][Next]_<<result, called>>

=============================================================================

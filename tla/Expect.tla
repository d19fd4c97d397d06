------------------------------- MODULE Expect --------------------------------
(* expect<T> of src/expect.hpp: an error code, and storage in which a T may  *)
(* have been constructed by hand.  There is a T to destroy exactly when the  *)
(* code says so; nothing but the order of the statements keeps the two       *)
(* together when objects are copied, moved and assigned and a copy throws.   *)
(* The moves of T do not throw, as for every T the program uses.             *)
EXTENDS Integers, FiniteSets

CONSTANTS
    Objects,     \* places for an expect object
    Values,      \* values of T
    Gone,        \* what is left of a T: moved from, or a copy onto it failed
    Errors,      \* error codes whose value is not 0
    ZeroCodes,   \* error codes whose value is 0, Success among them
    Success,     \* the code std::error_code{}
    InvalidErrorCode,
    Raw          \* storage without a T

ASSUME ExpectAssumption ==
    /\ IsFiniteSet(Objects)
    /\ Success \in ZeroCodes /\ InvalidErrorCode \in Errors
    /\ ZeroCodes \intersect Errors = {}
    /\ Gone \notin Values /\ Raw \notin Values \union {Gone}

VARIABLES
    exists,      \* the objects whose constructor is over and destructor not begun
    code,        \* code_
    storage,     \* storage_
    alive,       \* history: how many more Ts were constructed than destroyed
    called       \* history: the last call, its object and its operand

vars == <<exists, code, storage, alive, called>>

HasError(o) == code[o] \notin ZeroCodes
HasValue(o) == ~HasError(o)

Init ==
    /\ exists = {}
    /\ code = [o \in Objects |-> Success] /\ storage = [o \in Objects |-> Raw]
    /\ alive = 0 /\ called = <<>>

(* The calls are told apart by what a caller asks for: whether o is assigned *)
(* or constructed is no part of it.                                          *)
Call(name, o, operand) == called' = <<name, o, operand>>

-----------------------------------------------------------------------------
(* new (addressof(storage_)) T{...}, and the code afterwards.                *)
Store(o, value) ==
    /\ code' = [code EXCEPT ![o] = Success]
    /\ storage' = [storage EXCEPT ![o] = value]
    /\ alive' = alive + 1

Create(o) == o \notin exists /\ exists' = exists \union {o}

(* expect(std::error_code): an error in any case.                            *)
FromError(o) ==
    /\ Create(o)
    /\ \E c \in Errors \union ZeroCodes :
         /\ Call("error", o, c)
         /\ code' = [code EXCEPT ![o] = IF c \in ZeroCodes THEN InvalidErrorCode ELSE c]
    /\ UNCHANGED <<storage, alive>>

FromValue(o) == Create(o) /\ \E v \in Values : Call("value", o, v) /\ Store(o, v)

(* A constructor that throws leaves no object, so nothing changes: that is   *)
(* why a copy that fails has no action of its own here.                      *)
CopyFrom(o, src) ==
    /\ Create(o) /\ src \in exists /\ Call("copy", o, src)
    /\ \/ HasValue(src) /\ Store(o, storage[src])
       \/ /\ HasError(src)
          /\ code' = [code EXCEPT ![o] = code[src]]
          /\ UNCHANGED <<storage, alive>>

MoveFrom(o, src) ==
    /\ Create(o) /\ src \in exists /\ Call("move", o, src)
    /\ \/ /\ HasValue(src)
          /\ code' = [code EXCEPT ![o] = Success]
          /\ storage' = [storage EXCEPT ![o] = storage[src], ![src] = Gone]
          /\ alive' = alive + 1
       \/ /\ HasError(src)
          /\ code' = [code EXCEPT ![o] = code[src]]
          /\ UNCHANGED <<storage, alive>>

(* get().~T(); the memory is not touched.                                    *)
DestroyValue(o) ==
    /\ storage' = [storage EXCEPT ![o] = Raw]
    /\ alive' = alive - 1

Destroy(o) ==
    /\ o \in exists /\ exists' = exists \ {o} /\ Call("destroy", o, o)
    /\ code' = [code EXCEPT ![o] = Success]
    /\ \/ HasValue(o) /\ DestroyValue(o)
       \/ HasError(o) /\ UNCHANGED <<storage, alive>>

Assigning(o, src) == o # src /\ {o, src} \subseteq exists /\ UNCHANGED exists

TakeCode(o, src) == code' = [code EXCEPT ![o] = code[src]]

(* The branches of both assignments in which the other side has an error.    *)
DropValue(o, src) ==
    /\ HasValue(o) /\ HasError(src)
    /\ DestroyValue(o) /\ TakeCode(o, src)

(* Mutant of KeepError: the error that is there stays.                       *)
KeepOwnError(o, src) ==
    /\ HasError(o) /\ HasError(src)
    /\ UNCHANGED <<code, storage, alive>>

KeepError(o, src) ==
    /\ HasError(o) /\ HasError(src)
    /\ TakeCode(o, src)
    /\ UNCHANGED <<storage, alive>>

CopyAssign(o, src) ==
    /\ Assigning(o, src) /\ Call("copy", o, src)
    /\ \/ /\ HasValue(o) /\ HasValue(src)
          /\ storage' = [storage EXCEPT ![o] = storage[src]]
          /\ TakeCode(o, src) /\ UNCHANGED alive
       \/ DropValue(o, src) \/ KeepError(o, src)
       \/ HasError(o) /\ HasValue(src) /\ Store(o, storage[src])

(* The copy of the T throws.  Onto another T it leaves one that is good for  *)
(* nothing but destruction and assignment; into raw storage it leaves        *)
(* nothing, and the error stays what it was.                                 *)
CopyAssignThrows(o, src) ==
    /\ Assigning(o, src) /\ Call("fail", o, src)
    /\ HasValue(o) /\ HasValue(src)
    /\ storage' = [storage EXCEPT ![o] = Gone]
    /\ UNCHANGED <<code, alive>>

(* Mutant of MoveAssign: a T is constructed over the one that is there.      *)
MoveAssignOver(o, src) ==
    /\ Assigning(o, src) /\ Call("move", o, src)
    /\ \/ /\ HasValue(src)
          /\ storage' = [storage EXCEPT ![o] = storage[src], ![src] = Gone]
          /\ alive' = alive + 1 /\ TakeCode(o, src)
       \/ DropValue(o, src) \/ KeepError(o, src)

MoveAssign(o, src) ==
    /\ Assigning(o, src) /\ Call("move", o, src)
    /\ \/ /\ HasValue(src)
          /\ storage' = [storage EXCEPT ![o] = storage[src], ![src] = Gone]
          /\ alive' = IF HasValue(o) THEN alive ELSE alive + 1
          /\ TakeCode(o, src)
       \/ DropValue(o, src) \/ KeepError(o, src)

(* operator* or value() whose result the caller moves from.                  *)
MoveOut(o) ==
    /\ o \in exists /\ HasValue(o) /\ Call("take", o, o)
    /\ storage' = [storage EXCEPT ![o] = Gone]
    /\ UNCHANGED <<exists, code, alive>>

Next ==
    \/ \E o \in Objects : FromError(o) \/ FromValue(o) \/ Destroy(o) \/ MoveOut(o)
    \/ \E o, src \in Objects :
         \/ CopyFrom(o, src) \/ MoveFrom(o, src)
         \/ CopyAssign(o, src) \/ CopyAssignThrows(o, src) \/ MoveAssign(o, src)

Spec == Init /\ [][Next]_vars

-----------------------------------------------------------------------------
(* equal with another expect, and with a code.                               *)
(* Mutant of Equal: the codes alone are compared.                            *)
EqualCodes(o, p) == code[o] = code[p]

Equal(o, p) == IF HasValue(o) /\ HasValue(p) THEN storage[o] = storage[p]
               ELSE code[o] = code[p]

EqualCode(o, c) == HasError(o) /\ code[o] = c

-----------------------------------------------------------------------------
(* Properties.                                                               *)

Holders == {o \in exists : HasValue(o)}

(* As many Ts are alive as there are objects that will destroy one, and each *)
(* of those has one: nothing is lost, destroyed twice or used unconstructed. *)
EachValueDestroyedOnce ==
    /\ \A o \in exists : HasValue(o) <=> storage[o] # Raw
    /\ \A o \in Objects \ exists : storage[o] = Raw
    /\ alive = Cardinality(Holders)

AsResult(o) == IF o \notin exists THEN [is |-> "absent"]
               ELSE IF HasValue(o) THEN [is |-> "value", value |-> storage[o]]
               ELSE [is |-> "error", error |-> code[o]]

Results == INSTANCE Result WITH result <- [o \in Objects |-> AsResult(o)]

(* Objects are values or errors that are handed on as they are (the comment  *)
(* of the class, expect.hpp:99): after each call its object is what that     *)
(* call's operand was, a moved value alone is gone, and no other object is   *)
(* any different.                                                            *)
ImplementsResult == Results!Spec

(* expect.hpp:312: equal exactly if both have the same value or the same     *)
(* error; and a default error_code equals no object at all (expect.hpp:114). *)
EqualIsSameResult ==
    \A o, p \in exists :
        /\ Equal(o, p) <=> AsResult(o) = AsResult(p)
        /\ \A c \in ZeroCodes : ~EqualCode(o, c)

=============================================================================

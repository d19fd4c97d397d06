------------------------------ MODULE ByteSlice ------------------------------
(* byte_slice: portions of reference-counted blocks, which are filled from   *)
(* spans or taken over from a byte_stream and do not change afterwards.  The *)
(* operations that return a slice are modelled with the assignment of what   *)
(* they return to a variable, as in `secret = secret->get_slice(...)`.       *)
(* Left out: take_buffer, which nothing calls, and the constructor from a    *)
(* container, whose callers are commented out.                               *)
EXTENDS ByteStream, FiniteSets

CONSTANTS
    Slices,         \* the byte_slice objects
    PageSize        \* page_size: smaller remainders are not given back

(* The sizes of the spans a slice is made from add up to a size_t: beyond    *)
(* that the constructor throws when it has copied what fits.                 *)
ASSUME SliceAssumption ==
    /\ IsFiniteSet(Slices) /\ PageSize \in Nat
    /\ MaxWritten <= MaxSize

VARIABLES
    slice,      \* storage_, and portion_: its pointer as [block, at], its size
    text        \* what each slice was made of

vars == <<heap, stream, content, slice, text>>

EmptySlice == [storage |-> None, block |-> None, at |-> 0, size |-> 0]

Portion(storage, at, size) ==
    [storage |-> storage, block |-> storage, at |-> at, size |-> size]

Init ==
    /\ StreamInit
    /\ slice = [i \in Slices |-> EmptySlice]
    /\ text = [i \in Slices |-> <<>>]

-----------------------------------------------------------------------------
(* ++ref_count.                                                              *)
Hold(h, b) == IF b = None THEN h ELSE [h EXCEPT ![b].count = @ + 1]

(* release_byte_slice::call: the last one frees the block.                   *)
Release(h, b) ==
    IF b = None THEN h
    ELSE IF h[b].count = 1 THEN Without(h, b)
    ELSE [h EXCEPT ![b].count = @ - 1]

(* operator= with a temporary: the storage the variable had is released when *)
(* the temporary already holds its own.                                      *)
Assign(to, new, bytes, h) ==
    /\ slice' = [slice EXCEPT ![to] = new]
    /\ text' = [text EXCEPT ![to] = bytes]
    /\ heap' = Release(h, slice[to].storage)

(* The constructor from spans, here two of them.  Nothing is allocated for   *)
(* no bytes at all.  Without memory it throws, and nothing is assigned.      *)
FromSpans(to, p, q) ==
    LET bytes == p \o q IN
    /\ Len(bytes) <= MaxWritten
    /\ \/ /\ bytes # <<>> /\ Resizable(Len(bytes))
          /\ \E b \in Blocks \ Used :
                Assign(to, Portion(b, 0, Len(bytes)), bytes,
                       With(b, [bytes |-> bytes, count |-> 1]))
       \/ bytes = <<>> /\ Assign(to, EmptySlice, <<>>, heap)
    /\ UNCHANGED <<stream, content>>

(* The constructor from a stream, which gives its buffer away.  If it is     *)
(* much larger than what was written, it is shrunk, and may move.            *)
FromStream(to, s, shrink) ==
    /\ Size(s) > 0
    /\ LET b == stream[s].buffer IN
       \/ /\ shrink /\ PageSize <= Space(s)
          /\ \E c \in Targets(b) :
                LET rest == Without(heap, b)
                    new  == [bytes |-> Resized(b, Size(s)), count |-> 1]
                IN  Assign(to, Portion(c, 0, Size(s)), content[s],
                           [d \in DOMAIN rest \union {c} |-> IF d = c THEN new ELSE rest[d]])
       \/ /\ ~(shrink /\ PageSize <= Space(s))
          /\ Assign(to, Portion(b, 0, Size(s)), content[s], [heap EXCEPT ![b].count = 1])
    /\ stream' = [stream EXCEPT ![s] = Empty]
    /\ content' = [content EXCEPT ![s] = <<>>]

(* A stream without bytes is left alone, with the buffer it may have.        *)
FromEmptyStream(to, s) ==
    /\ Size(s) = 0
    /\ Assign(to, EmptySlice, <<>>, heap)
    /\ UNCHANGED <<stream, content>>

(* There is no memory to shrink the buffer: it is lost, and nothing is       *)
(* assigned.                                                                 *)
FromStreamFails(s) ==
    /\ Size(s) > 0 /\ PageSize <= Space(s)
    /\ heap' = Free(heap, stream[s].buffer)
    /\ stream' = [stream EXCEPT ![s] = Empty]
    /\ content' = [content EXCEPT ![s] = <<>>]
    /\ UNCHANGED <<slice, text>>

Clone(from, to) ==
    /\ Assign(to, slice[from], text[from], Hold(heap, slice[from].storage))
    /\ UNCHANGED <<stream, content>>

(* A mutant: the range is counted from the beginning of the block.           *)
GetSliceFromBlock(from, to, begin, end) ==
    /\ begin <= end /\ end <= slice[from].size
    /\ begin < end
    /\ Assign(to, Portion(slice[from].storage, begin, end - begin),
              SubSeq(text[from], begin + 1, end), Hold(heap, slice[from].storage))
    /\ UNCHANGED <<stream, content>>

(* get_slice of a range that exists; it throws for any other.                *)
GetSlice(from, to, begin, end) ==
    /\ begin <= end /\ end <= slice[from].size
    /\ \/ /\ begin = end
          /\ Assign(to, EmptySlice, <<>>, heap)
       \/ /\ begin < end
          /\ Assign(to, Portion(slice[from].storage, slice[from].at + begin, end - begin),
                    SubSeq(text[from], begin + 1, end), Hold(heap, slice[from].storage))
    /\ UNCHANGED <<stream, content>>

(* The move assignment.  The source gives its storage away before the one of *)
(* the target is released; moving a slice to itself keeps its bytes.         *)
Move(from, to) ==
    /\ from # to
    /\ slice' = [slice EXCEPT ![to] = slice[from], ![from] = EmptySlice]
    /\ text' = [text EXCEPT ![to] = text[from], ![from] = <<>>]
    /\ heap' = Release(heap, slice[to].storage)
    /\ UNCHANGED <<stream, content>>

(* remove_prefix of a portion.  An empty one still points behind its bytes.  *)
Removed(portion, n) == [portion EXCEPT !.at = @ + n, !.size = @ - n]

(* remove_prefix: a slice without bytes lets its storage go.                 *)
RemovePrefix(i, max) ==
    LET n    == Min({max, slice[i].size})
        left == Removed(slice[i], n)
    IN  /\ text' = [text EXCEPT ![i] = SubSeq(@, n + 1, Len(@))]
        /\ \/ /\ left.size = 0
              /\ slice' = [slice EXCEPT ![i] = [left EXCEPT !.storage = None]]
              /\ heap' = Release(heap, left.storage)
           \/ /\ left.size > 0
              /\ slice' = [slice EXCEPT ![i] = left]
              /\ UNCHANGED heap
        /\ UNCHANGED <<stream, content>>

(* A mutant: both slices have the storage, which is counted once.            *)
TakeSliceUncounted(from, to, max) ==
    LET n    == Min({max, slice[from].size})
        left == Removed(slice[from], n)
        out  == [slice[from] EXCEPT !.size = n]
    IN  /\ from # to /\ max > 0
        /\ slice' = [slice EXCEPT ![from] = left, ![to] = out]
        /\ heap' = Release(heap, slice[to].storage)
        /\ text' = [text EXCEPT ![from] = SubSeq(@, n + 1, Len(@)),
                                ![to] = SubSeq(text[from], 1, n)]
        /\ UNCHANGED <<stream, content>>

(* take_slice: the first bytes as a slice of their own, which gets the       *)
(* storage itself if no bytes are left, and otherwise shares it.             *)
TakeSlice(from, to, max) ==
    LET n    == Min({max, slice[from].size})
        left == Removed(slice[from], n)
        out  == [slice[from] EXCEPT !.size = n]
    IN  /\ from # to /\ max > 0
        /\ \/ /\ left.size = 0
              /\ slice' = [slice EXCEPT ![from] = [left EXCEPT !.storage = None],
                                        ![to] = out]
              /\ heap' = Release(heap, slice[to].storage)
           \/ /\ left.size > 0
              /\ slice' = [slice EXCEPT ![from] = left, ![to] = out]
              /\ heap' = Release(Hold(heap, slice[from].storage), slice[to].storage)
        /\ text' = [text EXCEPT ![from] = SubSeq(@, n + 1, Len(@)),
                                ![to] = SubSeq(text[from], 1, n)]
        /\ UNCHANGED <<stream, content>>

(* ~byte_slice, or the assignment of nullptr.                                *)
Drop(i) ==
    /\ Assign(i, EmptySlice, <<>>, heap)
    /\ UNCHANGED <<stream, content>>

SliceNext ==
    \/ \E s \in Streams : FromStreamFails(s)
    \/ \E to \in Slices :
        \/ Drop(to)
        \/ \E n \in 0 .. slice[to].size + 1 : RemovePrefix(to, n)
        \/ \E p, q \in Pieces \union {<<>>} : FromSpans(to, p, q)
        \/ \E s \in Streams :
            FromEmptyStream(to, s) \/ \E shrink \in BOOLEAN : FromStream(to, s, shrink)
        \/ \E from \in Slices :
            \/ Clone(from, to) \/ Move(from, to)
            \/ \E n \in 0 .. slice[from].size + 1 : TakeSlice(from, to, n)
            \/ \E m, n \in 0 .. slice[from].size : GetSlice(from, to, m, n)

Next ==
    \/ StreamNext /\ UNCHANGED <<slice, text>>
    \/ SliceNext

Spec == Init /\ [][Next]_vars

-----------------------------------------------------------------------------
(* Properties.                                                               *)

Holders(b) == Cardinality({i \in Slices : slice[i].storage = b})
Writers(b) == {s \in Streams : stream[s].buffer = b}

(* Every block in use has either one stream or as many slices as it counts,  *)
(* those with bytes: nothing is lost, kept too long, freed too early or      *)
(* freed twice (byte_slice.cpp:57).                                          *)
Counted ==
    /\ \A i \in Slices : slice[i].storage # None <=> slice[i].size > 0
    /\ \A b \in Used :
         /\ heap[b].count = Holders(b)
         /\ Cardinality(Writers(b)) = IF Holders(b) > 0 THEN 0 ELSE 1

(* The bytes of a slice are those it was made of, for as long as it has them *)
(* and whatever becomes of the slices it shares them with (byte_slice.hpp:57 *)
(* "always immutable"); they were written, every one.                        *)
Immutable ==
    \A i \in Slices : slice[i].size > 0 =>
        /\ slice[i].block = slice[i].storage
        /\ slice[i].at + slice[i].size <= Len(heap[slice[i].block].bytes)
        /\ SubSeq(heap[slice[i].block].bytes, slice[i].at + 1,
                  slice[i].at + slice[i].size) = text[i]

(* A stream has what was written to it since it was last empty, inside a     *)
(* buffer of the capacity it believes it has, also after a failure           *)
(* (byte_stream.cpp:41).                                                     *)
StreamHolds ==
    \A s \in Streams :
        LET b == stream[s].buffer IN
        /\ stream[s].next <= stream[s].end
        /\ IF b = None THEN stream[s].end = 0 /\ content[s] = <<>>
           ELSE /\ Len(heap[b].bytes) = stream[s].end
                /\ SubSeq(heap[b].bytes, 1, stream[s].next) = content[s]

=============================================================================

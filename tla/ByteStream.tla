----------------------------- MODULE ByteStream ------------------------------
(* byte_stream and the byte_buffer it writes to, on a heap of blocks.  A     *)
(* block of the heap has room for the reference count of a byte_slice in     *)
(* front of its bytes, so that a slice can take it over without a copy.      *)
EXTENDS Integers, Sequences, FiniteSetsExt, SequencesExt

CONSTANTS
    Blocks,             \* the addresses malloc may return
    None,               \* the null pointer
    Streams,            \* the byte_stream objects
    Pieces,             \* what is written in one call
    HeaderSize,         \* sizeof(raw_byte_slice)
    MaxSize,            \* the largest size_t
    MinimumIncrease,    \* minimum_increase
    MaxWritten          \* bound: bytes written to a stream

Byte == 0..255

ASSUME StreamAssumption ==
    /\ None \notin Blocks /\ Pieces \subseteq Seq(Byte)
    /\ HeaderSize \in Nat /\ MinimumIncrease \in Nat /\ MaxWritten \in Nat
    /\ MaxSize \in Nat /\ HeaderSize <= MaxSize

VARIABLES
    heap,       \* the blocks in use: [bytes, count], a count of 0 without header
    stream,     \* [buffer, next, end] of each stream
    content     \* what was written to each stream since it was last empty

(* A byte nobody has written yet.                                            *)
Junk == 0

Used == DOMAIN heap

With(b, block)  == [c \in Used \union {b} |-> IF c = b THEN block ELSE heap[c]]
Without(h, b)   == [c \in (DOMAIN h) \ {b} |-> h[c]]

Empty    == [buffer |-> None, next |-> 0, end |-> 0]
Size(s)  == stream[s].next
Space(s) == stream[s].end - stream[s].next

(* ~byte_buffer: release_byte_buffer.                                        *)
Free(h, b) == IF b = None THEN h ELSE Without(h, b)

(* byte_buffer_resize can ask realloc for this many bytes.                   *)
Resizable(length) == length <= MaxSize - HeaderSize

Resized(b, length) ==
    [i \in 1 .. length |->
        IF b # None /\ i <= Len(heap[b].bytes) THEN heap[b].bytes[i] ELSE Junk]

(* realloc keeps the address or moves the bytes to another block.            *)
Targets(b) == {b} \union (Blocks \ Used)

(* By how much overflow raises the capacity.                                 *)
Increase(s, requested) ==
    Max({requested - Space(s), stream[s].end, MinimumIncrease})

StreamInit ==
    /\ heap = [b \in {} |-> Junk]
    /\ stream = [s \in Streams |-> Empty]
    /\ content = [s \in Streams |-> <<>>]

-----------------------------------------------------------------------------
(* The stream has room for a number of bytes, at once or after overflow: its *)
(* bytes are then in block b of a heap h, up to capacity end.                *)
Put(s, h, b, end, piece) ==
    LET bytes == h[b].bytes
        next  == stream[s].next
    IN  /\ heap' = [h EXCEPT ![b].bytes =
                [i \in DOMAIN bytes |->
                    IF i \in next + 1 .. next + Len(piece) THEN piece[i - next]
                    ELSE bytes[i]]]
        /\ stream' = [stream EXCEPT
                ![s] = [buffer |-> b, next |-> next + Len(piece), end |-> end]]
        /\ content' = [content EXCEPT ![s] = @ \o piece]

(* write, put, put_n and put_unsafe with room in the buffer.                 *)
Write(s, piece) ==
    /\ Len(piece) > 0 /\ Space(s) >= Len(piece)
    /\ Put(s, heap, stream[s].buffer, stream[s].end, piece)

(* overflow of reserve, or of one of the functions that write, which then    *)
(* writes: the buffer is resized to a larger capacity.                       *)
Overflow(s, requested, piece) ==
    /\ Space(s) < requested
    /\ Size(s) + requested <= MaxWritten
    /\ LET b   == stream[s].buffer
           end == stream[s].end + Increase(s, requested)
       IN  /\ end <= MaxSize /\ Resizable(end)
           /\ \E c \in Targets(b) \ {None} :
                LET block == [bytes |-> Resized(b, end), count |-> 0]
                    rest  == Free(heap, b)
                IN  Put(s, [d \in DOMAIN rest \union {c} |->
                                IF d = c THEN block ELSE rest[d]], c, end, piece)

(* A mutant: the pointers into the lost buffer are kept.                     *)
OverflowFailsStale(s, requested) ==
    /\ Space(s) < requested
    /\ Size(s) + requested <= MaxWritten
    /\ heap' = Free(heap, stream[s].buffer)
    /\ stream' = [stream EXCEPT ![s].buffer = None]
    /\ content' = [content EXCEPT ![s] = <<>>]

(* overflow throws: the new capacity is no size_t, or there is no memory.    *)
(* The buffer is gone with what was in it, and the stream is an empty one.   *)
OverflowFails(s, requested) ==
    /\ Space(s) < requested
    /\ Size(s) + requested <= MaxWritten
    /\ heap' = Free(heap, stream[s].buffer)
    /\ stream' = [stream EXCEPT ![s] = Empty]
    /\ content' = [content EXCEPT ![s] = <<>>]

Clear(s) ==
    /\ stream' = [stream EXCEPT ![s].next = 0]
    /\ content' = [content EXCEPT ![s] = <<>>]
    /\ UNCHANGED heap

(* The move assignment; moving a stream to itself does nothing.              *)
MoveStream(from, to) ==
    /\ from # to
    /\ heap' = Free(heap, stream[to].buffer)
    /\ stream' = [stream EXCEPT ![to] = stream[from], ![from] = Empty]
    /\ content' = [content EXCEPT ![to] = content[from], ![from] = <<>>]

(* The buffer a function got with take_buffer, or a stream, is destroyed.    *)
DropStream(s) ==
    /\ stream[s].buffer # None
    /\ heap' = Free(heap, stream[s].buffer)
    /\ stream' = [stream EXCEPT ![s] = Empty]
    /\ content' = [content EXCEPT ![s] = <<>>]

StreamNext ==
    \E s \in Streams :
        \/ \E piece \in Pieces :
            \/ Write(s, piece) \/ Overflow(s, Len(piece), piece)
            \/ Overflow(s, Len(piece), <<>>) \/ OverflowFails(s, Len(piece))
        \/ Clear(s) \/ DropStream(s)
        \/ \E to \in Streams : MoveStream(s, to)

=============================================================================

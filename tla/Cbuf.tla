------------------------------------ MODULE Cbuf ------------------------------------
(***************************************************************************)
(* kern/cbuf.c: circular buffers.  Indexes are absolute: they grow and     *)
(* overflow, start close to the overflow, and are reduced modulo the       *)
(* capacity when the buffer is accessed.  What the buffer promises is the  *)
(* history variable queue: the last bytes written, at most its capacity.   *)
(***************************************************************************)
EXTENDS Integers, Sequences, FiniteSets

CONSTANTS
    Byte,
    Capacity,   \* a power of two
    IndexRange, \* 2^w for w bits in a size_t, a multiple of the capacity
    InitIndex,  \* CBUF_INIT_INDEX
    Sizes,      \* the sizes of the data that is pushed or written
    None        \* the contents of memory that was never written

VARIABLES
    cbuf,       \* struct cbuf
    queue       \* history: what the buffer should hold

cvars == <<cbuf, queue>>

CTypeOK ==
    /\ cbuf \in [buf : [0..(Capacity - 1) -> Byte \cup {None}],
                 start : 0..(IndexRange - 1), end : 0..(IndexRange - 1)]
    /\ queue \in Seq(Byte) /\ Len(queue) <= Capacity

CInit ==
    /\ cbuf = [buf |-> [i \in 0..(Capacity - 1) |-> None],
               start |-> InitIndex, end |-> InitIndex]
    /\ queue = <<>>

Plus(i, n) == (i + n) % IndexRange
Minus(i, j) == (i - j) % IndexRange
Least(m, n) == IF m < n THEN m ELSE n

cbuf_index(index) == index % Capacity
cbuf_size(c) == Minus(c.end, c.start)

cbuf_range_valid(c, start, end) ==
    /\ Minus(end, start) <= cbuf_size(c)
    /\ Minus(start, c.start) <= cbuf_size(c)
    /\ Minus(c.end, end) <= cbuf_size(c)

\* Broken: compares the indexes themselves.
UpdateUnlessWrapped(c) ==
    IF c.end > c.start + Capacity THEN [c EXCEPT !.start = Minus(c.end, Capacity)] ELSE c

cbuf_update_start(c) ==
    IF cbuf_size(c) > Capacity THEN [c EXCEPT !.start = Minus(c.end, Capacity)] ELSE c

(* cbuf_write(), when the index is in the buffer.  Of data that is larger  *)
(* than the buffer and extends beyond its end, the last bytes are kept.    *)
cbuf_write(c, index, bytes) ==
    LET new_end == Plus(index, Len(bytes))
        extends == ~cbuf_range_valid(c, c.start, new_end)
        skip == IF extends /\ Len(bytes) > Capacity THEN Len(bytes) - Capacity ELSE 0
        first == cbuf_index(Plus(index, skip))
        At(i) == skip + 1 + ((i - first) % Capacity)
    IN  cbuf_update_start(
            [c EXCEPT !.buf = [i \in 0..(Capacity - 1) |->
                                   IF At(i) <= Len(bytes) THEN bytes[At(i)] ELSE c.buf[i]],
                      !.end = IF extends THEN new_end ELSE @])

(* cbuf_read() of at most size bytes; none when the index is not that of a *)
(* byte of the buffer, which is an error.                                  *)
cbuf_read(c, index, size) ==
    LET length == Least(size, Minus(c.end, index)) IN
    IF ~cbuf_range_valid(c, index, Plus(index, 1)) THEN <<>>
    ELSE [i \in 1..length |-> c.buf[cbuf_index(Plus(index, i - 1))]]

--------------------------------------------------------------------------------

Suffix(s, n) == SubSeq(s, Len(s) - Least(n, Len(s)) + 1, Len(s))

(* cbuf_push(), and cbuf_pushb() for one byte. *)
cbuf_push(bytes, erase) ==
    /\ erase \/ Len(bytes) <= Capacity - cbuf_size(cbuf)
    /\ cbuf' = cbuf_write(cbuf, cbuf.end, bytes)
    /\ queue' = Suffix(queue \o bytes, Capacity)

(* cbuf_pop() and cbuf_popb(). *)
cbuf_pop(size) ==
    /\ cbuf_size(cbuf) > 0
    /\ LET bytes == cbuf_read(cbuf, cbuf.start, size) IN
       cbuf' = [cbuf EXCEPT !.start = Plus(@, Len(bytes))]
    /\ queue' = Suffix(queue, Len(queue) - Least(size, Len(queue)))

(* cbuf_write() at the index of the byte that follows the n first ones. *)
Overwrite(n, bytes) ==
    /\ n <= cbuf_size(cbuf)
    /\ cbuf' = cbuf_write(cbuf, Plus(cbuf.start, n), bytes)
    /\ queue' = Suffix(SubSeq(queue, 1, n) \o bytes
                       \o SubSeq(queue, n + Len(bytes) + 1, Len(queue)), Capacity)

cbuf_clear ==
    /\ cbuf' = [cbuf EXCEPT !.start = cbuf.end]
    /\ queue' = <<>>

CNext ==
    \/ \E size \in Sizes : \E bytes \in [1..size -> Byte] :
          \/ \E erase \in BOOLEAN : cbuf_push(bytes, erase)
          \/ \E n \in 0..Capacity : Overwrite(n, bytes)
    \/ \E size \in Sizes : cbuf_pop(size)
    \/ cbuf_clear

CSpec == CInit /\ [][CNext]_cvars

--------------------------------------------------------------------------------

(* The buffer holds the bytes written last, in order, across the overflow  *)
(* of its indexes and writes that begin before its end or exceed its       *)
(* capacity; reads return them from any index and nothing else.            *)
BufferSound ==
    /\ cbuf_size(cbuf) = Len(queue)
    /\ \A i \in 0..(IndexRange - 1), size \in Sizes :
          LET n == Minus(i, cbuf.start) IN
          cbuf_read(cbuf, i, size)
              = IF n < Len(queue) THEN SubSeq(queue, n + 1, n + Least(size, Len(queue) - n))
                ELSE <<>>
================================================================================

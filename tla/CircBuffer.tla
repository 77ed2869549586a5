----------------------------- MODULE CircBuffer -----------------------------
(***************************************************************************)
(* The circular buffer of utils/circ_buffer.c, byte by byte: an array that *)
(* wraps, with every memcpy split where the code splits it.  ByteFifo is   *)
(* what it promises.  One thread uses it (stream.c, from the main loop).   *)
(***************************************************************************)
EXTENDS Integers, Sequences

CONSTANTS
    Data,       \* the bytes
    Sizes,      \* the sizes circ_buffer_init is called with
    Requests    \* bound: the lengths of the calls; no caller asks for 0 bytes

ASSUME SizesAssumption == Sizes \subseteq Nat \ {0}
ASSUME RequestsAssumption == Requests \subseteq Nat \ {0}

VARIABLES
    buffer,     \* cb->buffer, indexed from 0; empty when malloc failed
    size,       \* cb->size
    begin,      \* cb->begin, where the oldest byte is
    end,        \* cb->end, where the next byte goes
    data_size,  \* cb->data_size
    ret,        \* what the last call returned
    buf         \* the caller's buffer: what was put, or what get or peek copied

vars == <<buffer, size, begin, end, data_size, ret, buf>>

(* memcpy of data to the array from index at on, and of n bytes from it. *)
Written(mem, at, data) ==
    [i \in DOMAIN mem |->
        IF i \in at .. at + Len(data) - 1 THEN data[i - at + 1] ELSE mem[i]]
Read(at, n) == [i \in 1..n |-> buffer[at + i - 1]]

(* circ_buffer_init.  malloc leaves arbitrary bytes, or fails, which the   *)
(* only caller (stream.c:97) does not look at.                             *)
Init ==
    /\ size \in Sizes \union {0}
    /\ buffer \in [0 .. size - 1 -> Data]
    /\ begin = 0 /\ end = 0 /\ data_size = 0
    /\ ret = IF size = 0 THEN -1 ELSE 0
    /\ buf = <<>>

Refuse ==
    /\ ret' = -1
    /\ UNCHANGED <<buffer, size, begin, end, data_size>>

PutDropsTail(data) ==   \* mutant: the part that wraps is not copied
    /\ data_size + Len(data) <= size
    /\ buffer' = Written(buffer, end, data)
    /\ end' = (end + Len(data)) % size
    /\ data_size' = data_size + Len(data)
    /\ ret' = 0
    /\ UNCHANGED <<size, begin>>

PutFit(data) ==
    LET n == Len(data)
        first == size - end     \* begin_len
    IN
    /\ data_size + n <= size
    /\ buffer' = IF end + n > size
                 THEN Written(Written(buffer, end, SubSeq(data, 1, first)),
                              0, SubSeq(data, first + 1, n))
                 ELSE Written(buffer, end, data)
    /\ end' = (end + n) % size
    /\ data_size' = data_size + n
    /\ ret' = 0
    /\ UNCHANGED <<size, begin>>

(* circ_buffer_put *)
Put(data) ==
    /\ buf' = data
    /\ PutFit(data) \/ (data_size + Len(data) > size /\ Refuse)

(* The n oldest bytes, in one memcpy or two. *)
Oldest(n) ==
    LET first == size - begin
    IN IF begin + n <= size THEN Read(begin, n)
                            ELSE Read(begin, first) \o Read(0, n - first)

Drop(n) ==
    /\ begin' = (begin + n) % size
    /\ data_size' = data_size - n

(* circ_buffer_get *)
Get(n) ==
    \/ /\ data_size - n >= 0
       /\ buf' = Oldest(n)
       /\ Drop(n)
       /\ ret' = 0
       /\ UNCHANGED <<buffer, size, end>>
    \/ data_size - n < 0 /\ Refuse /\ UNCHANGED buf

(* circ_buffer_advance *)
Advance(n) ==
    \/ /\ data_size - n >= 0
       /\ Drop(n)
       /\ ret' = 0
       /\ UNCHANGED <<buffer, size, end, buf>>
    \/ data_size - n < 0 /\ Refuse /\ UNCHANGED buf

(* circ_buffer_peek *)
Peek(n) ==
    \/ /\ data_size - n >= 0
       /\ buf' = Oldest(n)
       /\ ret' = 0
       /\ UNCHANGED <<buffer, size, begin, end, data_size>>
    \/ data_size - n < 0 /\ Refuse /\ UNCHANGED buf

(* circ_buffer_reset *)
Reset ==
    /\ begin' = 0 /\ end' = 0 /\ data_size' = 0
    /\ UNCHANGED <<buffer, size, ret, buf>>

Next ==
    \/ \E n \in Requests :
        \/ \E data \in [1..n -> Data] : Put(data)
        \/ Get(n)
        \/ Advance(n)
        \/ Peek(n)
    \/ Reset

Spec == Init /\ [][Next]_vars

-----------------------------------------------------------------------------
(* Properties. *)

(* Every variable has its type; begin and end index the array, so that no  *)
(* call starts to copy outside it.                                         *)
TypeOK ==
    /\ size \in Sizes \union {0}
    /\ buffer \in [0 .. size - 1 -> Data]
    /\ begin \in Nat /\ end \in Nat
    /\ size # 0 => begin < size /\ end < size
    /\ data_size \in 0 .. size
    /\ ret \in {0, -1}
    /\ buf \in Seq(Data)

(* The three counters agree after any sequence of calls: end is data_size  *)
(* places after begin, around the array.  begin = end is the full buffer   *)
(* and the empty one; only data_size tells them apart.                     *)
Layout ==
    end = IF begin + data_size < size THEN begin + data_size
                                      ELSE begin + data_size - size

(* The byte i places after the oldest one. *)
At(i) == buffer[IF begin + i < size THEN begin + i ELSE begin + i - size]

Queue == [i \in 1 .. data_size |-> At(i - 1)]

Fifo == INSTANCE ByteFifo WITH queue <- Queue, capacity <- size

(* Whatever the calls and wherever the array wraps, the buffer is a FIFO   *)
(* of size bytes: nothing is lost, repeated, reordered or torn, a call     *)
(* that does not fit changes nothing, and one whose allocation failed      *)
(* refuses everything.                                                     *)
ImplementsFifo == Fifo!Spec
=============================================================================

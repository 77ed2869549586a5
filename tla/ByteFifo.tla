------------------------------ MODULE ByteFifo ------------------------------
(***************************************************************************)
(* What utils/circ_buffer promises its user, without begin, end or wrap-   *)
(* around: a queue of at most capacity bytes.  A call is all or nothing:   *)
(* it returns 0 and does its whole work, or returns -1 and does nothing.   *)
(***************************************************************************)
EXTENDS Integers, Sequences

CONSTANTS
    Data,       \* the bytes
    Requests    \* bound: the lengths the user asks for

VARIABLES
    queue,      \* the bytes held, oldest first
    capacity,   \* 0 when the allocation failed
    ret,        \* what the last call returned
    buf         \* the user's buffer: what was put, or what get or peek copied

fifoVars == <<queue, capacity, ret, buf>>

Init ==
    /\ queue = <<>>
    /\ capacity \in Nat
    /\ ret = IF capacity = 0 THEN -1 ELSE 0
    /\ buf = <<>>

Refuse ==
    /\ ret' = -1
    /\ UNCHANGED <<queue, capacity>>

Put(data) ==
    /\ buf' = data
    /\ \/ /\ Len(queue) + Len(data) <= capacity
          /\ queue' = queue \o data
          /\ ret' = 0
          /\ UNCHANGED capacity
       \/ Len(queue) + Len(data) > capacity /\ Refuse

Get(n) ==
    \/ /\ n <= Len(queue)
       /\ buf' = SubSeq(queue, 1, n)
       /\ queue' = SubSeq(queue, n + 1, Len(queue))
       /\ ret' = 0
       /\ UNCHANGED capacity
    \/ n > Len(queue) /\ Refuse /\ UNCHANGED buf

Advance(n) ==
    \/ /\ n <= Len(queue)
       /\ queue' = SubSeq(queue, n + 1, Len(queue))
       /\ ret' = 0
       /\ UNCHANGED <<capacity, buf>>
    \/ n > Len(queue) /\ Refuse /\ UNCHANGED buf

Peek(n) ==
    \/ /\ n <= Len(queue)
       /\ buf' = SubSeq(queue, 1, n)
       /\ ret' = 0
       /\ UNCHANGED <<queue, capacity>>
    \/ n > Len(queue) /\ Refuse /\ UNCHANGED buf

Reset ==
    /\ queue' = <<>>
    /\ UNCHANGED <<capacity, ret, buf>>

Next ==
    \/ \E n \in Requests :
        \/ \E data \in [1..n -> Data] : Put(data)
        \/ Get(n)
        \/ Advance(n)
        \/ Peek(n)
    \/ Reset

Spec == Init /\ [][Next]_fifoVars
=============================================================================

--------------------------- MODULE StructureProofs ---------------------------
(***************************************************************************)
(* The data structures of utils/ implement what their callers take for     *)
(* granted: CircBuffer implements ByteFifo, for arrays of every size,      *)
(* calls of every length and every byte; SoftTimer implements Deadlines,   *)
(* for wheels of every size and any timers and timeouts; GenericList       *)
(* implements ListSeqs, for any heads and entries.                         *)
(***************************************************************************)
EXTENDS CircBuffer, SoftTimer, GenericList, RecursionProofs, FiniteSetTheorems

Inv == TypeOK /\ Layout

(* Where the index n places after position b of the array is.              *)
LEMMA Wrap ==
    ASSUME NEW S \in Nat \ {0}, NEW b \in 0 .. S - 1, NEW n \in 0 .. S
    PROVE  (b + n) % S = IF b + n < S THEN b + n ELSE b + n - S
  OBVIOUS

(* What the two memcpy of a put leave in the array.                        *)
LEMMA PutFacts ==
    ASSUME Inv, NEW n \in Requests, NEW data \in [1..n -> Data], PutFit(data)
    PROVE  /\ size # 0 /\ data_size + n <= size
           /\ buffer' \in [0 .. size - 1 -> Data]
           /\ \A i \in 0 .. size - 1 :
                buffer'[i] = IF end <= i /\ i < end + n THEN data[i - end + 1]
                             ELSE IF i < end + n - size THEN data[i + size - end + 1]
                             ELSE buffer[i]
<1>1. Len(data) = n /\ n \in Nat \ {0} /\ data \in Seq(Data)
  BY RequestsAssumption
<1>2. size # 0 /\ data_size + n <= size /\ size \in Nat /\ data_size \in Nat
  BY <1>1, SizesAssumption DEF PutFit, Inv, TypeOK
<1>3. end \in Nat /\ end < size /\ buffer \in [0 .. size - 1 -> Data]
  BY <1>2 DEF Inv, TypeOK
<1>4. CASE end + n <= size
  <2>1. buffer' = [i \in 0 .. size - 1 |->
            IF i \in end .. end + n - 1 THEN data[i - end + 1] ELSE buffer[i]]
    <3>1. buffer' = Written(buffer, end, data)
      BY <1>1, <1>2, <1>3, <1>4 DEF PutFit
    <3> QED BY <1>1, <1>3, <3>1 DEF Written
  <2>2. \A i \in end .. end + n - 1 : data[i - end + 1] \in Data
    BY <1>1, <1>3
  <2>3. buffer' \in [0 .. size - 1 -> Data]
    BY <1>3, <2>1, <2>2
  <2> QED BY <1>1, <1>2, <1>3, <1>4, <2>1, <2>3
<1>5. CASE end + n > size
  <2> DEFINE first == size - end
             head == SubSeq(data, 1, first)
             tail == SubSeq(data, first + 1, n)
             mid == Written(buffer, end, head)
  <2>1. first \in 1 .. n - 1 /\ n - first <= end
    BY <1>1, <1>2, <1>3, <1>5 DEF Inv, Layout, TypeOK
  <2>2. /\ Len(head) = first
        /\ \A i \in 1 .. first : head[i] = data[i]
    BY <1>1, <2>1, SubSeqProperties
  <2>3. /\ Len(tail) = n - first
        /\ \A i \in 1 .. n - first : tail[i] = data[first + i]
    BY <1>1, <2>1, SubSeqProperties
  <2>4. buffer' = Written(mid, 0, tail)
    BY <1>1, <1>2, <1>3, <1>5 DEF PutFit
  <2> HIDE DEF first, head, tail
  <2>5. mid = [i \in 0 .. size - 1 |->
            IF i \in end .. end + first - 1 THEN head[i - end + 1] ELSE buffer[i]]
    BY <1>3, <2>2 DEF Written
  <2> HIDE DEF mid
  <2>6. buffer' = [i \in 0 .. size - 1 |->
            IF i \in 0 .. n - first - 1 THEN tail[i + 1] ELSE mid[i]]
    BY <2>1, <2>3, <2>4, <2>5 DEF Written
  <2>7. first = size - end
    BY DEF first
  <2>8. ASSUME NEW i \in 0 .. size - 1
        PROVE  /\ buffer'[i] = IF end <= i /\ i < end + n THEN data[i - end + 1]
                               ELSE IF i < end + n - size THEN data[i + size - end + 1]
                               ELSE buffer[i]
               /\ buffer'[i] \in Data
    <3>1. CASE i < n - first
      <4>1. buffer'[i] = tail[i + 1] /\ tail[i + 1] = data[first + (i + 1)]
        BY <1>1, <2>1, <2>3, <2>6, <3>1
      <4>2. first + (i + 1) = i + size - end + 1 /\ first + (i + 1) \in 1..n
        BY <1>1, <1>2, <1>3, <2>1, <2>7, <3>1
      <4>3. i < end /\ i < end + n - size
        BY <1>1, <1>2, <1>3, <2>1, <2>7, <3>1
      <4> QED BY <1>1, <1>3, <4>1, <4>2, <4>3
    <3>2. CASE n - first <= i /\ i < end
      <4>1. buffer'[i] = buffer[i]
        BY <1>1, <1>3, <2>1, <2>5, <2>6, <3>2
      <4> QED BY <1>1, <1>2, <1>3, <2>7, <3>2, <4>1
    <3>3. CASE end <= i
      <4>1. buffer'[i] = mid[i]
        BY <1>1, <1>3, <2>1, <2>6, <3>3
      <4>2. mid[i] = head[i - end + 1] /\ i - end + 1 \in 1 .. first
        BY <1>1, <1>2, <1>3, <2>1, <2>5, <2>7, <3>3
      <4>3. i < end + n /\ i - end + 1 \in 1..n
        BY <1>1, <1>2, <1>3, <1>5, <3>3
      <4> QED BY <1>1, <1>3, <2>2, <3>3, <4>1, <4>2, <4>3
    <3> QED BY <1>1, <1>3, <2>1, <3>1, <3>2, <3>3
  <2>9. buffer' \in [0 .. size - 1 -> Data]
    BY <2>6, <2>8
  <2> QED BY <1>2, <2>8, <2>9
<1> QED BY <1>1, <1>2, <1>3, <1>4, <1>5

(* What the one or two memcpy of a get or a peek copy.                     *)
LEMMA OldestFacts ==
    ASSUME Inv, NEW n \in Requests, n <= data_size
    PROVE  Oldest(n) = SubSeq(Queue, 1, n) /\ Oldest(n) \in Seq(Data)
<1>1. n \in Nat \ {0} /\ data_size \in Nat /\ size \in Nat /\ data_size <= size /\ size # 0
  BY RequestsAssumption, SizesAssumption DEF Inv, TypeOK
<1>2. begin \in Nat /\ begin < size /\ buffer \in [0 .. size - 1 -> Data]
  BY <1>1 DEF Inv, TypeOK
<1>3. /\ SubSeq(Queue, 1, n) = [i \in 1..n |-> Queue[i]]
  <2>1. Queue \in Seq(Data) /\ Len(Queue) = data_size
    BY <1>1, <1>2 DEF Queue, At
  <2> QED BY <1>1, <2>1, SubSeqProperties
<1>4. SubSeq(Queue, 1, n) = [i \in 1..n |-> At(i - 1)]
  BY <1>1, <1>3 DEF Queue
<1>5. CASE begin + n <= size
  <2>1. Oldest(n) = [i \in 1..n |-> buffer[begin + i - 1]]
    BY <1>5 DEF Oldest, Read
  <2>2. \A i \in 1..n : At(i - 1) = buffer[begin + i - 1] /\ buffer[begin + i - 1] \in Data
    BY <1>1, <1>2, <1>5 DEF At
  <2> QED BY <1>1, <1>4, <2>1, <2>2
<1>6. CASE begin + n > size
  <2> DEFINE first == size - begin
             s == Read(begin, first)
             t == Read(0, n - first)
  <2>1. first \in 1 .. n - 1
    BY <1>1, <1>2, <1>6
  <2>2. Oldest(n) = s \o t
    BY <1>1, <1>2, <1>6 DEF Oldest
  <2>3. /\ s \in Seq(Data) /\ Len(s) = first
        /\ \A i \in 1 .. first : s[i] = buffer[begin + i - 1]
    BY <1>1, <1>2, <2>1 DEF Read
  <2>4. /\ t \in Seq(Data) /\ Len(t) = n - first
        /\ \A i \in 1 .. n - first : t[i] = buffer[0 + i - 1]
    BY <1>1, <1>2, <2>1 DEF Read
  <2>5. /\ s \o t \in Seq(Data) /\ Len(s \o t) = n
        /\ \A i \in 1 .. n : (s \o t)[i] = IF i <= first THEN s[i] ELSE t[i - first]
    <3> HIDE DEF s, t, first
    <3>1. first \in Nat /\ n \in Nat /\ first + (n - first) = n
      BY <1>1, <2>1
    <3>2. /\ s \o t \in Seq(Data) /\ Len(s \o t) = first + (n - first)
          /\ \A i \in 1 .. first + (n - first) :
                (s \o t)[i] = IF i <= first THEN s[i] ELSE t[i - first]
      <4>1. s \o t \in Seq(Data) /\ Len(s \o t) = Len(s) + Len(t)
        BY <2>3, <2>4, ConcatProperties
      <4>2. \A i \in 1 .. Len(s) + Len(t) :
                (s \o t)[i] = IF i <= Len(s) THEN s[i] ELSE t[i - Len(s)]
        BY <2>3, <2>4, ConcatProperties
      <4> QED BY <2>3, <2>4, <4>1, <4>2
    <3> QED BY <3>1, <3>2
  <2>6. \A i \in 1 .. n : (s \o t)[i] = At(i - 1)
    <3> SUFFICES ASSUME NEW i \in 1 .. n PROVE (s \o t)[i] = At(i - 1)
      OBVIOUS
    <3>1. CASE i <= first
      <4>1. (s \o t)[i] = buffer[begin + i - 1]
        BY <1>1, <2>1, <2>3, <2>5, <3>1
      <4> QED BY <1>1, <1>2, <3>1, <4>1 DEF At
    <3>2. CASE i > first
      <4>1. (s \o t)[i] = buffer[0 + (i - first) - 1] /\ i - first \in 1 .. n - first
        BY <1>1, <2>1, <2>4, <2>5, <3>2
      <4>2. 0 + (i - first) - 1 = begin + (i - 1) - size /\ ~(begin + (i - 1) < size)
        BY <1>1, <1>2, <3>2
      <4> QED BY <4>1, <4>2 DEF At
    <3>3. i <= first \/ i > first
      BY <2>1
    <3> QED BY <3>1, <3>2, <3>3
  <2>7. s \o t = [i \in 1..n |-> At(i - 1)]
    <3> DEFINE z == s \o t
    <3>1. z \in Seq(Data) /\ Len(z) = n /\ \A i \in 1..n : z[i] = At(i - 1)
      BY <2>5, <2>6
    <3> HIDE DEF z
    <3>2. z = [i \in 1..n |-> z[i]]
      BY <3>1
    <3>3. [i \in 1..n |-> z[i]] = [i \in 1..n |-> At(i - 1)]
      BY <3>1
    <3> QED BY <3>2, <3>3 DEF z
  <2> QED BY <1>4, <2>2, <2>5, <2>7
<1> QED BY <1>1, <1>2, <1>5, <1>6

-----------------------------------------------------------------------------
(* Type correctness and the layout. *)

(* The counters and the array keep their types, and end stays data_size    *)
(* places after begin, for every step.                                     *)
LEMMA InvInit == Init => Inv
  BY SizesAssumption DEF Init, Inv, TypeOK, Layout

(* A removal of n bytes that are there.                                    *)
LEMMA DropFacts ==
    ASSUME Inv, NEW n \in Requests, n <= data_size, Drop(n)
    PROVE  /\ size # 0 /\ n \in Nat \ {0}
           /\ begin' = IF begin + n < size THEN begin + n ELSE begin + n - size
           /\ begin' \in Nat /\ begin' < size
           /\ data_size' = data_size - n /\ data_size' \in 0 .. size
<1>1. /\ n \in Nat \ {0} /\ data_size \in Nat /\ size \in Nat
      /\ data_size <= size /\ size # 0
  BY RequestsAssumption, SizesAssumption DEF Inv, TypeOK
<1>2. begin \in Nat /\ begin < size
  BY <1>1 DEF Inv, TypeOK
<1>3. begin' = (begin + n) % size /\ data_size' = data_size - n
  BY DEF Drop
<1>4. begin' = IF begin + n < size THEN begin + n ELSE begin + n - size
  <2>1. size \in Nat \ {0} /\ begin \in 0 .. size - 1 /\ n \in 0 .. size
    BY <1>1, <1>2
  <2>2. (begin + n) % size = IF begin + n < size THEN begin + n ELSE begin + n - size
    BY <2>1, Wrap
  <2> QED BY <1>3, <2>2
<1> QED BY <1>1, <1>2, <1>3, <1>4

(* One put that fits, one removal, and every step.                         *)
LEMMA InvPut ==
    ASSUME Inv, NEW n \in Requests, NEW data \in [1..n -> Data], PutFit(data), buf' = data
    PROVE  Inv'
<1>1. /\ n \in Nat \ {0} /\ Len(data) = n /\ data \in Seq(Data)
      /\ data_size \in Nat /\ size \in Nat /\ end \in Nat /\ begin \in Nat
  BY RequestsAssumption, SizesAssumption DEF Inv, TypeOK
<1>2. /\ size # 0 /\ data_size + n <= size
      /\ buffer' \in [0 .. size - 1 -> Data]
  BY PutFacts
<1>3. end < size /\ begin < size
  BY <1>2 DEF Inv, TypeOK
<1>4. /\ end' = (end + n) % size /\ data_size' = data_size + n /\ ret' = 0
      /\ size' = size /\ begin' = begin
  BY <1>1 DEF PutFit
<1>5. end' = IF end + n < size THEN end + n ELSE end + n - size
  <2>1. size \in Nat \ {0} /\ end \in 0 .. size - 1 /\ n \in 0 .. size
    BY <1>1, <1>2, <1>3
  <2>2. (end + n) % size = IF end + n < size THEN end + n ELSE end + n - size
    BY <2>1, Wrap
  <2> QED BY <1>4, <2>2
<1>6. end' \in Nat /\ end' < size
  BY <1>1, <1>2, <1>3, <1>5
<1>7. TypeOK'
  BY <1>1, <1>2, <1>3, <1>4, <1>6 DEF Inv, TypeOK
<1>8. Layout'
  BY <1>1, <1>2, <1>3, <1>4, <1>5 DEF Inv, Layout
<1> QED BY <1>7, <1>8 DEF Inv

LEMMA InvDrop ==
    ASSUME Inv, NEW n \in Requests, n <= data_size, Drop(n), ret' = 0,
           buf' \in Seq(Data), UNCHANGED <<buffer, size, end>>
    PROVE  Inv'
<1>1. /\ size # 0 /\ n \in Nat \ {0}
      /\ begin' = IF begin + n < size THEN begin + n ELSE begin + n - size
      /\ begin' \in Nat /\ begin' < size
      /\ data_size' = data_size - n /\ data_size' \in 0 .. size
  BY DropFacts
<1>2. data_size \in Nat /\ size \in Nat /\ begin \in Nat /\ begin < size /\ end \in Nat
  BY <1>1, SizesAssumption DEF Inv, TypeOK
<1>3. TypeOK'
  BY <1>1 DEF Inv, TypeOK
<1>4. Layout'
  BY <1>1, <1>2 DEF Inv, Layout, TypeOK
<1> QED BY <1>3, <1>4 DEF Inv

LEMMA InvStep == Inv /\ [Next]_vars => Inv'
<1> SUFFICES ASSUME Inv, [Next]_vars PROVE Inv'
  OBVIOUS
<1>1. buf \in Seq(Data) /\ data_size \in Nat
  BY SizesAssumption DEF Inv, TypeOK
<1>2. ASSUME NEW n \in Requests, NEW data \in [1..n -> Data], Put(data)
      PROVE  Inv'
  <2>1. CASE PutFit(data)
    BY <1>2, <2>1, InvPut DEF Put
  <2>2. CASE Refuse
    <3>1. buf' \in Seq(Data)
      BY <1>2, RequestsAssumption DEF Put
    <3> QED BY <2>2, <3>1 DEF Refuse, Inv, TypeOK, Layout
  <2> QED BY <1>2, <2>1, <2>2 DEF Put
<1>3. CASE Refuse /\ UNCHANGED buf
  BY <1>3 DEF Refuse, Inv, TypeOK, Layout
<1>4. ASSUME NEW n \in Requests, Get(n) \/ Advance(n) \/ Peek(n)
      PROVE  Inv'
  <2>1. n \in Nat
    BY RequestsAssumption
  <2>2. CASE n > data_size
    BY <1>1, <1>3, <1>4, <2>1, <2>2 DEF Get, Advance, Peek
  <2>3. CASE n <= data_size
    <3>1. CASE Peek(n)
      BY <1>1, <2>1, <2>3, <3>1, OldestFacts DEF Peek, Refuse, Inv, TypeOK, Layout
    <3>2. CASE Get(n)
      BY <1>1, <2>1, <2>3, <3>2, OldestFacts, InvDrop DEF Get
    <3>3. CASE Advance(n)
      BY <1>1, <2>1, <2>3, <3>3, InvDrop DEF Advance
    <3> QED BY <1>4, <3>1, <3>2, <3>3
  <2> QED BY <1>1, <2>1, <2>2, <2>3
<1>5. CASE Reset
  BY <1>5, SizesAssumption DEF Reset, Inv, TypeOK, Layout
<1>6. CASE UNCHANGED vars
  BY <1>6 DEF vars, Inv, TypeOK, Layout
<1> QED BY <1>2, <1>4, <1>5, <1>6 DEF Next

THEOREM LayoutInvariant == Spec => []Inv
  BY InvInit, InvStep, PTL DEF Spec

(* No counter leaves its range, whatever the calls.                        *)
THEOREM TypeCorrect == Spec => []TypeOK
<1>1. Inv => TypeOK
  BY DEF Inv
<1> QED BY <1>1, LayoutInvariant, PTL

(* end, begin and data_size always agree.                                  *)
THEOREM CountersAgree == Spec => []Layout
<1>1. Inv => Layout
  BY DEF Inv
<1> QED BY <1>1, LayoutInvariant, PTL

-----------------------------------------------------------------------------
(* Refinement: what each operation does to the queue. *)

LEMMA QueueType ==
    ASSUME Inv
    PROVE  /\ Queue \in Seq(Data) /\ Len(Queue) = data_size
           /\ data_size \in Nat /\ size \in Nat
           /\ \A i \in 1 .. data_size : Queue[i] = At(i - 1)
<1>1. data_size \in Nat /\ size \in Nat /\ data_size <= size
  BY SizesAssumption DEF Inv, TypeOK
<1>2. \A i \in 1 .. data_size : At(i - 1) \in Data
  BY <1>1 DEF At, Inv, TypeOK
<1> QED BY <1>1, <1>2 DEF Queue

LEMMA PutAppends ==
    ASSUME Inv, Inv', NEW n \in Requests, NEW data \in [1..n -> Data], PutFit(data)
    PROVE  Queue' = Queue \o data
<1>1. /\ n \in Nat \ {0} /\ Len(data) = n /\ data \in Seq(Data)
      /\ data_size \in Nat /\ size \in Nat /\ end \in Nat /\ begin \in Nat
  BY RequestsAssumption, SizesAssumption DEF Inv, TypeOK
<1>2. /\ size # 0 /\ data_size + n <= size
      /\ \A i \in 0 .. size - 1 :
            buffer'[i] = IF end <= i /\ i < end + n THEN data[i - end + 1]
                         ELSE IF i < end + n - size THEN data[i + size - end + 1]
                         ELSE buffer[i]
  BY PutFacts
<1>3. end < size /\ begin < size
  BY <1>2 DEF Inv, TypeOK
<1>4. data_size' = data_size + n /\ size' = size /\ begin' = begin
  BY <1>1 DEF PutFit
<1>5. /\ Queue' \in Seq(Data) /\ Len(Queue') = data_size + n
      /\ \A i \in 1 .. data_size + n : Queue'[i] = At(i - 1)'
  <2>1. Queue' = [i \in 1 .. data_size + n |-> At(i - 1)']
    BY <1>4 DEF Queue
  <2>2. \A i \in 1 .. data_size + n : At(i - 1)' \in Data
    BY <1>1, <1>2, <1>3, <1>4 DEF At, Inv, TypeOK
  <2> QED BY <1>1, <2>1, <2>2
<1>6. /\ Queue \in Seq(Data) /\ Len(Queue) = data_size
      /\ \A i \in 1 .. data_size : Queue[i] = At(i - 1)
  BY QueueType
<1>7. /\ Queue \o data \in Seq(Data) /\ Len(Queue \o data) = data_size + n
      /\ \A i \in 1 .. data_size + n :
            (Queue \o data)[i] = IF i <= data_size THEN Queue[i] ELSE data[i - data_size]
  <2>1. /\ Queue \o data \in Seq(Data)
        /\ Len(Queue \o data) = Len(Queue) + Len(data)
    BY <1>1, <1>6, ConcatProperties
  <2>2. \A i \in 1 .. Len(Queue) + Len(data) :
            (Queue \o data)[i] = IF i <= Len(Queue) THEN Queue[i]
                                                   ELSE data[i - Len(Queue)]
    BY <1>1, <1>6, ConcatProperties
  <2> QED BY <1>1, <1>6, <2>1, <2>2
<1>8. ASSUME NEW i \in 1 .. data_size + n
      PROVE  At(i - 1)' = (Queue \o data)[i]
  <2> DEFINE p == IF begin + (i - 1) < size THEN begin + (i - 1) ELSE begin + (i - 1) - size
  <2>1. p \in 0 .. size - 1
    BY <1>1, <1>2, <1>3
  <2>2. At(i - 1)' = buffer'[p]
    BY <1>4 DEF At
  <2>3. end = IF begin + data_size < size THEN begin + data_size
                                         ELSE begin + data_size - size
    BY DEF Inv, Layout
  <2>4. CASE i <= data_size
    <3>1. ~(end <= p /\ p < end + n) /\ ~(p < end + n - size)
      <4>1. /\ data_size \in Nat /\ size \in Nat /\ end \in Nat /\ begin \in Nat
            /\ n \in Nat /\ i \in Nat
            /\ data_size + n <= size /\ end < size /\ begin < size
        BY <1>1, <1>2, <1>3
      <4> QED BY <2>3, <2>4, <4>1
    <3>2. buffer'[p] = buffer[p]
      BY <1>2, <2>1, <3>1
    <3>3. buffer[p] = At(i - 1)
      BY DEF At
    <3>4. (Queue \o data)[i] = At(i - 1)
      BY <1>1, <1>6, <1>7, <2>4
    <3> QED BY <2>2, <3>2, <3>3, <3>4
  <2>5. CASE i > data_size
    <3>1. \/ end <= p /\ p < end + n /\ p - end + 1 = i - data_size
          \/ p < end /\ p < end + n - size /\ p + size - end + 1 = i - data_size
      <4>1. i \in Int /\ data_size < i /\ i <= data_size + n
        BY <1>1, <2>5
      <4>0. /\ data_size \in Nat /\ size \in Nat /\ end \in Nat /\ begin \in Nat /\ n \in Nat
            /\ data_size + n <= size /\ end < size /\ begin < size
        BY <1>1, <1>2, <1>3
      <4>2. CASE begin + (i - 1) < size
        <5>1. p = begin + (i - 1) /\ end = begin + data_size
          BY <1>1, <2>3, <4>1, <4>2
        <5> HIDE DEF p
        <5> QED BY <4>0, <4>1, <4>2, <5>1
      <4>3. CASE begin + (i - 1) >= size /\ begin + data_size < size
        <5>1. p = begin + (i - 1) - size /\ end = begin + data_size
          BY <1>1, <2>3, <4>1, <4>3
        <5> HIDE DEF p
        <5> QED BY <4>0, <4>1, <4>3, <5>1
      <4>4. CASE begin + data_size >= size
        <5>1. p = begin + (i - 1) - size /\ end = begin + data_size - size
          BY <1>1, <2>3, <4>1, <4>4
        <5> HIDE DEF p
        <5> QED BY <4>0, <4>1, <4>4, <5>1
      <4> QED BY <1>1, <4>1, <4>2, <4>3, <4>4
    <3>2. buffer'[p] = data[i - data_size]
      <4> HIDE DEF p
      <4> QED BY <1>1, <1>2, <2>1, <3>1
    <3>3. (Queue \o data)[i] = data[i - data_size]
      BY <1>1, <1>7, <2>5
    <3> QED BY <2>2, <3>2, <3>3
  <2>6. i <= data_size \/ i > data_size
    BY <1>1
  <2> QED BY <2>4, <2>5, <2>6
<1>9. \A i \in 1 .. data_size + n : Queue'[i] = (Queue \o data)[i]
  BY <1>5, <1>8
<1>10. ASSUME NEW s \in Seq(Data), NEW t \in Seq(Data), Len(s) = data_size + n,
              Len(t) = data_size + n, \A i \in 1 .. data_size + n : s[i] = t[i]
       PROVE  s = t
  BY <1>10, SeqEqual
<1> QED BY <1>5, <1>7, <1>9, <1>10

LEMMA DropRemoves ==
    ASSUME Inv, NEW n \in Requests, n <= data_size, Drop(n), UNCHANGED <<buffer, size>>
    PROVE  Queue' = SubSeq(Queue, n + 1, Len(Queue))
<1>1. /\ size # 0 /\ n \in Nat \ {0}
      /\ begin' = IF begin + n < size THEN begin + n ELSE begin + n - size
      /\ data_size' = data_size - n
  BY DropFacts
<1>2. /\ data_size \in Nat /\ size \in Nat /\ data_size <= size
      /\ begin \in Nat /\ begin < size
  BY <1>1, SizesAssumption DEF Inv, TypeOK
<1>3. Queue' = [i \in 1 .. data_size - n |-> At(i - 1)']
  BY <1>1 DEF Queue
<1>4. \A i \in 1 .. data_size - n : At(i - 1)' = At(n + i - 1)
  BY <1>1, <1>2 DEF At
<1>5. Queue' = [i \in 1 .. data_size - n |-> At(n + i - 1)]
  BY <1>3, <1>4
<1>6. /\ Queue \in Seq(Data) /\ Len(Queue) = data_size
      /\ \A i \in 1 .. data_size : Queue[i] = At(i - 1)
  BY QueueType
<1>7. SubSeq(Queue, n + 1, data_size) = [i \in 1 .. data_size - n |-> Queue[n + 1 + i - 1]]
  BY <1>1, <1>2, <1>6
<1>8. \A i \in 1 .. data_size - n : Queue[n + 1 + i - 1] = At(n + i - 1)
  <2> SUFFICES ASSUME NEW i \in 1 .. data_size - n
               PROVE  Queue[n + 1 + i - 1] = At(n + i - 1)
    OBVIOUS
  <2>1. n + i \in 1 .. data_size /\ n + 1 + i - 1 = n + i
    BY <1>1, <1>2
  <2>2. Queue[n + i] = At(n + i - 1)
    <3>1. ASSUME NEW k \in 1 .. data_size PROVE Queue[k] = At(k - 1)
      BY <1>6
    <3> QED BY <1>1, <1>2, <2>1, <3>1 DEF At
  <2> QED BY <1>1, <1>2, <2>1, <2>2
<1>9. SubSeq(Queue, n + 1, data_size) = [i \in 1 .. data_size - n |-> At(n + i - 1)]
  BY <1>7, <1>8
<1> QED BY <1>5, <1>6, <1>9

LEMMA StepImplements == Inv /\ Inv' /\ [Next]_vars => [Fifo!Next]_(Fifo!fifoVars)
<1> SUFFICES ASSUME Inv, Inv', [Next]_vars PROVE [Fifo!Next]_(Fifo!fifoVars)
  OBVIOUS
<1>1. /\ Queue \in Seq(Data) /\ Len(Queue) = data_size
      /\ data_size \in Nat /\ size \in Nat
  BY QueueType
<1>2. ASSUME UNCHANGED <<buffer, size, begin, data_size>> PROVE Queue' = Queue
  BY <1>2 DEF Queue, At
<1>3. ASSUME NEW n \in Requests, NEW data \in [1..n -> Data], Put(data)
      PROVE  Fifo!Put(data)
  <2>1. Len(data) = n /\ n \in Nat
    BY RequestsAssumption
  <2>2. CASE PutFit(data)
    <3>1. Queue' = Queue \o data
      BY <2>2, PutAppends
    <3>2. data_size + n <= size /\ ret' = 0 /\ size' = size
      BY <2>1, <2>2 DEF PutFit
    <3> QED BY <1>1, <1>3, <2>1, <3>1, <3>2 DEF Put, Fifo!Put
  <2>3. CASE data_size + Len(data) > size /\ Refuse
    <3>1. Queue' = Queue /\ ret' = -1 /\ size' = size
      BY <1>2, <2>3 DEF Refuse
    <3> QED BY <1>1, <1>3, <2>1, <2>3, <3>1 DEF Put, Fifo!Put, Fifo!Refuse
  <2> QED BY <1>3, <2>2, <2>3 DEF Put
<1>4. ASSUME NEW n \in Requests, n > data_size, Refuse, UNCHANGED buf
      PROVE  Fifo!Get(n)
  <2>1. Queue' = Queue /\ ret' = -1 /\ size' = size
    BY <1>2, <1>4 DEF Refuse
  <2> QED BY <1>1, <1>4, <2>1 DEF Fifo!Get, Fifo!Refuse
<1>5. ASSUME NEW n \in Requests, n <= data_size, Get(n) \/ Advance(n) \/ Peek(n)
      PROVE  Fifo!Get(n) \/ Fifo!Advance(n) \/ Fifo!Peek(n)
  <2>1. n \in Nat /\ ~(data_size - n < 0)
    BY <1>1, <1>5, RequestsAssumption
  <2>2. Oldest(n) = SubSeq(Queue, 1, n)
    BY <1>5, OldestFacts
  <2>3. CASE Get(n)
    <3>1. Queue' = SubSeq(Queue, n + 1, Len(Queue))
      BY <1>5, <2>1, <2>3, DropRemoves DEF Get
    <3> QED BY <1>1, <1>5, <2>1, <2>2, <2>3, <3>1 DEF Get, Fifo!Get
  <2>4. CASE Advance(n)
    <3>1. Queue' = SubSeq(Queue, n + 1, Len(Queue))
      BY <1>5, <2>1, <2>4, DropRemoves DEF Advance
    <3> QED BY <1>1, <1>5, <2>1, <2>4, <3>1 DEF Advance, Fifo!Advance
  <2>5. CASE Peek(n)
    <3>1. Queue' = Queue
      BY <1>2, <2>1, <2>5 DEF Peek
    <3> QED BY <1>1, <1>5, <2>1, <2>2, <2>5, <3>1 DEF Peek, Fifo!Peek
  <2> QED BY <1>5, <2>3, <2>4, <2>5
<1>6. ASSUME NEW n \in Requests, Get(n) \/ Advance(n) \/ Peek(n)
      PROVE  Fifo!Get(n) \/ Fifo!Advance(n) \/ Fifo!Peek(n)
  <2>1. n \in Nat
    BY RequestsAssumption
  <2>2. CASE n > data_size
    <3>1. Refuse /\ UNCHANGED buf
      BY <1>1, <1>6, <2>1, <2>2 DEF Get, Advance, Peek
    <3> QED BY <1>4, <2>2, <3>1
  <2>3. CASE n <= data_size
    BY <1>5, <1>6, <2>3
  <2> QED BY <1>1, <2>1, <2>2, <2>3
<1>7. CASE Reset
  <2>1. Queue' = <<>>
    BY <1>7 DEF Reset, Queue
  <2> QED BY <1>7, <2>1 DEF Reset, Fifo!Reset, Fifo!Next
<1>8. CASE UNCHANGED vars
  <2>1. Queue' = Queue
    BY <1>2, <1>8 DEF vars
  <2> QED BY <1>8, <2>1 DEF vars, Fifo!fifoVars
<1> QED BY <1>3, <1>6, <1>7, <1>8 DEF Next, Fifo!Next

(* The wrapping array is a bounded FIFO of bytes: every start and every    *)
(* step of it is one of ByteFifo or a stutter.                             *)
THEOREM BufferIsAFifo == Spec => ImplementsFifo
<1>1. Init => Fifo!Init
  <2> SUFFICES ASSUME Init PROVE Fifo!Init
    OBVIOUS
  <2>1. Queue = <<>>
    BY DEF Init, Queue
  <2> QED BY <2>1, SizesAssumption DEF Init, Fifo!Init
<1> QED BY <1>1, StepImplements, LayoutInvariant, PTL DEF Spec, ImplementsFifo, Fifo!Spec
-----------------------------------------------------------------------------
(* What is left of a list by a walk that keeps the entries in T.           *)
LEMMA SublistFacts ==
    ASSUME NEW S, NEW s \in Seq(S), NEW T
    PROVE  /\ Sublist(s, T) \in Seq(S)
           /\ Seqs!ToSet(Sublist(s, T)) = Seqs!ToSet(s) \cap T
           /\ Seqs!IsInjective(s) => Seqs!IsInjective(Sublist(s, T))
<1>1. PICK f : Walks(f, Len(s), s, T) /\ Sublist(s, T) = f[Len(s)]
  BY WalkExists
<1> DEFINE Upto(n) == {s[j] : j \in 1..n}
           Good(q, n) == /\ q \in Seq(S)
                         /\ {q[j] : j \in DOMAIN q} = Upto(n) \cap T
                         /\ Seqs!IsInjective(s) => Seqs!IsInjective(q)
           P == {n \in 0..Len(s) : Good(f[n], n)}
<1>0. Len(s) \in Nat /\ DOMAIN s = 1..Len(s) /\ \A j \in 1..Len(s) : s[j] \in S
  OBVIOUS
<1>2. \A i \in 0..Len(s) : f[i] = IF i = 0 THEN <<>>
                                  ELSE IF s[i] \in T THEN Append(f[i - 1], s[i]) ELSE f[i - 1]
  BY <1>1 DEF Walks
<1>3. 0 \in P
  <2>1. f[0] = <<>>
    BY <1>0, <1>2
  <2>2. Upto(0) = {}
    OBVIOUS
  <2>3. Good(<<>>, 0)
    BY <2>2 DEF Seqs!IsInjective
  <2> HIDE DEF Good
  <2>4. Good(f[0], 0)
    BY <2>1, <2>3
  <2> QED BY <1>0, <2>4
<1>4. ASSUME NEW n \in 0..Len(s), n < Len(s), n \in P
      PROVE  n + 1 \in P
  <2>1. n \in Nat /\ n + 1 \in 0..Len(s) /\ n + 1 \in 1..Len(s) /\ n + 1 # 0 /\ (n + 1) - 1 = n
    BY <1>0, <1>4
  <2>2. f[n + 1] = IF s[n + 1] \in T THEN Append(f[n], s[n + 1]) ELSE f[n]
    BY <1>2, <2>1
  <2>3. Good(f[n], n)
    BY <1>4
  <2>4. Upto(n + 1) = Upto(n) \union {s[n + 1]}
    <3>1. 1..n + 1 = (1..n) \union {n + 1}
      BY <2>1
    <3> QED BY <3>1
  <2>5. CASE s[n + 1] \notin T
    <3>1. f[n + 1] = f[n]
      BY <2>2, <2>5
    <3>2. Good(f[n + 1], n + 1)
      BY <2>3, <2>4, <2>5, <3>1
    <3> QED BY <2>1, <3>2
  <2>6. CASE s[n + 1] \in T
    <3> DEFINE q == f[n]
               r == Append(q, s[n + 1])
    <3>1. f[n + 1] = r
      BY <2>2, <2>6
    <3>2. q \in Seq(S) /\ s[n + 1] \in S /\ Len(q) \in Nat
      BY <1>0, <2>1, <2>3
    <3>3. /\ r \in Seq(S) /\ Len(r) = Len(q) + 1 /\ DOMAIN r = 1..Len(q) + 1
          /\ \A j \in 1..Len(q) : r[j] = q[j]
          /\ r[Len(q) + 1] = s[n + 1] /\ DOMAIN q = 1..Len(q)
      BY <3>2
    <3> HIDE DEF r
    <3>4. {r[j] : j \in DOMAIN r} = {q[j] : j \in DOMAIN q} \union {s[n + 1]}
      <4>1. 1..Len(q) + 1 = (1..Len(q)) \union {Len(q) + 1}
        BY <3>2
      <4> HIDE DEF q
      <4> QED BY <3>3, <4>1
    <3>5. {r[j] : j \in DOMAIN r} = Upto(n + 1) \cap T
      <4>1. {q[j] : j \in DOMAIN q} = Upto(n) \cap T
        BY <2>3
      <4> HIDE DEF q, Upto
      <4> QED BY <2>4, <2>6, <3>4, <4>1
    <3>6. ASSUME Seqs!IsInjective(s)
          PROVE  Seqs!IsInjective(r)
      <4>1. s[n + 1] \notin Upto(n)
        <5>1. ASSUME NEW j \in 1..n, s[n + 1] = s[j]
              PROVE  FALSE
          <6>1. j \in DOMAIN s /\ n + 1 \in DOMAIN s /\ j # n + 1
            BY <1>0, <2>1
          <6> QED BY <3>6, <5>1, <6>1 DEF Seqs!IsInjective
        <5> QED BY <5>1
      <4>2. \A j \in DOMAIN q : q[j] # s[n + 1]
        <5>1. {q[j] : j \in DOMAIN q} = Upto(n) \cap T
          BY <2>3
        <5> HIDE DEF q, Upto
        <5> QED BY <4>1, <5>1
      <4>3. Seqs!IsInjective(q)
        BY <2>3, <3>6
      <4> HIDE DEF q
      <4>4. ASSUME NEW i \in DOMAIN r, NEW j \in DOMAIN r, r[i] = r[j]
            PROVE  i = j
        <5>1. \A k \in DOMAIN r : k \in DOMAIN q \/ k = Len(q) + 1
          BY <3>2, <3>3
        <5>2. \A k \in DOMAIN q : r[k] = q[k]
          BY <3>3
        <5> QED BY <3>3, <4>2, <4>3, <4>4, <5>1, <5>2 DEF Seqs!IsInjective
      <4> QED BY <4>4 DEF Seqs!IsInjective
    <3>7. Good(r, n + 1)
      BY <3>3, <3>5, <3>6
    <3> QED BY <2>1, <3>1, <3>7
  <2> QED BY <2>5, <2>6
<1>5. 0..Len(s) \subseteq P
  <2> HIDE DEF P
  <2> QED BY <1>0, <1>3, <1>4, CountUp
<1>6. Good(f[Len(s)], Len(s))
  BY <1>0, <1>5
<1>7. Upto(Len(s)) = Seqs!ToSet(s)
  BY <1>0 DEF Seqs!ToSet
<1> QED BY <1>1, <1>6, <1>7 DEF Seqs!ToSet

-----------------------------------------------------------------------------
(* The soft timer *)

LEMMA TimerConstants ==
    /\ NumBuckets \in Nat \ {0} /\ TickRate \in Nat \ {0} /\ TickWrap \in Nat \ {0}
    /\ \A ms \in Timeouts : ms \in Int /\ ms < TickRate * TickWrap - TickRate
    /\ NoTimer \notin Timers
  BY WheelAssumption

(* The remainder, around a wrap. *)
LEMMA AroundWrap ==
    ASSUME NEW W \in Nat \ {0}, NEW x \in Int
    PROVE  /\ x % W \in 0..W - 1
           /\ 0 <= x /\ x < W => x % W = x
           /\ W <= x /\ x < 2 * W => x % W = x - W
           /\ -W <= x /\ x < 0 => x % W = x + W
  OBVIOUS

LEMMA SumAroundWrap ==
    ASSUME NEW W \in Nat \ {0}, NEW x \in 0..W - 1, NEW y \in 0..W
    PROVE  (x + y) % W = IF x + y < W THEN x + y ELSE x + y - W
  OBVIOUS

LEMMA DifferenceAroundWrap ==
    ASSUME NEW W \in Nat \ {0}, NEW x \in 0..W - 1, NEW y \in 0..W - 1
    PROVE  (x - y) % W = IF x >= y THEN x - y ELSE x - y + W
  OBVIOUS

LEMMA TicksOfType ==
    ASSUME NEW ms \in Int
    PROVE  TicksOf(ms) \in 0..TickWrap - 1
<1>1. TickRate \in Nat \ {0} /\ TickWrap \in Nat \ {0}
  BY TimerConstants
<1>2. (IF ms >= 0 THEN ms \div TickRate ELSE -((-ms) \div TickRate)) \in Int
  <2>1. \A r \in Nat \ {0}, x \in Nat : x \div r \in Int
    OBVIOUS
  <2>2. CASE ms >= 0
    BY <1>1, <2>1, <2>2
  <2>3. CASE ~(ms >= 0)
    <3>1. -ms \in Nat
      BY <2>3
    <3>2. (-ms) \div TickRate \in Int
      BY <1>1, <2>1, <3>1
    <3> QED BY <2>3, <3>2
  <2> QED BY <2>2, <2>3
<1>3. \A w \in Int : (IF w * TickRate = ms THEN w ELSE w + 1) \in Int
  OBVIOUS
<1> DEFINE whole == IF ms >= 0 THEN ms \div TickRate ELSE -((-ms) \div TickRate)
           n == IF whole * TickRate = ms THEN whole ELSE whole + 1
<1>4. n \in Int
  <2> HIDE DEF whole
  <2> QED BY <1>2, <1>3 DEF whole
<1>5. TicksOf(ms) = n % TickWrap
  BY DEF TicksOf
<1> HIDE DEF n
<1> QED BY <1>1, <1>4, <1>5, AroundWrap

(* get_soft_tick_from_milsec rounds up, and does not wrap in the range the *)
(* callers may ask for.                                                    *)
LEMMA TicksOfOnTime ==
    ASSUME NEW ms \in Timeouts, ms > 0
    PROVE  TicksOf(ms) \in 1..TickWrap - 1 /\ Promise!OnTime(ms, TicksOf(ms))
<1>1. /\ TickRate \in Nat \ {0} /\ TickWrap \in Nat \ {0} /\ ms \in Nat
      /\ ms < TickRate * TickWrap - TickRate
  BY TimerConstants
<1> DEFINE w == ms \div TickRate
           n == IF w * TickRate = ms THEN w ELSE w + 1
<1>2. w \in Nat /\ w * TickRate <= ms /\ ms < (w + 1) * TickRate
  <2>1. \A r \in Nat \ {0}, x \in Nat :
            x \div r \in Nat /\ (x \div r) * r <= x /\ x < ((x \div r) + 1) * r
    OBVIOUS
  <2> QED BY <1>1, <2>1
<1> HIDE DEF w
<1>3. n \in Nat /\ n * TickRate >= ms /\ (n - 1) * TickRate < ms
  <2>1. CASE w * TickRate = ms
    <3>1. (w - 1) * TickRate = w * TickRate - TickRate
      BY <1>1, <1>2
    <3> QED BY <1>1, <1>2, <2>1, <3>1
  <2>2. CASE w * TickRate # ms
    <3>1. n = w + 1 /\ n - 1 = w
      BY <1>2, <2>2
    <3>2. w * TickRate \in Int /\ w * TickRate < ms
      BY <1>1, <1>2, <2>2
    <3> QED BY <1>1, <1>2, <3>1, <3>2
  <2> QED BY <2>1, <2>2
<1> HIDE DEF n
<1>4. n # 0
  <2>1. n = 0 => n * TickRate = 0
    BY <1>1
  <2> QED BY <1>1, <1>3, <2>1
<1>5. n <= TickWrap - 1
  <2>1. (n - 1) * TickRate < (TickWrap - 1) * TickRate
    <3>1. (TickWrap - 1) * TickRate = TickRate * TickWrap - TickRate
      BY <1>1
    <3> QED BY <1>1, <1>3, <3>1
  <2>2. \A p, q \in Int, r \in Nat \ {0} : p * r < q * r => p < q
    OBVIOUS
  <2>3. n - 1 < TickWrap - 1
    BY <1>1, <1>3, <2>1, <2>2
  <2> QED BY <1>1, <1>3, <2>3
<1>6. TicksOf(ms) = n
  <2>1. TicksOf(ms) = n % TickWrap
    BY <1>1 DEF TicksOf, n, w
  <2>2. n \in Int /\ 0 <= n /\ n < TickWrap /\ TickWrap \in Nat \ {0}
    BY <1>1, <1>3, <1>5
  <2>3. n % TickWrap = n
    BY <2>2, AroundWrap
  <2> QED BY <2>1, <2>3
<1> QED BY <1>1, <1>3, <1>4, <1>5, <1>6 DEF Promise!OnTime

-----------------------------------------------------------------------------
(* The wheel stays consistent. *)

WheelInv == TimerTypeOK /\ WheelConsistent

LEMMA WheelInit == TimerInit => WheelInv
<1> SUFFICES ASSUME TimerInit PROVE WheelInv
  OBVIOUS
<1>1. TimerTypeOK
  BY TimerConstants DEF TimerInit, TimerTypeOK
<1>2. WheelConsistent
  BY DEF TimerInit, WheelConsistent, Seqs!IsInjective, Seqs!ToSet
<1> QED BY <1>1, <1>2 DEF WheelInv

LEMMA AppendFacts ==
    ASSUME NEW S, NEW s \in Seq(S), NEW e \in S
    PROVE  /\ Append(s, e) \in Seq(S)
           /\ Seqs!ToSet(Append(s, e)) = Seqs!ToSet(s) \union {e}
           /\ Seqs!IsInjective(s) /\ e \notin Seqs!ToSet(s) => Seqs!IsInjective(Append(s, e))
<1>1. /\ Append(s, e) \in Seq(S) /\ Len(s) \in Nat
      /\ DOMAIN Append(s, e) = 1..Len(s) + 1 /\ DOMAIN s = 1..Len(s)
      /\ \A i \in 1..Len(s) : Append(s, e)[i] = s[i]
      /\ Append(s, e)[Len(s) + 1] = e
  OBVIOUS
<1>2. 1..Len(s) + 1 = (1..Len(s)) \union {Len(s) + 1}
  BY <1>1
<1>3. Seqs!ToSet(Append(s, e)) = Seqs!ToSet(s) \union {e}
  BY <1>1, <1>2 DEF Seqs!ToSet
<1>4. ASSUME Seqs!IsInjective(s), e \notin Seqs!ToSet(s)
      PROVE  Seqs!IsInjective(Append(s, e))
  BY <1>1, <1>2, <1>4 DEF Seqs!ToSet, Seqs!IsInjective
<1> QED BY <1>1, <1>3, <1>4

LEMMA TailFacts ==
    ASSUME NEW S, NEW s \in Seq(S), s # <<>>
    PROVE  /\ Head(s) \in S /\ Tail(s) \in Seq(S)
           /\ Head(s) \in Seqs!ToSet(s) /\ Seqs!ToSet(Tail(s)) \subseteq Seqs!ToSet(s)
           /\ Seqs!IsInjective(s) =>
                /\ Seqs!IsInjective(Tail(s))
                /\ Seqs!ToSet(Tail(s)) = Seqs!ToSet(s) \ {Head(s)}
<1>1. /\ Tail(s) \in Seq(S) /\ Len(s) \in Nat \ {0} /\ DOMAIN s = 1..Len(s)
      /\ DOMAIN Tail(s) = 1..Len(s) - 1 /\ \A i \in 1..Len(s) - 1 : Tail(s)[i] = s[i + 1]
      /\ Head(s) = s[1] /\ s[1] \in S
  OBVIOUS
<1>2. \A i \in 1..Len(s) - 1 : i + 1 \in 1..Len(s) /\ i + 1 # 1
  BY <1>1
<1>3. \A i \in 1..Len(s) : i = 1 \/ (i - 1 \in 1..Len(s) - 1 /\ (i - 1) + 1 = i)
  BY <1>1
<1>4. 1 \in 1..Len(s)
  BY <1>1
<1>5. Head(s) \in Seqs!ToSet(s) /\ Seqs!ToSet(Tail(s)) \subseteq Seqs!ToSet(s)
  BY <1>1, <1>2, <1>4 DEF Seqs!ToSet
<1>6. ASSUME Seqs!IsInjective(s)
      PROVE  /\ Seqs!IsInjective(Tail(s))
             /\ Seqs!ToSet(Tail(s)) = Seqs!ToSet(s) \ {Head(s)}
  <2>1. \A i, j \in 1..Len(s) : s[i] = s[j] => i = j
    BY <1>1, <1>6 DEF Seqs!IsInjective
  <2>2. ASSUME NEW i \in 1..Len(s) - 1, NEW j \in 1..Len(s) - 1, Tail(s)[i] = Tail(s)[j]
        PROVE  i = j
    <3>1. s[i + 1] = s[j + 1] /\ i + 1 \in 1..Len(s) /\ j + 1 \in 1..Len(s)
      BY <1>1, <1>2, <2>2
    <3>2. i + 1 = j + 1 /\ i \in Int /\ j \in Int
      BY <2>1, <3>1
    <3> QED BY <3>2
  <2>3. Seqs!IsInjective(Tail(s))
    BY <1>1, <2>2 DEF Seqs!IsInjective
  <2>4. ASSUME NEW x \in Seqs!ToSet(Tail(s))
        PROVE  x # Head(s)
    <3>1. PICK i \in 1..Len(s) - 1 : x = Tail(s)[i]
      BY <1>1 DEF Seqs!ToSet
    <3>2. x = s[i + 1] /\ i + 1 \in 1..Len(s) /\ i + 1 # 1
      BY <1>1, <1>2, <3>1
    <3> QED BY <1>1, <1>4, <2>1, <3>2
  <2>5. ASSUME NEW x \in Seqs!ToSet(s), x # Head(s)
        PROVE  x \in Seqs!ToSet(Tail(s))
    <3>1. PICK i \in 1..Len(s) : x = s[i]
      BY <1>1 DEF Seqs!ToSet
    <3>2. i # 1
      BY <1>1, <2>5, <3>1
    <3>3. i - 1 \in 1..Len(s) - 1 /\ Tail(s)[i - 1] = x
      BY <1>1, <1>3, <3>1, <3>2
    <3> QED BY <1>1, <3>3 DEF Seqs!ToSet
  <2> QED BY <1>5, <2>3, <2>4, <2>5
<1> QED BY <1>1, <1>5, <1>6

LEMMA WheelTypes ==
    ASSUME TimerTypeOK
    PROVE  /\ DOMAIN buckets = 0..NumBuckets - 1
           /\ \A b \in 0..NumBuckets - 1 : buckets[b] \in Seq(Timers)
           /\ \A b \in 0..NumBuckets - 1 : Seqs!ToSet(buckets[b]) \subseteq Timers
           /\ timeoutList \in Seq(Timers) /\ Seqs!ToSet(timeoutList) \subseteq Timers
           /\ elemTick \in [Timers -> 0..TickWrap - 1] /\ tick \in 0..TickWrap - 1
<1>1. \A s \in Seq(Timers) : Seqs!ToSet(s) \subseteq Timers
  BY DEF Seqs!ToSet
<1>2. /\ DOMAIN buckets = 0..NumBuckets - 1
      /\ \A b \in 0..NumBuckets - 1 : buckets[b] \in Seq(Timers)
  BY DEF TimerTypeOK
<1> QED BY <1>1, <1>2 DEF TimerTypeOK

(* A started timer goes to the end of the bucket of the tick it expires at *)
(* and to no other.                                                        *)
LEMMA WheelAdd ==
    ASSUME WheelInv, NEW t \in Timers, NEW ms \in Timeouts, SoftTimerAdd(t, ms)
    PROVE  WheelInv'
<1> DEFINE at == (tick + TicksOf(ms)) % TickWrap
           b0 == at % NumBuckets
<1>1. /\ TicksOf(ms) \in 0..TickWrap - 1
      /\ NumBuckets \in Nat \ {0} /\ TickWrap \in Nat \ {0}
  BY TimerConstants, TicksOfType
<1>2. /\ DOMAIN buckets = 0..NumBuckets - 1
      /\ \A b \in 0..NumBuckets - 1 : buckets[b] \in Seq(Timers)
      /\ timeoutList \in Seq(Timers)
      /\ elemTick \in [Timers -> 0..TickWrap - 1] /\ tick \in 0..TickWrap - 1
  BY WheelTypes DEF WheelInv
<1>3. at \in 0..TickWrap - 1
  <2>1. tick + TicksOf(ms) \in Int
    BY <1>1, <1>2
  <2> QED BY <1>1, <2>1, AroundWrap
<1>4. b0 \in 0..NumBuckets - 1
  <2>1. at \in Int
    BY <1>1, <1>3
  <2> HIDE DEF at
  <2> QED BY <1>1, <2>1, AroundWrap
<1>5. /\ elemTick' = [elemTick EXCEPT ![t] = at]
      /\ buckets' = [buckets EXCEPT ![b0] = Append(@, t)]
      /\ UNCHANGED <<tick, timeoutList, firing>> /\ ~IsSoftTimerRunning(t)
  BY DEF SoftTimerAdd
<1> HIDE DEF at, b0
<1>6. /\ t \notin Seqs!ToSet(timeoutList)
      /\ \A b \in 0..NumBuckets - 1 : t \notin Seqs!ToSet(buckets[b])
  BY <1>2, <1>5 DEF IsSoftTimerRunning
<1>7. /\ buckets'[b0] = Append(buckets[b0], t)
      /\ \A b \in 0..NumBuckets - 1 : b # b0 => buckets'[b] = buckets[b]
      /\ DOMAIN buckets' = 0..NumBuckets - 1
  BY <1>2, <1>4, <1>5
<1>8. /\ Append(buckets[b0], t) \in Seq(Timers)
      /\ Seqs!ToSet(buckets'[b0]) = Seqs!ToSet(buckets[b0]) \union {t}
      /\ Seqs!IsInjective(buckets[b0]) => Seqs!IsInjective(buckets'[b0])
  <2>1. buckets[b0] \in Seq(Timers)
    BY <1>2, <1>4
  <2> QED BY <1>4, <1>6, <1>7, <2>1, AppendFacts
<1>9. TimerTypeOK'
  <2>1. buckets' \in [0..NumBuckets - 1 -> Seq(Timers)]
    BY <1>4, <1>5, <1>8 DEF WheelInv, TimerTypeOK
  <2> QED BY <1>3, <1>5, <2>1 DEF WheelInv, TimerTypeOK
<1>10. elemTick'[t] = at /\ \A u \in Timers : u # t => elemTick'[u] = elemTick[u]
  BY <1>2, <1>5
<1>11. \A b \in 0..NumBuckets - 1 : \A u \in Seqs!ToSet(buckets[b]) :
            u \in Timers /\ u # t /\ elemTick[u] % NumBuckets = b /\ u \notin Seqs!ToSet(timeoutList)
  BY <1>2, <1>6, WheelTypes DEF WheelInv, WheelConsistent
<1>12. \A b \in 0..NumBuckets - 1 : \A u \in Seqs!ToSet(buckets'[b]) :
            elemTick'[u] % NumBuckets = b /\ u \notin Seqs!ToSet(timeoutList)
  <2> SUFFICES ASSUME NEW b \in 0..NumBuckets - 1, NEW u \in Seqs!ToSet(buckets'[b])
               PROVE  elemTick'[u] % NumBuckets = b /\ u \notin Seqs!ToSet(timeoutList)
    OBVIOUS
  <2>1. CASE u \in Seqs!ToSet(buckets[b])
    BY <1>10, <1>11, <2>1
  <2>2. CASE b = b0 /\ u = t
    BY <1>6, <1>10, <2>2 DEF b0
  <2> QED BY <1>7, <1>8, <2>1, <2>2
<1>13. \A b \in 0..NumBuckets - 1 : Seqs!IsInjective(buckets'[b])
  BY <1>2, <1>4, <1>7, <1>8 DEF WheelInv, WheelConsistent
<1>14. \A u \in Seqs!ToSet(timeoutList) : elemTick'[u] = tick
  BY <1>2, <1>6, <1>10, WheelTypes DEF WheelInv, WheelConsistent
<1>15. timeoutList' = timeoutList /\ tick' = tick /\ Seqs!IsInjective(timeoutList)
  BY <1>5 DEF WheelInv, WheelConsistent
<1>16. WheelConsistent'
  BY <1>7, <1>12, <1>13, <1>14, <1>15 DEF WheelConsistent
<1> QED BY <1>9, <1>16 DEF WheelInv

LEMMA WheelDel ==
    ASSUME WheelInv, NEW t \in Timers, SoftTimerDel(t)
    PROVE  /\ WheelInv'
           /\ Seqs!ToSet(timeoutList') = Seqs!ToSet(timeoutList) \ {t}
           /\ \A b \in 0..NumBuckets - 1 : Seqs!ToSet(buckets'[b]) = Seqs!ToSet(buckets[b]) \ {t}
<1>1. /\ DOMAIN buckets = 0..NumBuckets - 1
      /\ \A b \in 0..NumBuckets - 1 : buckets[b] \in Seq(Timers)
      /\ \A b \in 0..NumBuckets - 1 : Seqs!ToSet(buckets[b]) \subseteq Timers
      /\ timeoutList \in Seq(Timers) /\ Seqs!ToSet(timeoutList) \subseteq Timers
  BY WheelTypes DEF WheelInv
<1>2. /\ buckets' = [b \in 0..NumBuckets - 1 |-> Sublist(buckets[b], Timers \ {t})]
      /\ timeoutList' = Sublist(timeoutList, Timers \ {t})
      /\ UNCHANGED <<tick, elemTick, firing>>
  BY <1>1 DEF SoftTimerDel
<1>3. /\ timeoutList' \in Seq(Timers)
      /\ Seqs!ToSet(timeoutList') = Seqs!ToSet(timeoutList) \cap (Timers \ {t})
      /\ Seqs!IsInjective(timeoutList) => Seqs!IsInjective(timeoutList')
  BY <1>1, <1>2, SublistFacts
<1>4. \A b \in 0..NumBuckets - 1 :
        /\ buckets'[b] \in Seq(Timers)
        /\ Seqs!ToSet(buckets'[b]) = Seqs!ToSet(buckets[b]) \cap (Timers \ {t})
        /\ Seqs!IsInjective(buckets[b]) => Seqs!IsInjective(buckets'[b])
  <2> SUFFICES ASSUME NEW b \in 0..NumBuckets - 1
               PROVE  /\ buckets'[b] \in Seq(Timers)
                      /\ Seqs!ToSet(buckets'[b]) = Seqs!ToSet(buckets[b]) \cap (Timers \ {t})
                      /\ Seqs!IsInjective(buckets[b]) => Seqs!IsInjective(buckets'[b])
    OBVIOUS
  <2>1. buckets'[b] = Sublist(buckets[b], Timers \ {t}) /\ buckets[b] \in Seq(Timers)
    BY <1>1, <1>2
  <2> QED BY <2>1, SublistFacts
<1>5. buckets' \in [0..NumBuckets - 1 -> Seq(Timers)]
  BY <1>2, <1>4
<1>6. TimerTypeOK'
  BY <1>2, <1>3, <1>5 DEF WheelInv, TimerTypeOK
<1>7. DOMAIN buckets' = 0..NumBuckets - 1
  BY <1>2
<1>8. WheelConsistent'
  <2>1. \A b \in 0..NumBuckets - 1 :
            /\ Seqs!IsInjective(buckets'[b])
            /\ \A u \in Seqs!ToSet(buckets'[b]) :
                    elemTick[u] % NumBuckets = b /\ u \notin Seqs!ToSet(timeoutList')
    BY <1>1, <1>3, <1>4 DEF WheelInv, WheelConsistent
  <2>2. /\ Seqs!IsInjective(timeoutList')
        /\ \A u \in Seqs!ToSet(timeoutList') : elemTick[u] = tick
    BY <1>3 DEF WheelInv, WheelConsistent
  <2>3. elemTick' = elemTick /\ tick' = tick
    BY <1>2
  <2> QED BY <1>7, <2>1, <2>2, <2>3 DEF WheelConsistent
<1> QED BY <1>1, <1>3, <1>4, <1>6, <1>8 DEF WheelInv

(* What a tick takes out of the wheel: the timers whose tick it is.        *)
LEMMA WheelTick ==
    ASSUME WheelInv, TimerTick
    PROVE  /\ WheelInv'
           /\ Seqs!ToSet(timeoutList') =
                {t \in Timers : elemTick[t] = tick'
                                /\ \E b \in 0..NumBuckets - 1 : t \in Seqs!ToSet(buckets[b])}
           /\ \A b \in 0..NumBuckets - 1 :
                Seqs!ToSet(buckets'[b]) = {t \in Seqs!ToSet(buckets[b]) : elemTick[t] # tick'}
<1> DEFINE current == tick' % NumBuckets
           due == {t \in Timers : elemTick[t] = tick'}
<1>1. /\ DOMAIN buckets = 0..NumBuckets - 1
      /\ \A b \in 0..NumBuckets - 1 : buckets[b] \in Seq(Timers)
      /\ \A b \in 0..NumBuckets - 1 : Seqs!ToSet(buckets[b]) \subseteq Timers
      /\ elemTick \in [Timers -> 0..TickWrap - 1] /\ tick \in 0..TickWrap - 1
      /\ NumBuckets \in Nat \ {0} /\ TickWrap \in Nat \ {0}
  BY WheelTypes, TimerConstants DEF WheelInv
<1>2. /\ tick' = (tick + 1) % TickWrap
      /\ timeoutList' = Sublist(buckets[current], due)
      /\ buckets' = [buckets EXCEPT ![current] = Sublist(@, Timers \ due)]
      /\ UNCHANGED <<elemTick, firing>>
  BY DEF TimerTick
<1>3. tick' \in 0..TickWrap - 1
  <2>1. tick + 1 \in Int
    BY <1>1
  <2> QED BY <1>1, <1>2, <2>1, AroundWrap
<1>4. current \in 0..NumBuckets - 1
  <2>1. tick' \in Int
    BY <1>1, <1>3
  <2> QED BY <1>1, <2>1, AroundWrap
<1>5. due = {t \in Timers : elemTick[t] = tick'}
  OBVIOUS
<1>6. \A t \in due : t \in Timers /\ elemTick[t] % NumBuckets = current
  OBVIOUS
<1> HIDE DEF current, due
<1>7. buckets[current] \in Seq(Timers) /\ Seqs!IsInjective(buckets[current])
  BY <1>1, <1>4 DEF WheelInv, WheelConsistent
<1>8. /\ timeoutList' \in Seq(Timers)
      /\ Seqs!ToSet(timeoutList') = Seqs!ToSet(buckets[current]) \cap due
      /\ Seqs!IsInjective(timeoutList')
  BY <1>2, <1>7, SublistFacts
<1>9. /\ buckets'[current] = Sublist(buckets[current], Timers \ due)
      /\ \A b \in 0..NumBuckets - 1 : b # current => buckets'[b] = buckets[b]
      /\ DOMAIN buckets' = 0..NumBuckets - 1
  BY <1>1, <1>2, <1>4
<1>10. /\ buckets'[current] \in Seq(Timers)
       /\ Seqs!ToSet(buckets'[current]) = Seqs!ToSet(buckets[current]) \cap (Timers \ due)
       /\ Seqs!IsInjective(buckets'[current])
  BY <1>7, <1>9, SublistFacts
<1>11. \A b \in 0..NumBuckets - 1 : \A t \in Seqs!ToSet(buckets[b]) :
            t \in Timers /\ elemTick[t] % NumBuckets = b
  BY <1>1 DEF WheelInv, WheelConsistent
<1>12. \A b \in 0..NumBuckets - 1 : \A t \in Seqs!ToSet(buckets[b]) \cap due : b = current
  BY <1>6, <1>11
<1>13. \A b \in 0..NumBuckets - 1 : Seqs!ToSet(buckets'[b]) = Seqs!ToSet(buckets[b]) \ due
  <2> SUFFICES ASSUME NEW b \in 0..NumBuckets - 1
               PROVE  Seqs!ToSet(buckets'[b]) = Seqs!ToSet(buckets[b]) \ due
    OBVIOUS
  <2>1. CASE b = current
    BY <1>1, <1>4, <1>10, <2>1
  <2>2. CASE b # current
    BY <1>9, <1>12, <2>2
  <2> QED BY <2>1, <2>2
<1>14. TimerTypeOK'
  <2>1. buckets' \in [0..NumBuckets - 1 -> Seq(Timers)]
    BY <1>2, <1>4, <1>9, <1>10 DEF WheelInv, TimerTypeOK
  <2> QED BY <1>2, <1>3, <1>8, <2>1 DEF WheelInv, TimerTypeOK
<1>15. WheelConsistent'
  <2>1. \A b \in 0..NumBuckets - 1 : Seqs!IsInjective(buckets'[b])
    BY <1>1, <1>9, <1>10 DEF WheelInv, WheelConsistent
  <2>2. \A b \in 0..NumBuckets - 1 : \A t \in Seqs!ToSet(buckets'[b]) :
            elemTick[t] % NumBuckets = b /\ t \notin Seqs!ToSet(timeoutList')
    BY <1>8, <1>11, <1>13
  <2>3. \A t \in Seqs!ToSet(timeoutList') : elemTick[t] = tick'
    BY <1>5, <1>8
  <2> QED BY <1>2, <1>8, <1>9, <2>1, <2>2, <2>3 DEF WheelConsistent
<1>16. Seqs!ToSet(timeoutList') =
            {t \in Timers : elemTick[t] = tick'
                            /\ \E b \in 0..NumBuckets - 1 : t \in Seqs!ToSet(buckets[b])}
  BY <1>1, <1>4, <1>5, <1>8, <1>12
<1>17. \A b \in 0..NumBuckets - 1 :
            Seqs!ToSet(buckets'[b]) = {t \in Seqs!ToSet(buckets[b]) : elemTick[t] # tick'}
  BY <1>1, <1>5, <1>13
<1> QED BY <1>14, <1>15, <1>16, <1>17 DEF WheelInv

LEMMA WheelStep == WheelInv /\ [TimerNext]_timerVars => WheelInv'
<1> SUFFICES ASSUME WheelInv, [TimerNext]_timerVars
             PROVE  WheelInv'
  OBVIOUS
<1>1. ASSUME NEW t \in Timers, NEW ms \in Timeouts, SoftTimerAdd(t, ms)
      PROVE  WheelInv'
  BY <1>1, WheelAdd
<1>2. ASSUME NEW t \in Timers, SoftTimerDel(t)
      PROVE  WheelInv'
  BY <1>2, WheelDel
<1>3. CASE TimerTick
  BY <1>3, WheelTick
<1>4. CASE ExpireTimer
  <2>1. /\ timeoutList # <<>> /\ firing' = Head(timeoutList)
        /\ timeoutList' = Tail(timeoutList) /\ UNCHANGED <<tick, elemTick, buckets>>
    BY <1>4 DEF ExpireTimer
  <2>2. timeoutList \in Seq(Timers) /\ Seqs!IsInjective(timeoutList)
    BY DEF WheelInv, TimerTypeOK, WheelConsistent
  <2>3. /\ firing' \in Timers /\ timeoutList' \in Seq(Timers)
        /\ Seqs!IsInjective(timeoutList')
        /\ Seqs!ToSet(timeoutList') \subseteq Seqs!ToSet(timeoutList)
    BY <2>1, <2>2, TailFacts
  <2>4. TimerTypeOK'
    BY <2>1, <2>3 DEF WheelInv, TimerTypeOK
  <2>5. WheelConsistent'
    BY <2>1, <2>3 DEF WheelInv, WheelConsistent
  <2> QED BY <2>4, <2>5 DEF WheelInv
<1>5. CASE HandlerReturns
  BY <1>5 DEF HandlerReturns, WheelInv, TimerTypeOK, WheelConsistent
<1>6. CASE UNCHANGED timerVars
  BY <1>6 DEF timerVars, wheelVars, WheelInv, TimerTypeOK, WheelConsistent
<1> QED BY <1>1, <1>2, <1>3, <1>4, <1>5, <1>6 DEF TimerNext, TimerDrive

-----------------------------------------------------------------------------
(* The wheel keeps the promise of Deadlines. *)

(* The ticks from now to the tick e, or a whole wrap. *)
TicksTo(e, now, W) == IF (e - now) % W = 0 THEN W ELSE (e - now) % W

InWheel(t) == \E b \in 0..NumBuckets - 1 : t \in Seqs!ToSet(buckets[b])

LEMMA LeftIs ==
    ASSUME TimerTypeOK, NEW t \in Timers
    PROVE  Left[t] = IF InWheel(t)
                     THEN TicksTo(elemTick[t], tick, TickWrap) ELSE 0
<1>1. DOMAIN buckets = 0..NumBuckets - 1
  BY DEF TimerTypeOK
<1>2. Left[t] = TicksLeft(t)
  BY DEF Left
<1> QED BY <1>1, <1>2 DEF TicksLeft, InWheel, TicksTo

LEMMA LeftIsNext ==
    ASSUME TimerTypeOK', NEW t \in Timers
    PROVE  Left'[t] = IF InWheel(t)'
                      THEN TicksTo(elemTick'[t], tick', TickWrap) ELSE 0
<1>1. DOMAIN buckets' = 0..NumBuckets - 1
  BY DEF TimerTypeOK
<1>2. Left'[t] = TicksLeft(t)'
  BY DEF Left
<1> QED BY <1>1, <1>2 DEF TicksLeft, InWheel, TicksTo

LEMMA LeftRange ==
    ASSUME TimerTypeOK, NEW t \in Timers
    PROVE  IF InWheel(t) THEN Left[t] \in 1..TickWrap ELSE Left[t] = 0
<1>1. TickWrap \in Nat \ {0} /\ elemTick[t] \in 0..TickWrap - 1 /\ tick \in 0..TickWrap - 1
  BY TimerConstants DEF TimerTypeOK
<1>2. elemTick[t] - tick \in Int
  BY <1>1
<1>3. (elemTick[t] - tick) % TickWrap \in 0..TickWrap - 1
  BY <1>1, <1>2, AroundWrap
<1>4. \A n \in 0..TickWrap - 1 : (IF n = 0 THEN TickWrap ELSE n) \in 1..TickWrap
  BY <1>1
<1> QED BY <1>3, <1>4, LeftIs DEF TicksTo

(* One tick brings every started timer one tick nearer; those that had one *)
(* tick left are the ones whose tick it now is.                            *)
LEMMA OneTickNearer ==
    ASSUME NEW W \in Nat \ {0}, NEW e \in 0..W - 1, NEW now \in 0..W - 1
    PROVE  /\ TicksTo(e, now, W) = 1 <=> e = (now + 1) % W
           /\ e # (now + 1) % W => TicksTo(e, now, W) - 1 = TicksTo(e, (now + 1) % W, W)
<1> DEFINE next == (now + 1) % W
<1>1. next = IF now + 1 < W THEN now + 1 ELSE 0
  <2>1. next = IF now + 1 < W THEN now + 1 ELSE now + 1 - W
    <3>1. 1 \in 0..W
      OBVIOUS
    <3> QED BY <3>1, SumAroundWrap
  <2> QED BY <2>1
<1>2. (e - now) % W = IF e >= now THEN e - now ELSE e - now + W
  BY DifferenceAroundWrap
<1>3. next \in 0..W - 1
  BY <1>1
<1> HIDE DEF next
<1>4. (e - next) % W = IF e >= next THEN e - next ELSE e - next + W
  BY <1>3, DifferenceAroundWrap
<1>5. /\ TicksTo(e, now, W) = 1 <=> e = next
      /\ e # next => TicksTo(e, now, W) - 1 = TicksTo(e, next, W)
  BY <1>1, <1>2, <1>3, <1>4 DEF TicksTo
<1> QED BY <1>5 DEF next

LEMMA TimerImplements ==
    ASSUME WheelInv, WheelInv', [TimerNext]_timerVars
    PROVE  [Promise!DeadlinesNext]_(Promise!deadlineVars)
<1> DEFINE exp == Seqs!ToSet(timeoutList)
<1>a. TimerTypeOK /\ TimerTypeOK' /\ WheelConsistent /\ WheelConsistent'
  BY DEF WheelInv
<1>b. /\ DOMAIN buckets = 0..NumBuckets - 1 /\ timeoutList \in Seq(Timers)
      /\ elemTick \in [Timers -> 0..TickWrap - 1] /\ tick \in 0..TickWrap - 1
      /\ NumBuckets \in Nat \ {0} /\ TickWrap \in Nat \ {0}
      /\ \A b \in 0..NumBuckets - 1 : Seqs!ToSet(buckets[b]) \subseteq Timers
      /\ exp \subseteq Timers
  BY <1>a, WheelTypes, TimerConstants
<1>c. Left = [t \in Timers |-> Left[t]] /\ Left' = [t \in Timers |-> Left'[t]]
  BY DEF Left
<1>1. ASSUME NEW t \in Timers, NEW ms \in Timeouts, SoftTimerAdd(t, ms), asked' = ms
      PROVE  Promise!Start(t, ms)
  <2> DEFINE ticks == TicksOf(ms)
             at == (tick + ticks) % TickWrap
             n == IF ticks = 0 THEN TickWrap ELSE ticks
             b0 == at % NumBuckets
  <2>1. /\ elemTick' = [elemTick EXCEPT ![t] = at]
        /\ buckets' = [buckets EXCEPT ![b0] = Append(@, t)]
        /\ UNCHANGED <<tick, timeoutList, firing>> /\ ~IsSoftTimerRunning(t)
    BY <1>1 DEF SoftTimerAdd
  <2>2. ticks \in 0..TickWrap - 1 /\ ms \in Int /\ (ms > 0 => ticks # 0 /\ Promise!OnTime(ms, ticks))
    <3>1. ms \in Int
      BY TimerConstants
    <3> QED BY <1>b, <3>1, TicksOfType, TicksOfOnTime
  <2>3. n \in 1..TickWrap /\ (ms > 0 => Promise!OnTime(ms, n))
    <3> HIDE DEF ticks
    <3> QED BY <1>b, <2>2
  <2>4. ~InWheel(t) /\ t \notin exp
    BY <1>b, <2>1 DEF IsSoftTimerRunning, InWheel
  <2>5. b0 \in 0..NumBuckets - 1 /\ at \in 0..TickWrap - 1
    <3>1. tick + ticks \in Int
      BY <1>b, <2>2
    <3>2. at \in 0..TickWrap - 1
      BY <1>b, <3>1, AroundWrap
    <3>3. at \in Int
      BY <1>b, <3>2
    <3> HIDE DEF at
    <3> QED BY <1>b, <3>2, <3>3, AroundWrap
  <2>6. (at - tick) % TickWrap = ticks
    <3> HIDE DEF ticks
    <3>1. at = IF tick + ticks < TickWrap THEN tick + ticks ELSE tick + ticks - TickWrap
      <4>1. TickWrap \in Nat \ {0} /\ ticks \in 0..TickWrap
        BY <1>b, <2>2
      <4> QED BY <1>b, <4>1, SumAroundWrap
    <3>2. CASE tick + ticks < TickWrap
      <4>1. at - tick = ticks /\ ticks \in Int /\ 0 <= ticks /\ ticks < TickWrap
        BY <1>b, <2>2, <3>1, <3>2
      <4> QED BY <1>b, <4>1, AroundWrap
    <3>3. CASE ~(tick + ticks < TickWrap)
      <4>1. /\ at - tick = ticks - TickWrap /\ ticks - TickWrap \in Int
            /\ -TickWrap <= ticks - TickWrap /\ ticks - TickWrap < 0
            /\ (ticks - TickWrap) + TickWrap = ticks
        BY <1>b, <2>2, <3>1, <3>3
      <4> QED BY <1>b, <4>1, AroundWrap
    <3> QED BY <3>2, <3>3
  <2> HIDE DEF at, b0
  <2>7. elemTick'[t] = at /\ \A u \in Timers : u # t => elemTick'[u] = elemTick[u]
    BY <1>b, <2>1
  <2>8. /\ Seqs!ToSet(buckets'[b0]) = Seqs!ToSet(buckets[b0]) \union {t}
        /\ \A b \in 0..NumBuckets - 1 : b # b0 => buckets'[b] = buckets[b]
    <3>1. buckets[b0] \in Seq(Timers) /\ buckets'[b0] = Append(buckets[b0], t)
      BY <1>a, <2>1, <2>5 DEF TimerTypeOK
    <3>2. Seqs!ToSet(buckets'[b0]) = Seqs!ToSet(buckets[b0]) \union {t}
      BY <3>1, AppendFacts
    <3> QED BY <1>b, <2>1, <2>5, <3>2
  <2>9. InWheel(t)'
    BY <2>5, <2>8 DEF InWheel
  <2>10. \A u \in Timers : u # t => (InWheel(u)' <=> InWheel(u))
    BY <2>5, <2>8 DEF InWheel
  <2>11. Left'[t] = n
    <3>1. Left'[t] = TicksTo(elemTick'[t], tick', TickWrap)
      BY <1>a, <2>9, LeftIsNext
    <3>2. tick' = tick
      BY <2>1
    <3> QED BY <2>6, <2>7, <3>1, <3>2 DEF TicksTo
  <2>12. \A u \in Timers : u # t => Left'[u] = Left[u]
    <3> SUFFICES ASSUME NEW u \in Timers, u # t
                 PROVE  Left'[u] = Left[u]
      OBVIOUS
    <3>1. tick' = tick /\ elemTick'[u] = elemTick[u] /\ (InWheel(u)' <=> InWheel(u))
      BY <2>1, <2>7, <2>10
    <3> QED BY <1>a, <3>1, LeftIs, LeftIsNext
  <2>13. Left[t] = 0
    BY <1>a, <2>4, LeftIs
  <2> HIDE DEF n
  <2>14. Left' = [Left EXCEPT ![t] = n]
    BY <1>c, <2>11, <2>12
  <2>15. UNCHANGED <<Seqs!ToSet(timeoutList), firing>>
    BY <2>1
  <2> QED BY <1>1, <2>3, <2>4, <2>13, <2>14, <2>15 DEF Promise!Start
<1>2. ASSUME NEW t \in Timers, SoftTimerDel(t)
      PROVE  Promise!Stop(t)
  <2>1. /\ Seqs!ToSet(timeoutList') = exp \ {t}
        /\ \A b \in 0..NumBuckets - 1 : Seqs!ToSet(buckets'[b]) = Seqs!ToSet(buckets[b]) \ {t}
    BY <1>2, WheelDel
  <2>2. UNCHANGED <<tick, elemTick, firing>>
    BY <1>2 DEF SoftTimerDel
  <2>3. ~InWheel(t)' /\ \A u \in Timers : u # t => (InWheel(u)' <=> InWheel(u))
    BY <2>1 DEF InWheel
  <2>4. Left'[t] = 0
    BY <1>a, <2>3, LeftIsNext
  <2>5. \A u \in Timers : u # t => Left'[u] = Left[u]
    BY <1>a, <2>2, <2>3, LeftIs, LeftIsNext
  <2>6. Left' = [Left EXCEPT ![t] = 0]
    BY <1>c, <2>4, <2>5
  <2> QED BY <2>1, <2>2, <2>6 DEF Promise!Stop
<1>3. ASSUME TimerTick
      PROVE  Promise!TickOn
  <2>1. timeoutList = <<>> /\ firing = NoTimer /\ tick' = (tick + 1) % TickWrap
        /\ UNCHANGED <<elemTick, firing>>
    BY <1>3 DEF TimerTick
  <2>2. /\ Seqs!ToSet(timeoutList') = {t \in Timers : elemTick[t] = tick' /\ InWheel(t)}
        /\ \A b \in 0..NumBuckets - 1 :
                Seqs!ToSet(buckets'[b]) = {t \in Seqs!ToSet(buckets[b]) : elemTick[t] # tick'}
    BY <1>3, WheelTick DEF InWheel
  <2>3. exp = {}
    BY <2>1 DEF Seqs!ToSet
  <2>4. \A t \in Timers : InWheel(t)' <=> (InWheel(t) /\ elemTick[t] # tick')
    BY <2>2 DEF InWheel
  <2>5. ASSUME NEW t \in Timers
        PROVE  /\ Left'[t] = IF Left[t] = 0 THEN 0 ELSE Left[t] - 1
               /\ Left[t] = 1 <=> (elemTick[t] = tick' /\ InWheel(t))
    <3>1. CASE ~InWheel(t)
      <4>1. Left[t] = 0 /\ ~InWheel(t)'
        BY <1>a, <2>4, <3>1, LeftIs
      <4>2. Left'[t] = 0
        BY <1>a, <4>1, LeftIsNext
      <4> QED BY <3>1, <4>1, <4>2
    <3>2. CASE InWheel(t)
      <4>1. elemTick[t] \in 0..TickWrap - 1 /\ elemTick'[t] = elemTick[t]
        BY <1>b, <2>1
      <4>2. Left[t] = TicksTo(elemTick[t], tick, TickWrap)
        BY <1>a, <3>2, LeftIs
      <4>3. Left[t] \in 1..TickWrap
        BY <1>a, <3>2, LeftRange
      <4>4. /\ Left[t] = 1 <=> elemTick[t] = tick'
            /\ elemTick[t] # tick' =>
                Left[t] - 1 = TicksTo(elemTick[t], tick', TickWrap)
        <5>1. TickWrap \in Nat \ {0} /\ tick \in 0..TickWrap - 1 /\ tick' = (tick + 1) % TickWrap
          BY <1>b, <2>1
        <5> DEFINE e == elemTick[t]
        <5>2. e \in 0..TickWrap - 1
          BY <4>1
        <5> HIDE DEF e
        <5>3. /\ TicksTo(e, tick, TickWrap) = 1 <=> e = (tick + 1) % TickWrap
              /\ e # (tick + 1) % TickWrap =>
                    TicksTo(e, tick, TickWrap) - 1
                        = TicksTo(e, (tick + 1) % TickWrap, TickWrap)
          BY <5>1, <5>2, OneTickNearer
        <5> QED BY <4>2, <5>1, <5>3 DEF e
      <4>5. CASE elemTick[t] = tick'
        <5>1. Left'[t] = 0
          BY <1>a, <2>4, <4>5, LeftIsNext
        <5> QED BY <3>2, <4>4, <4>5, <5>1
      <4>6. CASE elemTick[t] # tick'
        <5>1. InWheel(t)'
          BY <2>4, <3>2, <4>6
        <5>2. Left'[t] = Left[t] - 1
          BY <1>a, <4>1, <4>4, <4>6, <5>1, LeftIsNext
        <5>3. Left[t] # 0
          BY <1>b, <4>3
        <5> QED BY <4>4, <4>6, <5>2, <5>3
      <4> QED BY <4>5, <4>6
    <3> QED BY <3>1, <3>2
  <2>6. Left' = [t \in Timers |-> IF Left[t] = 0 THEN 0 ELSE Left[t] - 1]
    BY <1>c, <2>5
  <2>7. Seqs!ToSet(timeoutList') = {t \in Timers : Left[t] = 1}
    BY <2>2, <2>5
  <2> QED BY <2>1, <2>3, <2>6, <2>7 DEF Promise!TickOn
<1>4. ASSUME ExpireTimer
      PROVE  \E t \in Timers : Promise!Call(t)
  <2> DEFINE t == Head(timeoutList)
  <2>1. /\ firing = NoTimer /\ timeoutList # <<>> /\ firing' = t
        /\ timeoutList' = Tail(timeoutList) /\ UNCHANGED <<tick, elemTick, buckets>>
    BY <1>4 DEF ExpireTimer
  <2>2. t \in Timers /\ t \in exp /\ Seqs!ToSet(timeoutList') = exp \ {t}
    BY <1>a, <1>b, <2>1, TailFacts DEF WheelConsistent
  <2>3. Left' = Left
    BY <2>1 DEF Left, TicksLeft
  <2> HIDE DEF t
  <2>4. Promise!Call(t)
    BY <2>1, <2>2, <2>3 DEF Promise!Call
  <2> QED BY <2>2, <2>4
<1>5. ASSUME HandlerReturns
      PROVE  Promise!Done
  <2>1. firing # NoTimer /\ firing' = NoTimer /\ UNCHANGED <<tick, elemTick, buckets, timeoutList>>
    BY <1>5 DEF HandlerReturns
  <2>2. Left' = Left
    BY <2>1 DEF Left, TicksLeft
  <2> QED BY <2>1, <2>2 DEF Promise!Done
<1>6. CASE UNCHANGED timerVars
  <2>1. UNCHANGED <<tick, elemTick, buckets, timeoutList, firing, asked>>
    BY <1>6 DEF timerVars, wheelVars
  <2>2. Left' = Left
    BY <2>1 DEF Left, TicksLeft
  <2> QED BY <2>1, <2>2 DEF Promise!deadlineVars
<1> QED BY <1>1, <1>2, <1>3, <1>4, <1>5, <1>6 DEF TimerNext, TimerDrive, Promise!DeadlinesNext

(* Whatever is started and stopped, by whom and when, a timer is called    *)
(* once and at the first tick that is not too early, or not at all if it   *)
(* was stopped first: for wheels of every size, tick rates and timeouts.   *)
THEOREM TimersKeepDeadlines == TimerSpec => ImplementsDeadlines
<1>1. TimerInit => Promise!DeadlinesInit
  <2> SUFFICES ASSUME TimerInit PROVE Promise!DeadlinesInit
    OBVIOUS
  <2>1. Seqs!ToSet(timeoutList) = {} /\ firing = NoTimer /\ asked = NoTimer
    BY DEF TimerInit, Seqs!ToSet
  <2>2. \A t \in Timers : ~InWheel(t)
    BY DEF TimerInit, InWheel, Seqs!ToSet
  <2>3. TimerTypeOK
    BY WheelInit DEF WheelInv
  <2>4. \A t \in Timers : Left[t] = 0
    BY <2>2, <2>3, LeftIs
  <2>5. Left = [t \in Timers |-> 0]
    BY <2>4 DEF Left
  <2> QED BY <2>1, <2>5 DEF Promise!DeadlinesInit
<1>2. WheelInv /\ WheelInv' /\ [TimerNext]_timerVars => [Promise!DeadlinesNext]_(Promise!deadlineVars)
  BY TimerImplements
<1> QED
  BY <1>1, <1>2, WheelInit, WheelStep, PTL
     DEF TimerSpec, ImplementsDeadlines, Promise!DeadlinesSpec

-----------------------------------------------------------------------------
(* The linked lists: a head and the entries of a sequence, in a ring.      *)

(* What a pointer can be, and what the pointers of all nodes are. *)
Refs == Nodes \union {Null}
Memory == [next : [Nodes -> Refs], prev : [Nodes -> Refs]]

(* The node i places after h in the ring of h and the entries of s. *)
Pos(h, s, i) == IF i \in 1..Len(s) THEN s[i] ELSE h

Ring(m, h, s) ==
    \A i \in 0..Len(s) : /\ m.next[Pos(h, s, i)] = Pos(h, s, i + 1)
                         /\ m.prev[Pos(h, s, i + 1)] = Pos(h, s, i)

(* Entries, each once. *)
Single(s) == s \in Seq(Entries) /\ \A i, j \in 1..Len(s) : s[i] = s[j] => i = j

Within(s, x) == \E i \in 1..Len(s) : s[i] = x

(* Heads, entries and the null pointer are different things. *)
LEMMA NodesApart ==
    /\ ListHeads \subseteq Nodes /\ Entries \subseteq Nodes /\ Null \notin Nodes
    /\ \A h \in ListHeads : h \notin Entries
  BY NodesAssumption DEF Nodes

(* What an assignment to a pointer leaves. *)
LEMMA SetFacts ==
    ASSUME NEW m \in Memory, NEW n \in Nodes, NEW v \in Refs
    PROVE  /\ SetNext(m, n, v) \in Memory /\ SetPrev(m, n, v) \in Memory
           /\ \A x \in Nodes :
                /\ SetNext(m, n, v).next[x] = IF x = n THEN v ELSE m.next[x]
                /\ SetNext(m, n, v).prev[x] = m.prev[x]
                /\ SetPrev(m, n, v).prev[x] = IF x = n THEN v ELSE m.prev[x]
                /\ SetPrev(m, n, v).next[x] = m.next[x]
  BY DEF SetNext, SetPrev, Memory

(* The pointers of every node are somewhere. *)
LEMMA MemoryFacts ==
    ASSUME NEW m \in Memory
    PROVE  m.next \in [Nodes -> Refs] /\ m.prev \in [Nodes -> Refs]
  BY DEF Memory

(* The places of a ring: each of its nodes has one. *)
LEMMA PosFacts ==
    ASSUME NEW h \in ListHeads, NEW s, Single(s)
    PROVE  /\ Len(s) \in Nat
           /\ \A i \in Int : Pos(h, s, i) \in Nodes
           /\ \A i \in 1..Len(s) : Pos(h, s, i) = s[i] /\ s[i] \in Entries /\ s[i] # h
           /\ Pos(h, s, 0) = h /\ Pos(h, s, Len(s) + 1) = h
           /\ \A i, j \in 0..Len(s) : Pos(h, s, i) = Pos(h, s, j) => i = j
           /\ \A i, j \in 1..Len(s) + 1 : Pos(h, s, i) = Pos(h, s, j) => i = j
<1>1. Len(s) \in Nat /\ \A i \in 1..Len(s) : s[i] \in Entries
  BY DEF Single
<1>2. \A i \in 1..Len(s) : s[i] # h /\ s[i] \in Nodes
  BY <1>1, NodesApart
<1>3. h \in Nodes
  BY NodesApart
<1>4. \A i, j \in 1..Len(s) : s[i] = s[j] => i = j
  BY DEF Single
<1>5. /\ \A i \in 1..Len(s) : Pos(h, s, i) = s[i]
      /\ \A i : i \notin 1..Len(s) => Pos(h, s, i) = h
  BY DEF Pos
<1> HIDE DEF Pos
<1>6. \A i, j \in 0..Len(s) : Pos(h, s, i) = Pos(h, s, j) => i = j
  <2>1. \A i \in 0..Len(s) : i = 0 \/ i \in 1..Len(s)
    BY <1>1
  <2>2. 0 \notin 1..Len(s)
    OBVIOUS
  <2> QED BY <1>2, <1>4, <1>5, <2>1, <2>2
<1>7. \A i, j \in 1..Len(s) + 1 : Pos(h, s, i) = Pos(h, s, j) => i = j
  <2>1. \A i \in 1..Len(s) + 1 : i = Len(s) + 1 \/ i \in 1..Len(s)
    BY <1>1
  <2>2. Len(s) + 1 \notin 1..Len(s)
    BY <1>1
  <2> QED BY <1>2, <1>4, <1>5, <2>1, <2>2
<1>8. 0 \notin 1..Len(s) /\ Len(s) + 1 \notin 1..Len(s)
  BY <1>1
<1> QED BY <1>1, <1>2, <1>3, <1>5, <1>6, <1>7, <1>8

(* __list_add *)
LEMMA LinkFactsOf ==
    ASSUME NEW m \in Memory, NEW e \in Nodes, NEW p \in Nodes, NEW q \in Nodes, e # p, e # q
    PROVE  LET m2 == LinkBetween(m, e, p, q) IN
           /\ m2 \in Memory
           /\ \A x \in Nodes : /\ m2.next[x] = IF x = p THEN e ELSE IF x = e THEN q ELSE m.next[x]
                               /\ m2.prev[x] = IF x = e THEN p ELSE IF x = q THEN e ELSE m.prev[x]
<1> DEFINE m1 == SetPrev(m, q, e)
           m2 == SetNext(m1, e, q)
           m3 == SetPrev(m2, e, p)
           m4 == SetNext(m3, p, e)
<1>0. e \in Refs /\ p \in Refs /\ q \in Refs
  BY DEF Refs
<1>1. /\ m1 \in Memory
      /\ \A x \in Nodes : m1.next[x] = m.next[x] /\ m1.prev[x] = IF x = q THEN e ELSE m.prev[x]
  BY <1>0, SetFacts
<1>2. ASSUME m1 \in Memory PROVE  /\ m2 \in Memory
      /\ \A x \in Nodes : m2.prev[x] = m1.prev[x] /\ m2.next[x] = IF x = e THEN q ELSE m1.next[x]
  <2> HIDE DEF m1
  <2> QED BY <1>0, <1>2, SetFacts
<1>3. ASSUME m2 \in Memory PROVE  /\ m3 \in Memory
      /\ \A x \in Nodes : m3.next[x] = m2.next[x] /\ m3.prev[x] = IF x = e THEN p ELSE m2.prev[x]
  <2> HIDE DEF m2
  <2> QED BY <1>0, <1>3, SetFacts
<1>4. ASSUME m3 \in Memory PROVE  /\ m4 \in Memory
      /\ \A x \in Nodes : m4.prev[x] = m3.prev[x] /\ m4.next[x] = IF x = p THEN e ELSE m3.next[x]
  <2> HIDE DEF m3
  <2> QED BY <1>0, <1>4, SetFacts
<1>5. LinkBetween(m, e, p, q) = m4
  BY DEF LinkBetween
<1> HIDE DEF m1, m2, m3, m4
<1>6. m4 \in Memory
  BY <1>1, <1>2, <1>3, <1>4
<1>7. \A x \in Nodes : /\ m4.next[x] = IF x = p THEN e ELSE IF x = e THEN q ELSE m.next[x]
                       /\ m4.prev[x] = IF x = e THEN p ELSE IF x = q THEN e ELSE m.prev[x]
  BY <1>1, <1>2, <1>3, <1>4
<1> QED BY <1>5, <1>6, <1>7

(* s with e behind its first k entries. *)
InsertAfter(s, k, e) ==
    [i \in 1..Len(s) + 1 |-> IF i <= k THEN s[i] ELSE IF i = k + 1 THEN e ELSE s[i - 1]]

(* An insertion adds the entry and nothing else. *)
LEMMA InsertSingle ==
    ASSUME NEW s, Single(s), NEW k \in 0..Len(s), NEW e \in Entries, ~Within(s, e)
    PROVE  /\ Single(InsertAfter(s, k, e))
           /\ Len(InsertAfter(s, k, e)) = Len(s) + 1
           /\ \A x : Within(InsertAfter(s, k, e), x) <=> x = e \/ Within(s, x)
<1> DEFINE r == InsertAfter(s, k, e)
           n == Len(s)
<1>1. n \in Nat /\ k \in Nat /\ k <= n /\ \A i \in 1..n : s[i] \in Entries /\ s[i] # e
  BY DEF Single, Within
<1>2. /\ \A i \in 1..n + 1 : r[i] = IF i <= k THEN s[i] ELSE IF i = k + 1 THEN e ELSE s[i - 1]
      /\ DOMAIN r = 1..n + 1 /\ r = [i \in 1..n + 1 |-> r[i]]
  BY DEF InsertAfter
<1> HIDE DEF r
<1>3. \A i \in 1..n + 1 : r[i] = e \/ (i <= k /\ i \in 1..n /\ r[i] = s[i]) \/ (i > k + 1 /\ i - 1 \in 1..n /\ r[i] = s[i - 1])
  BY <1>1, <1>2
<1>4. r \in Seq(Entries) /\ Len(r) = n + 1
  <2>1. \A i \in 1..n + 1 : r[i] \in Entries
    BY <1>1, <1>3
  <2>2. r \in [1..n + 1 -> Entries] /\ n + 1 \in Nat
    BY <1>1, <1>2, <2>1
  <2> QED BY <2>2
<1>5. ASSUME NEW i \in 1..n + 1, NEW j \in 1..n + 1, r[i] = r[j]
      PROVE  i = j
  <2>1. \A a, b \in 1..n : s[a] = s[b] => a = b
    BY DEF Single
  <2>2. \A a \in 1..n + 1 : r[a] = e => a = k + 1
    <3> SUFFICES ASSUME NEW a \in 1..n + 1, a # k + 1 PROVE r[a] # e
      OBVIOUS
    <3>1. (a <= k /\ a \in 1..n) \/ (a > k + 1 /\ ~(a <= k) /\ a - 1 \in 1..n)
      BY <1>1
    <3> QED BY <1>1, <1>2, <3>1
  <2> HIDE DEF n
  <2> QED BY <1>1, <1>3, <1>5, <2>1, <2>2
<1>6. ASSUME NEW x
      PROVE  Within(r, x) <=> x = e \/ Within(s, x)
  <2>1. Within(r, x) => x = e \/ Within(s, x)
    BY <1>1, <1>3, <1>4 DEF Within
  <2>2. Within(r, e)
    <3>1. k + 1 \in 1..n + 1 /\ ~(k + 1 <= k)
      BY <1>1
    <3> QED BY <1>2, <1>4, <3>1 DEF Within
  <2>3. ASSUME NEW j \in 1..n, s[j] = x PROVE Within(r, x)
    <3>1. CASE j <= k
      <4>1. j \in 1..n + 1
        BY <1>1
      <4> QED BY <1>2, <1>4, <2>3, <3>1, <4>1 DEF Within
    <3>2. CASE ~(j <= k)
      <4>1. j + 1 \in 1..n + 1 /\ ~(j + 1 <= k) /\ j + 1 # k + 1 /\ (j + 1) - 1 = j
        BY <1>1, <3>2
      <4> QED BY <1>2, <1>4, <2>3, <4>1 DEF Within
    <3> QED BY <3>1, <3>2
  <2> QED BY <2>1, <2>2, <2>3 DEF Within
<1> QED BY <1>4, <1>5, <1>6 DEF r, Single

(* __list_add between neighbours of a ring leaves a ring with the entry in *)
(* between, and nodes that are not in it alone.                            *)
LEMMA RingInsert ==
    ASSUME NEW m \in Memory, NEW h \in ListHeads, NEW s, Single(s), Ring(m, h, s),
           NEW k \in 0..Len(s), NEW e \in Entries, ~Within(s, e)
    PROVE  LET m2 == LinkBetween(m, e, Pos(h, s, k), Pos(h, s, k + 1)) IN
           /\ m2 \in Memory
           /\ Ring(m2, h, InsertAfter(s, k, e))
           /\ \A x \in Nodes \ {h, e} : ~Within(s, x) => m2.next[x] = m.next[x] /\ m2.prev[x] = m.prev[x]
<1> DEFINE p == Pos(h, s, k)
           q == Pos(h, s, k + 1)
           m2 == LinkBetween(m, e, p, q)
           r == InsertAfter(s, k, e)
           n == Len(s)
<1>1. /\ n \in Nat /\ k \in Nat /\ k <= n /\ p \in Nodes /\ q \in Nodes /\ e \in Nodes
      /\ \A i \in 1..n : Pos(h, s, i) = s[i] /\ s[i] # e
      /\ Pos(h, s, 0) = h /\ Pos(h, s, n + 1) = h /\ e # h
  BY PosFacts, NodesApart DEF Within
<1>2. e # p /\ e # q /\ (p = h \/ Within(s, p)) /\ (q = h \/ Within(s, q))
  BY <1>1 DEF Pos, Within
<1>3. /\ m2 \in Memory
      /\ \A x \in Nodes : /\ m2.next[x] = IF x = p THEN e ELSE IF x = e THEN q ELSE m.next[x]
                          /\ m2.prev[x] = IF x = e THEN p ELSE IF x = q THEN e ELSE m.prev[x]
  BY <1>1, <1>2, LinkFactsOf
<1>4. /\ \A i \in 0..k : Pos(h, r, i) = Pos(h, s, i)
      /\ Pos(h, r, k + 1) = e
      /\ \A i \in k + 2..n + 2 : Pos(h, r, i) = Pos(h, s, i - 1)
  <2>1. Len(r) = n + 1
    BY InsertSingle
  <2>2. \A i \in 1..n + 1 : r[i] = IF i <= k THEN s[i] ELSE IF i = k + 1 THEN e ELSE s[i - 1]
    BY DEF InsertAfter
  <2> HIDE DEF r
  <2> QED BY <1>1, <2>1, <2>2 DEF Pos
<1>5. /\ \A i, j \in 0..n : Pos(h, s, i) = Pos(h, s, j) => i = j
      /\ \A i, j \in 1..n + 1 : Pos(h, s, i) = Pos(h, s, j) => i = j
      /\ \A i \in 0..n : /\ m.next[Pos(h, s, i)] = Pos(h, s, i + 1)
                         /\ m.prev[Pos(h, s, i + 1)] = Pos(h, s, i)
      /\ \A i \in 0..n + 1 : Pos(h, s, i) \in Nodes
      /\ \A i \in 0..n + 1 : Pos(h, s, i) # e
  <2>1. \A i \in 0..n + 1 : Pos(h, s, i) # e
    BY <1>1 DEF Pos
  <2> QED BY <1>1, <2>1, PosFacts DEF Ring
<1> HIDE DEF m2
<1>6. ASSUME NEW i \in 0..n + 1
      PROVE  m2.next[Pos(h, r, i)] = Pos(h, r, i + 1) /\ m2.prev[Pos(h, r, i + 1)] = Pos(h, r, i)
  <2>1. CASE i < k
    <3>1. i \in 0..k /\ i + 1 \in 0..k /\ i \in 0..n /\ k \in 0..n /\ i # k
          /\ i + 1 \in 1..n + 1 /\ k + 1 \in 1..n + 1 /\ i + 1 # k + 1 /\ i + 1 \in 0..n + 1 /\ i \in 0..n + 1
      BY <1>1, <2>1
    <3>2. Pos(h, s, i) # p /\ Pos(h, s, i + 1) # q
      BY <1>5, <3>1
    <3> QED BY <1>3, <1>4, <1>5, <3>1, <3>2
  <2>2. CASE i = k
    <3>1. k \in 0..k
      BY <1>1
    <3> QED BY <1>1, <1>2, <1>3, <1>4, <2>2, <3>1
  <2>3. CASE i = k + 1
    <3>1. k + 2 \in k + 2..n + 2 /\ (k + 2) - 1 = k + 1 /\ (k + 1) + 1 = k + 2
      BY <1>1
    <3>2. Pos(h, r, k + 2) = q
      BY <1>4, <3>1
    <3> QED BY <1>1, <1>2, <1>3, <1>4, <2>3, <3>1, <3>2
  <2>4. CASE i > k + 1
    <3>1. i \in k + 2..n + 2 /\ i + 1 \in k + 2..n + 2 /\ i - 1 \in 0..n /\ k \in 0..n /\ i - 1 # k
          /\ (i + 1) - 1 = (i - 1) + 1 /\ i \in 1..n + 1 /\ k + 1 \in 1..n + 1 /\ i # k + 1
          /\ i - 1 \in 0..n + 1 /\ i \in 0..n + 1 /\ (i - 1) + 1 = i
      BY <1>1, <2>4
    <3>2. Pos(h, s, i - 1) # p /\ Pos(h, s, i) # q
      BY <1>5, <3>1
    <3> QED BY <1>3, <1>4, <1>5, <3>1, <3>2
  <2> QED BY <1>1, <2>1, <2>2, <2>3, <2>4
<1>7. Ring(m2, h, r)
  <2>1. Len(r) = n + 1
    BY InsertSingle
  <2> QED BY <1>6, <2>1 DEF Ring
<1>8. \A x \in Nodes \ {h, e} : ~Within(s, x) => m2.next[x] = m.next[x] /\ m2.prev[x] = m.prev[x]
  BY <1>2, <1>3
<1> QED BY <1>3, <1>7, <1>8 DEF m2

(* s without its k-th entry. *)
DropAt(s, k) == [i \in 1..Len(s) - 1 |-> IF i < k THEN s[i] ELSE s[i + 1]]

(* A removal takes the entry and nothing else. *)
LEMMA DropSingle ==
    ASSUME NEW s, Single(s), NEW k \in 1..Len(s)
    PROVE  /\ Single(DropAt(s, k))
           /\ Len(DropAt(s, k)) = Len(s) - 1
           /\ \A x : Within(DropAt(s, k), x) <=> x # s[k] /\ Within(s, x)
<1> DEFINE r == DropAt(s, k)
           n == Len(s)
<1>1. n \in Nat /\ k \in Nat /\ 1 <= k /\ k <= n /\ \A i \in 1..n : s[i] \in Entries
  BY DEF Single
<1>2. /\ \A i \in 1..n - 1 : r[i] = IF i < k THEN s[i] ELSE s[i + 1]
      /\ r = [i \in 1..n - 1 |-> r[i]]
  BY DEF DropAt
<1> HIDE DEF r
<1>3. \A i \in 1..n - 1 : \/ i < k /\ i \in 1..n /\ r[i] = s[i]
                          \/ ~(i < k) /\ i + 1 \in 1..n /\ r[i] = s[i + 1]
  BY <1>1, <1>2
<1>4. r \in Seq(Entries) /\ Len(r) = n - 1
  <2>1. r \in [1..n - 1 -> Entries] /\ n - 1 \in Nat
    BY <1>1, <1>2, <1>3
  <2> QED BY <2>1
<1>5. \A a, b \in 1..n : s[a] = s[b] => a = b
  BY DEF Single
<1>6. ASSUME NEW i \in 1..n - 1, NEW j \in 1..n - 1, r[i] = r[j]
      PROVE  i = j
  <2> HIDE DEF n
  <2> QED BY <1>1, <1>3, <1>5, <1>6
<1>7. ASSUME NEW x
      PROVE  Within(r, x) <=> x # s[k] /\ Within(s, x)
  <2>1. ASSUME Within(r, x) PROVE x # s[k] /\ Within(s, x)
    <3>1. PICK i \in 1..n - 1 : r[i] = x
      BY <1>4, <2>1 DEF Within
    <3>2. (i # k /\ i + 1 # k) \/ i + 1 = k \/ i = k
      OBVIOUS
    <3> HIDE DEF n
    <3>3. PICK j \in 1..n : s[j] = x /\ j # k
      BY <1>1, <1>3, <3>1
    <3> USE DEF n
    <3> QED BY <1>1, <1>5, <3>3 DEF Within
  <2>2. ASSUME x # s[k], Within(s, x) PROVE Within(r, x)
    <3>1. PICK j \in 1..n : s[j] = x
      BY <2>2 DEF Within
    <3>2. j # k
      BY <2>2, <3>1
    <3>3. CASE j < k
      <4>1. j \in 1..n - 1 /\ j < k
        BY <1>1, <3>3
      <4>2. r[j] = x
        BY <1>2, <3>1, <4>1
      <4> QED BY <1>4, <4>1, <4>2 DEF Within
    <3>4. CASE k < j
      <4>1. j - 1 \in 1..n - 1 /\ ~(j - 1 < k) /\ (j - 1) + 1 = j
        BY <1>1, <3>4
      <4>2. r[j - 1] = x
        BY <1>2, <3>1, <4>1
      <4> QED BY <1>4, <4>1, <4>2 DEF Within
    <3> QED BY <1>1, <3>2, <3>3, <3>4
  <2> QED BY <2>1, <2>2
<1>8. Single(r)
  BY <1>4, <1>6 DEF Single
<1> QED BY <1>4, <1>7, <1>8 DEF r

(* __list_del_entry *)
LEMMA UnlinkFactsOf ==
    ASSUME NEW m \in Memory, NEW e \in Nodes, NEW p \in Nodes, NEW q \in Nodes,
           m.prev[e] = p, m.next[e] = q
    PROVE  /\ DelEntry(m, e) \in Memory
           /\ \A x \in Nodes : /\ DelEntry(m, e).next[x] = IF x = p THEN q ELSE m.next[x]
                               /\ DelEntry(m, e).prev[x] = IF x = q THEN p ELSE m.prev[x]
<1> DEFINE m1 == SetPrev(m, q, p)
           m2 == SetNext(m1, p, q)
<1>0. p \in Refs /\ q \in Refs
  BY DEF Refs
<1>1. /\ m1 \in Memory
      /\ \A x \in Nodes : m1.next[x] = m.next[x] /\ m1.prev[x] = IF x = q THEN p ELSE m.prev[x]
  BY <1>0, SetFacts
<1>2. ASSUME m1 \in Memory
      PROVE  /\ m2 \in Memory
             /\ \A x \in Nodes : m2.prev[x] = m1.prev[x] /\ m2.next[x] = IF x = p THEN q ELSE m1.next[x]
  <2> HIDE DEF m1
  <2> QED BY <1>0, <1>2, SetFacts
<1>3. DelEntry(m, e) = m2
  BY DEF DelEntry
<1> HIDE DEF m1, m2
<1> QED BY <1>1, <1>2, <1>3

(* __list_del_entry of an entry of a ring leaves a ring without it. *)
LEMMA RingRemove ==
    ASSUME NEW m \in Memory, NEW h \in ListHeads, NEW s, Single(s), Ring(m, h, s),
           NEW k \in 1..Len(s)
    PROVE  LET m2 == DelEntry(m, s[k]) IN
           /\ m2 \in Memory
           /\ Ring(m2, h, DropAt(s, k))
           /\ \A x \in Nodes \ {h} : ~Within(s, x) => m2.next[x] = m.next[x] /\ m2.prev[x] = m.prev[x]
<1> DEFINE e == s[k]
           p == Pos(h, s, k - 1)
           q == Pos(h, s, k + 1)
           m2 == DelEntry(m, e)
           r == DropAt(s, k)
           n == Len(s)
<1>1. /\ n \in Nat /\ k \in Nat /\ 1 <= k /\ k <= n /\ p \in Nodes /\ q \in Nodes
      /\ \A i \in 1..n : Pos(h, s, i) = s[i] /\ s[i] \in Nodes
      /\ Pos(h, s, 0) = h /\ Pos(h, s, n + 1) = h
  BY PosFacts, NodesApart
<1>2. /\ \A i, j \in 0..n : Pos(h, s, i) = Pos(h, s, j) => i = j
      /\ \A i, j \in 1..n + 1 : Pos(h, s, i) = Pos(h, s, j) => i = j
      /\ \A i \in 0..n : /\ m.next[Pos(h, s, i)] = Pos(h, s, i + 1)
                         /\ m.prev[Pos(h, s, i + 1)] = Pos(h, s, i)
      /\ \A i \in 0..n + 1 : Pos(h, s, i) \in Nodes
  BY <1>1, PosFacts DEF Ring
<1>3. e \in Nodes /\ m.prev[e] = p /\ m.next[e] = q /\ (p = h \/ Within(s, p)) /\ (q = h \/ Within(s, q))
  <2>1. k - 1 \in 0..n /\ k \in 0..n /\ (k - 1) + 1 = k
    BY <1>1
  <2> QED BY <1>1, <1>2, <2>1 DEF Pos, Within
<1>4. /\ m2 \in Memory
      /\ \A x \in Nodes : /\ m2.next[x] = IF x = p THEN q ELSE m.next[x]
                          /\ m2.prev[x] = IF x = q THEN p ELSE m.prev[x]
  BY <1>1, <1>3, UnlinkFactsOf
<1>5. /\ \A i \in 0..k - 1 : Pos(h, r, i) = Pos(h, s, i)
      /\ \A i \in k..n : Pos(h, r, i) = Pos(h, s, i + 1)
  <2>1. Len(r) = n - 1
    BY DropSingle
  <2>2. \A i \in 1..n - 1 : r[i] = IF i < k THEN s[i] ELSE s[i + 1]
    BY DEF DropAt
  <2> HIDE DEF r
  <2> QED BY <1>1, <2>1, <2>2 DEF Pos
<1> HIDE DEF m2
<1>6. ASSUME NEW i \in 0..n - 1
      PROVE  m2.next[Pos(h, r, i)] = Pos(h, r, i + 1) /\ m2.prev[Pos(h, r, i + 1)] = Pos(h, r, i)
  <2>1. CASE i < k - 1
    <3>1. i \in 0..k - 1 /\ i + 1 \in 0..k - 1 /\ i \in 0..n /\ k - 1 \in 0..n /\ i # k - 1
          /\ i + 1 \in 1..n + 1 /\ k + 1 \in 1..n + 1 /\ i + 1 # k + 1 /\ i + 1 \in 0..n + 1 /\ i \in 0..n + 1
      BY <1>1, <2>1
    <3>2. Pos(h, s, i) # p /\ Pos(h, s, i + 1) # q
      BY <1>2, <3>1
    <3> QED BY <1>2, <1>4, <1>5, <3>1, <3>2
  <2>2. CASE i = k - 1
    <3>1. k - 1 \in 0..k - 1 /\ k \in k..n /\ (k - 1) + 1 = k
      BY <1>1
    <3>2. Pos(h, r, i) = p /\ Pos(h, r, i + 1) = q
      BY <1>5, <2>2, <3>1
    <3> QED BY <1>1, <1>4, <3>2
  <2>3. CASE i > k - 1
    <3>1. i \in k..n /\ i + 1 \in k..n /\ i + 1 \in 0..n /\ k - 1 \in 0..n /\ i + 1 # k - 1
          /\ (i + 1) + 1 \in 1..n + 1 /\ k + 1 \in 1..n + 1 /\ (i + 1) + 1 # k + 1
          /\ i + 1 \in 0..n + 1 /\ (i + 1) + 1 \in 0..n + 1
      BY <1>1, <2>3
    <3>2. Pos(h, s, i + 1) # p /\ Pos(h, s, (i + 1) + 1) # q
      BY <1>2, <3>1
    <3> QED BY <1>2, <1>4, <1>5, <3>1, <3>2
  <2> QED BY <1>1, <2>1, <2>2, <2>3
<1>7. Ring(m2, h, r)
  <2>1. Len(r) = n - 1
    BY DropSingle
  <2> QED BY <1>6, <2>1 DEF Ring
<1>8. \A x \in Nodes \ {h} : ~Within(s, x) => m2.next[x] = m.next[x] /\ m2.prev[x] = m.prev[x]
  BY <1>3, <1>4
<1> QED BY <1>4, <1>7, <1>8 DEF m2

-----------------------------------------------------------------------------
(* A memory that holds lists. *)

In(L, x) == \E h \in ListHeads : Within(L[h], x)

(* The pointers of an entry that is in no list. *)
IdleAt(m, x) ==
    \/ m.next[x] = x /\ m.prev[x] = x
    \/ m.next[x] = Null /\ m.prev[x] = Null

(* Memory m holds the lists L.  An entry of none of them has pointers to   *)
(* itself or none, but for the entries of X, which an operation is at.     *)
Holds(m, L, X) ==
    /\ m \in Memory /\ L \in [ListHeads -> Seq(Entries)]
    /\ \A h \in ListHeads : Single(L[h]) /\ Ring(m, h, L[h])
    /\ \A g, h \in ListHeads : g # h => \A x : ~(Within(L[g], x) /\ Within(L[h], x))
    /\ \A x \in Entries \ X : ~In(L, x) => IdleAt(m, x)

(* A ring whose nodes are not written stays one. *)
LEMMA RingElsewhere ==
    ASSUME NEW m \in Memory, NEW m2 \in Memory, NEW h \in ListHeads, NEW s, Single(s), Ring(m, h, s),
           \A x \in Nodes : x = h \/ Within(s, x) => m2.next[x] = m.next[x] /\ m2.prev[x] = m.prev[x]
    PROVE  Ring(m2, h, s)
<1>1. ASSUME NEW i \in 0..Len(s) + 1
      PROVE  Pos(h, s, i) \in Nodes /\ (Pos(h, s, i) = h \/ Within(s, Pos(h, s, i)))
  <2>1. Pos(h, s, i) \in Nodes
    BY PosFacts
  <2> QED BY <2>1 DEF Pos, Within
<1>2. Len(s) \in Nat
  BY PosFacts
<1>3. \A i \in 0..Len(s) : i \in 0..Len(s) + 1 /\ i + 1 \in 0..Len(s) + 1
  BY <1>2
<1> QED BY <1>1, <1>3 DEF Ring

(* What it takes to change one list. *)
LEMMA OneList ==
    ASSUME NEW m, NEW L, NEW X, Holds(m, L, X), NEW h \in ListHeads, NEW s, Single(s),
           NEW m2 \in Memory, Ring(m2, h, s), NEW Y,
           \A x : Within(s, x) => Within(L[h], x) \/ ~In(L, x),
           \A x \in Nodes \ {h} : ~Within(L[h], x) /\ ~Within(s, x) =>
                m2.next[x] = m.next[x] /\ m2.prev[x] = m.prev[x],
           \A x \in Entries \ Y : ~Within(s, x) /\ (x \in X \/ Within(L[h], x)) => IdleAt(m2, x)
    PROVE  Holds(m2, [L EXCEPT ![h] = s], Y)
<1> DEFINE K == [L EXCEPT ![h] = s]
<1>1. /\ K \in [ListHeads -> Seq(Entries)] /\ K[h] = s /\ \A g \in ListHeads \ {h} : K[g] = L[g]
      /\ m \in Memory
      /\ \A g \in ListHeads : Single(L[g]) /\ Ring(m, g, L[g])
  BY DEF Holds, Single
<1> HIDE DEF K
<1>2. \A g, f \in ListHeads : g # f => \A x : ~(Within(L[g], x) /\ Within(L[f], x))
  BY DEF Holds
<1>3. ASSUME NEW g \in ListHeads \ {h}
      PROVE  \A x : Within(L[g], x) => ~Within(L[h], x) /\ ~Within(s, x)
  BY <1>2 DEF In
<1>4. \A g, f \in ListHeads : g # f => \A x : ~(Within(K[g], x) /\ Within(K[f], x))
  BY <1>1, <1>2, <1>3
<1>5. ASSUME NEW g \in ListHeads
      PROVE  Single(K[g]) /\ Ring(m2, g, K[g])
  <2>1. CASE g = h
    BY <1>1, <2>1
  <2>2. CASE g # h
    <3>1. ~Within(L[h], g) /\ ~Within(s, g)
      BY <1>1, NodesApart DEF Within, Single
    <3>2. \A x \in Nodes : x = g \/ Within(L[g], x) => m2.next[x] = m.next[x] /\ m2.prev[x] = m.prev[x]
      <4>1. ASSUME NEW x \in Nodes, Within(L[g], x) PROVE x # h
        BY <1>1, <4>1, NodesApart DEF Within, Single
      <4> QED BY <1>3, <2>2, <3>1, <4>1
    <3>3. Ring(m2, g, L[g])
      BY <1>1, <3>2, RingElsewhere
    <3> QED BY <1>1, <2>2, <3>3
  <2> QED BY <2>1, <2>2
<1>6. ASSUME NEW x \in Entries \ Y, ~In(K, x)
      PROVE  IdleAt(m2, x)
  <2>1. ~Within(s, x) /\ \A g \in ListHeads \ {h} : ~Within(L[g], x)
    BY <1>1, <1>6 DEF In
  <2>2. CASE x \in X \/ Within(L[h], x)
    BY <2>1, <2>2
  <2>3. CASE x \notin X /\ ~Within(L[h], x)
    <3>1. ~In(L, x)
      BY <2>1, <2>3 DEF In
    <3>2. IdleAt(m, x)
      BY <2>3, <3>1 DEF Holds
    <3>3. x \in Nodes \ {h}
      BY NodesApart
    <3> QED BY <2>1, <2>3, <3>2, <3>3 DEF IdleAt
  <2> QED BY <2>2, <2>3
<1>7. Holds(m2, K, Y)
  BY <1>1, <1>4, <1>5, <1>6 DEF Holds
<1> QED BY <1>7 DEF K

(* The same for two lists, between which entries move. *)
LEMMA TwoLists ==
    ASSUME NEW m, NEW L, Holds(m, L, {}), NEW g \in ListHeads, NEW h \in ListHeads, g # h,
           NEW s, Single(s), NEW t, Single(t),
           NEW m2 \in Memory, Ring(m2, g, s), Ring(m2, h, t),
           \A x : ~(Within(s, x) /\ Within(t, x)),
           \A x : Within(s, x) \/ Within(t, x) <=> Within(L[g], x) \/ Within(L[h], x),
           \A x \in Nodes \ {g, h} : ~Within(L[g], x) /\ ~Within(L[h], x) =>
                m2.next[x] = m.next[x] /\ m2.prev[x] = m.prev[x]
    PROVE  Holds(m2, [L EXCEPT ![g] = s, ![h] = t], {})
<1> DEFINE K == [L EXCEPT ![g] = s, ![h] = t]
<1>1. /\ K \in [ListHeads -> Seq(Entries)] /\ K[g] = s /\ K[h] = t
      /\ \A f \in ListHeads \ {g, h} : K[f] = L[f]
      /\ m \in Memory
      /\ \A f \in ListHeads : Single(L[f]) /\ Ring(m, f, L[f])
  BY DEF Holds, Single
<1> HIDE DEF K
<1>2. \A e, f \in ListHeads : e # f => \A x : ~(Within(L[e], x) /\ Within(L[f], x))
  BY DEF Holds
<1>3. ASSUME NEW f \in ListHeads \ {g, h}
      PROVE  \A x : Within(L[f], x) => ~Within(L[g], x) /\ ~Within(L[h], x) /\ ~Within(s, x) /\ ~Within(t, x)
  BY <1>2
<1>4. \A e, f \in ListHeads : e # f => \A x : ~(Within(K[e], x) /\ Within(K[f], x))
  BY <1>1, <1>2, <1>3
<1>5. ASSUME NEW f \in ListHeads
      PROVE  Single(K[f]) /\ Ring(m2, f, K[f])
  <2>1. CASE f = g \/ f = h
    BY <1>1, <2>1
  <2>2. CASE f # g /\ f # h
    <3>1. ~Within(L[g], f) /\ ~Within(L[h], f)
      BY <1>1, NodesApart DEF Within, Single
    <3>2. \A x \in Nodes : x = f \/ Within(L[f], x) => m2.next[x] = m.next[x] /\ m2.prev[x] = m.prev[x]
      <4>1. ASSUME NEW x \in Nodes, Within(L[f], x) PROVE x # h /\ x # g
        BY <1>1, <4>1, NodesApart DEF Within, Single
      <4> QED BY <1>3, <2>2, <3>1, <4>1
    <3>3. Ring(m2, f, L[f])
      BY <1>1, <3>2, RingElsewhere
    <3> QED BY <1>1, <2>2, <3>3
  <2> QED BY <2>1, <2>2
<1>6. ASSUME NEW x \in Entries, ~In(K, x)
      PROVE  IdleAt(m2, x)
  <2>1. ~Within(s, x) /\ ~Within(t, x) /\ \A f \in ListHeads \ {g, h} : ~Within(L[f], x)
    BY <1>1, <1>6 DEF In
  <2>2. ~Within(L[g], x) /\ ~Within(L[h], x)
    BY <2>1
  <2>3. ~In(L, x)
    BY <2>1, <2>2 DEF In
  <2>4. IdleAt(m, x)
    BY <2>3 DEF Holds
  <2>5. x \in Nodes \ {g, h}
    BY NodesApart
  <2> QED BY <2>2, <2>4, <2>5 DEF IdleAt
<1>7. Holds(m2, K, {})
  BY <1>1, <1>4, <1>5, <1>6 DEF Holds
<1> QED BY <1>7 DEF K

(* What Holds says of each list. *)
LEMMA HoldsFacts ==
    ASSUME NEW m, NEW L, NEW X, Holds(m, L, X)
    PROVE  /\ m \in Memory /\ L \in [ListHeads -> Seq(Entries)]
           /\ \A h \in ListHeads : Single(L[h]) /\ Ring(m, h, L[h])
           /\ \A Y : X \subseteq Y => Holds(m, L, Y)
  BY DEF Holds

(* __list_add *)
LEMMA AddKeeps ==
    ASSUME NEW m, NEW L, NEW e \in Entries, Holds(m, L, {e}), ~In(L, e),
           NEW h \in ListHeads, NEW k \in 0..Len(L[h])
    PROVE  Holds(LinkBetween(m, e, Pos(h, L[h], k), Pos(h, L[h], k + 1)),
                 [L EXCEPT ![h] = InsertAfter(L[h], k, e)], {})
<1> DEFINE s == L[h]
           r == InsertAfter(s, k, e)
           m2 == LinkBetween(m, e, Pos(h, s, k), Pos(h, s, k + 1))
<1>1. m \in Memory /\ Single(s) /\ Ring(m, h, s) /\ ~Within(s, e)
  BY HoldsFacts DEF In
<1> HIDE DEF s
<1>2. /\ m2 \in Memory /\ Ring(m2, h, r)
      /\ \A x \in Nodes \ {h, e} : ~Within(s, x) => m2.next[x] = m.next[x] /\ m2.prev[x] = m.prev[x]
  BY <1>1, RingInsert DEF s
<1>3. /\ Single(r) /\ Within(r, e) /\ \A x : Within(r, x) <=> x = e \/ Within(s, x)
  BY <1>1, InsertSingle DEF s
<1> HIDE DEF m2, r
<1>4. Holds(m2, [L EXCEPT ![h] = r], {})
  <2>1. \A x : Within(r, x) => Within(L[h], x) \/ ~In(L, x)
    BY <1>3 DEF s
  <2>2. \A x \in Nodes \ {h} : ~Within(L[h], x) /\ ~Within(r, x) => m2.next[x] = m.next[x] /\ m2.prev[x] = m.prev[x]
    BY <1>2, <1>3 DEF s
  <2>3. \A x \in Entries \ {} : ~Within(r, x) /\ (x \in {e} \/ Within(L[h], x)) => IdleAt(m2, x)
    BY <1>3 DEF s
  <2> QED BY <1>2, <1>3, <2>1, <2>2, <2>3, OneList
<1> QED BY <1>4 DEF m2, r, s

(* __list_del_entry: the entry's own pointers are left as they were. *)
LEMMA DelKeeps ==
    ASSUME NEW m, NEW L, Holds(m, L, {}), NEW h \in ListHeads, NEW k \in 1..Len(L[h])
    PROVE  /\ Holds(DelEntry(m, L[h][k]), [L EXCEPT ![h] = DropAt(L[h], k)], {L[h][k]})
           /\ ~In([L EXCEPT ![h] = DropAt(L[h], k)], L[h][k])
<1> DEFINE s == L[h]
           e == s[k]
           r == DropAt(s, k)
           m2 == DelEntry(m, e)
           K == [L EXCEPT ![h] = r]
<1>1. m \in Memory /\ Single(s) /\ Ring(m, h, s) /\ L \in [ListHeads -> Seq(Entries)]
  BY HoldsFacts
<1>2. /\ m2 \in Memory /\ Ring(m2, h, r)
      /\ \A x \in Nodes \ {h} : ~Within(s, x) => m2.next[x] = m.next[x] /\ m2.prev[x] = m.prev[x]
  <2> HIDE DEF s
  <2> QED BY <1>1, RingRemove DEF s
<1>3. Single(r) /\ \A x : Within(r, x) <=> x # e /\ Within(s, x)
  <2> HIDE DEF s
  <2> QED BY <1>1, DropSingle DEF s
<1>4. Within(s, e)
  BY DEF Within
<1>5. Holds(m2, K, {e})
  <2> HIDE DEF m2, r, e
  <2>1. \A x \in Entries \ {e} : ~Within(r, x) /\ (x \in {} \/ Within(L[h], x)) => IdleAt(m2, x)
    BY <1>3
  <2>2. \A x : Within(r, x) => Within(L[h], x) \/ ~In(L, x)
    BY <1>3
  <2>3. \A x \in Nodes \ {h} : ~Within(L[h], x) /\ ~Within(r, x) => m2.next[x] = m.next[x] /\ m2.prev[x] = m.prev[x]
    BY <1>2
  <2> QED BY <1>2, <1>3, <2>1, <2>2, <2>3, OneList
<1>6. ASSUME NEW g \in ListHeads PROVE ~Within(K[g], e)
  <2> HIDE DEF r, e
  <2>1. CASE g = h
    BY <1>1, <1>3, <2>1
  <2>2. CASE g # h
    <3>1. K[g] = L[g] /\ ~(Within(L[g], e) /\ Within(L[h], e))
      BY <1>1, <2>2 DEF Holds
    <3> QED BY <1>4, <3>1
  <2> QED BY <2>1, <2>2
<1> QED BY <1>5, <1>6 DEF In

(* The pointers of an entry that is in no list are free to set. *)
LEMMA ResetKeeps ==
    ASSUME NEW m, NEW L, NEW e \in Entries, Holds(m, L, {e}), ~In(L, e)
    PROVE  /\ Holds(InitHead(m, e), L, {})
           /\ Holds(SetPrev(SetNext(m, e, Null), e, Null), L, {})
<1>1. ASSUME NEW v \in {e, Null}
      PROVE  Holds(SetPrev(SetNext(m, e, v), e, v), L, {})
  <2> DEFINE m1 == SetNext(m, e, v)
             m2 == SetPrev(m1, e, v)
  <2>1. m \in Memory /\ e \in Nodes /\ v \in Refs
    BY HoldsFacts, NodesApart DEF Refs
  <2>2. m1 \in Memory /\ \A x \in Nodes : m1.prev[x] = m.prev[x] /\ m1.next[x] = IF x = e THEN v ELSE m.next[x]
    BY <2>1, SetFacts
  <2>3. ASSUME m1 \in Memory
        PROVE  m2 \in Memory /\ \A x \in Nodes : m2.next[x] = m1.next[x] /\ m2.prev[x] = IF x = e THEN v ELSE m1.prev[x]
    <3> HIDE DEF m1
    <3> QED BY <2>1, <2>3, SetFacts
  <2> HIDE DEF m1, m2
  <2>4. m2 \in Memory /\ \A x \in Nodes : /\ m2.next[x] = IF x = e THEN v ELSE m.next[x]
                                          /\ m2.prev[x] = IF x = e THEN v ELSE m.prev[x]
    BY <2>2, <2>3
  <2>5. \A h \in ListHeads : Single(L[h]) /\ Ring(m2, h, L[h])
    <3> TAKE h \in ListHeads
    <3>1. Single(L[h]) /\ Ring(m, h, L[h]) /\ h # e /\ ~Within(L[h], e)
      BY HoldsFacts, NodesApart DEF In
    <3>2. \A x \in Nodes : x = h \/ Within(L[h], x) => m2.next[x] = m.next[x] /\ m2.prev[x] = m.prev[x]
      BY <2>4, <3>1
    <3> QED BY <2>1, <2>4, <3>1, <3>2, RingElsewhere
  <2>6. \A x \in Entries : ~In(L, x) => IdleAt(m2, x)
    <3> TAKE x \in Entries
    <3>1. x \in Nodes
      BY NodesApart
    <3>2. CASE x = e
      BY <2>4, <3>1, <3>2 DEF IdleAt
    <3>3. CASE x # e
      BY <2>4, <3>1, <3>3 DEF IdleAt, Holds
    <3> QED BY <3>2, <3>3
  <2>7. Holds(m2, L, {})
    BY <2>4, <2>5, <2>6 DEF Holds
  <2> QED BY <2>7 DEF m1, m2
<1>2. Holds(SetPrev(SetNext(m, e, e), e, e), L, {})
  BY <1>1
<1>3. Holds(SetPrev(SetNext(m, e, Null), e, Null), L, {})
  BY <1>1
<1> QED BY <1>2, <1>3 DEF InitHead

(* __list_splice, and the INIT_LIST_HEAD of list_splice_init. *)
LEMMA SpliceFactsOf ==
    ASSUME NEW m \in Memory, NEW g \in Nodes, NEW p \in Nodes, NEW q \in Nodes,
           m.next[g] \in Nodes, m.prev[g] \in Nodes
    PROVE  LET m2 == InitHead(SpliceBetween(m, g, p, q), g) IN
           /\ m2 \in Memory
           /\ \A x \in Nodes :
                /\ m2.next[x] = IF x = g THEN g ELSE IF x = m.prev[g] THEN q
                                ELSE IF x = p THEN m.next[g] ELSE m.next[x]
                /\ m2.prev[x] = IF x = g THEN g ELSE IF x = q THEN m.prev[g]
                                ELSE IF x = m.next[g] THEN p ELSE m.prev[x]
<1> DEFINE a == m.next[g]
           b == m.prev[g]
           m1 == SetPrev(m, a, p)
           m2 == SetNext(m1, p, a)
           m3 == SetNext(m2, b, q)
           m4 == SetPrev(m3, q, b)
           m5 == SetNext(m4, g, g)
           m6 == SetPrev(m5, g, g)
<1>0. g \in Refs /\ p \in Refs /\ q \in Refs /\ a \in Refs /\ b \in Refs
  BY DEF Refs
<1>a. a \in Nodes /\ b \in Nodes
  OBVIOUS
<1> HIDE DEF a, b
<1>1. /\ m1 \in Memory
      /\ \A x \in Nodes : m1.next[x] = m.next[x] /\ m1.prev[x] = IF x = a THEN p ELSE m.prev[x]
  BY <1>0, <1>a, SetFacts
<1>2. ASSUME m1 \in Memory
      PROVE  /\ m2 \in Memory
             /\ \A x \in Nodes : m2.prev[x] = m1.prev[x] /\ m2.next[x] = IF x = p THEN a ELSE m1.next[x]
  <2> HIDE DEF m1
  <2> QED BY <1>0, <1>a, <1>2, SetFacts
<1>3. ASSUME m2 \in Memory
      PROVE  /\ m3 \in Memory
             /\ \A x \in Nodes : m3.prev[x] = m2.prev[x] /\ m3.next[x] = IF x = b THEN q ELSE m2.next[x]
  <2> HIDE DEF m2
  <2> QED BY <1>0, <1>a, <1>3, SetFacts
<1>4. ASSUME m3 \in Memory
      PROVE  /\ m4 \in Memory
             /\ \A x \in Nodes : m4.next[x] = m3.next[x] /\ m4.prev[x] = IF x = q THEN b ELSE m3.prev[x]
  <2> HIDE DEF m3
  <2> QED BY <1>0, <1>a, <1>4, SetFacts
<1>5. ASSUME m4 \in Memory
      PROVE  /\ m5 \in Memory
             /\ \A x \in Nodes : m5.prev[x] = m4.prev[x] /\ m5.next[x] = IF x = g THEN g ELSE m4.next[x]
  <2> HIDE DEF m4
  <2> QED BY <1>0, <1>a, <1>5, SetFacts
<1>6. ASSUME m5 \in Memory
      PROVE  /\ m6 \in Memory
             /\ \A x \in Nodes : m6.next[x] = m5.next[x] /\ m6.prev[x] = IF x = g THEN g ELSE m5.prev[x]
  <2> HIDE DEF m5
  <2> QED BY <1>0, <1>a, <1>6, SetFacts
<1>7. InitHead(SpliceBetween(m, g, p, q), g) = m6
  BY DEF InitHead, SpliceBetween, a, b
<1> HIDE DEF m1, m2, m3, m4, m5, m6, a, b
<1>8. m6 \in Memory
  BY <1>1, <1>2, <1>3, <1>4, <1>5, <1>6
<1>9. \A x \in Nodes :
        /\ m6.next[x] = IF x = g THEN g ELSE IF x = b THEN q ELSE IF x = p THEN a ELSE m.next[x]
        /\ m6.prev[x] = IF x = g THEN g ELSE IF x = q THEN b ELSE IF x = a THEN p ELSE m.prev[x]
  BY <1>1, <1>2, <1>3, <1>4, <1>5, <1>6
<1> QED BY <1>7, <1>8, <1>9 DEF a, b

(* t with s behind its first k entries. *)
SpliceIn(t, k, s) ==
    [i \in 1..Len(t) + Len(s) |->
        IF i <= k THEN t[i] ELSE IF i <= k + Len(s) THEN s[i - k] ELSE t[i - Len(s)]]

(* A splice has the entries of both. *)
LEMMA SpliceSingle ==
    ASSUME NEW t, Single(t), NEW s, Single(s), NEW k \in 0..Len(t),
           \A x : ~(Within(t, x) /\ Within(s, x))
    PROVE  /\ Single(SpliceIn(t, k, s))
           /\ Len(SpliceIn(t, k, s)) = Len(t) + Len(s)
           /\ \A x : Within(SpliceIn(t, k, s), x) <=> Within(t, x) \/ Within(s, x)
<1> DEFINE r == SpliceIn(t, k, s)
           n == Len(t)
           c == Len(s)
<1>1. /\ n \in Nat /\ c \in Nat /\ k \in Nat /\ k <= n
      /\ \A i \in 1..n : t[i] \in Entries
      /\ \A i \in 1..c : s[i] \in Entries
      /\ \A i \in 1..n, j \in 1..c : t[i] # s[j]
      /\ \A i, j \in 1..n : t[i] = t[j] => i = j
      /\ \A i, j \in 1..c : s[i] = s[j] => i = j
  <2>1. /\ n \in Nat /\ c \in Nat /\ k \in Nat /\ k <= n
        /\ \A i \in 1..n : t[i] \in Entries
        /\ \A i \in 1..c : s[i] \in Entries
    BY DEF Single
  <2>2. /\ \A i, j \in 1..n : t[i] = t[j] => i = j
        /\ \A i, j \in 1..c : s[i] = s[j] => i = j
    BY DEF Single
  <2>3. ASSUME NEW i \in 1..n, NEW j \in 1..c PROVE t[i] # s[j]
    <3>1. Within(t, t[i]) /\ Within(s, s[j])
      BY DEF Within
    <3> QED BY <3>1
  <2> QED BY <2>1, <2>2, <2>3
<1>2. /\ \A i \in 1..n + c : r[i] = IF i <= k THEN t[i] ELSE IF i <= k + c THEN s[i - k] ELSE t[i - c]
      /\ r = [i \in 1..n + c |-> r[i]]
  BY DEF SpliceIn
<1>a. /\ \A i : Within(t, i) <=> \E j \in 1..n : t[j] = i
      /\ \A i : Within(s, i) <=> \E j \in 1..c : s[j] = i
  BY DEF Within
<1> HIDE DEF r, n, c
<1>3. \A i \in 1..n + c : \/ i <= k /\ i \in 1..n /\ r[i] = t[i]
                          \/ ~(i <= k) /\ i <= k + c /\ i - k \in 1..c /\ r[i] = s[i - k]
                          \/ ~(i <= k) /\ ~(i <= k + c) /\ i - c \in 1..n /\ r[i] = t[i - c]
  BY <1>1, <1>2
<1>4. r \in Seq(Entries) /\ Len(r) = n + c
  <2>1. \A i \in 1..n + c : r[i] \in Entries
    BY <1>1, <1>3
  <2>2. r \in [1..n + c -> Entries] /\ n + c \in Nat
    BY <1>1, <1>2, <2>1
  <2> QED BY <2>2
<1>5. ASSUME NEW i \in 1..n + c, NEW j \in 1..n + c, r[i] = r[j]
      PROVE  i = j
  <2> DEFINE Before(l) == l <= k /\ l \in 1..n /\ r[l] = t[l]
             Inside(l) == ~(l <= k) /\ l <= k + c /\ l - k \in 1..c /\ r[l] = s[l - k]
             Behind(l) == ~(l <= k) /\ ~(l <= k + c) /\ l - c \in 1..n /\ r[l] = t[l - c]
  <2>1. (Before(i) \/ Inside(i) \/ Behind(i)) /\ (Before(j) \/ Inside(j) \/ Behind(j))
    BY <1>3
  <2>2. CASE Before(i) /\ Before(j)
    BY <1>1, <1>5, <2>2
  <2>3. CASE Inside(i) /\ Inside(j)
    <3>1. i - k = j - k
      BY <1>1, <1>5, <2>3
    <3> QED BY <1>1, <3>1
  <2>4. CASE Behind(i) /\ Behind(j)
    <3>1. i - c = j - c
      BY <1>1, <1>5, <2>4
    <3> QED BY <1>1, <3>1
  <2>5. CASE Before(i) /\ Behind(j)
    <3>1. i = j - c
      BY <1>1, <1>5, <2>5
    <3> QED BY <1>1, <2>5, <3>1
  <2>6. CASE Behind(i) /\ Before(j)
    <3>1. i - c = j
      BY <1>1, <1>5, <2>6
    <3> QED BY <1>1, <2>6, <3>1
  <2>7. CASE Inside(i) /\ (Before(j) \/ Behind(j))
    BY <1>1, <1>5, <2>7
  <2>8. CASE Inside(j) /\ (Before(i) \/ Behind(i))
    BY <1>1, <1>5, <2>8
  <2> QED BY <2>1, <2>2, <2>3, <2>4, <2>5, <2>6, <2>7, <2>8
<1>6. ASSUME NEW x
      PROVE  Within(r, x) <=> Within(t, x) \/ Within(s, x)
  <2>1. Within(r, x) <=> \E i \in 1..n + c : r[i] = x
    BY <1>4 DEF Within
  <2>2. (\E i \in 1..n + c : r[i] = x) => Within(t, x) \/ Within(s, x)
    BY <1>3, <1>a
  <2>3. ASSUME NEW j \in 1..n, t[j] = x PROVE \E i \in 1..n + c : r[i] = x
    <3>1. CASE j <= k
      <4>1. j \in 1..n + c
        BY <1>1
      <4> QED BY <1>2, <2>3, <3>1, <4>1
    <3>2. CASE ~(j <= k)
      <4>1. j + c \in 1..n + c /\ ~(j + c <= k) /\ ~(j + c <= k + c) /\ (j + c) - c = j
        BY <1>1, <3>2
      <4>2. r[j + c] = t[j]
        BY <1>2, <4>1
      <4> QED BY <2>3, <4>1, <4>2
    <3> QED BY <3>1, <3>2
  <2>4. ASSUME NEW j \in 1..c, s[j] = x PROVE \E i \in 1..n + c : r[i] = x
    <3>1. j + k \in 1..n + c /\ ~(j + k <= k) /\ j + k <= k + c /\ (j + k) - k = j
      BY <1>1
    <3>2. r[j + k] = s[j]
      BY <1>2, <3>1
    <3> QED BY <2>4, <3>1, <3>2
  <2> QED BY <1>a, <2>1, <2>2, <2>3, <2>4
<1>7. Single(r)
  BY <1>4, <1>5 DEF Single
<1> QED BY <1>4, <1>6, <1>7 DEF r, n, c

(* __list_splice of a ring between neighbours of another makes one of both. *)
LEMMA RingSplice ==
    ASSUME NEW m \in Memory, NEW g \in ListHeads, NEW h \in ListHeads, g # h,
           NEW s, Single(s), Ring(m, g, s), Len(s) # 0,
           NEW t, Single(t), Ring(m, h, t), \A x : ~(Within(t, x) /\ Within(s, x)),
           NEW k \in 0..Len(t)
    PROVE  LET m2 == InitHead(SpliceBetween(m, g, Pos(h, t, k), Pos(h, t, k + 1)), g) IN
           /\ m2 \in Memory
           /\ Ring(m2, g, <<>>)
           /\ Ring(m2, h, SpliceIn(t, k, s))
           /\ \A x \in Nodes \ {g, h} : ~Within(s, x) /\ ~Within(t, x) =>
                m2.next[x] = m.next[x] /\ m2.prev[x] = m.prev[x]
<1> DEFINE p == Pos(h, t, k)
           q == Pos(h, t, k + 1)
           a == s[1]
           b == s[Len(s)]
           m2 == InitHead(SpliceBetween(m, g, p, q), g)
           r == SpliceIn(t, k, s)
           n == Len(t)
           c == Len(s)
<1>1. /\ n \in Nat /\ k \in Nat /\ k <= n /\ p \in Nodes /\ q \in Nodes
      /\ \A i \in Int : Pos(h, t, i) \in Nodes
      /\ \A i \in 1..n : Pos(h, t, i) = t[i]
      /\ Pos(h, t, 0) = h /\ Pos(h, t, n + 1) = h
      /\ \A i, j \in 0..n : Pos(h, t, i) = Pos(h, t, j) => i = j
      /\ \A i, j \in 1..n + 1 : Pos(h, t, i) = Pos(h, t, j) => i = j
  BY PosFacts
<1>2. /\ c \in Nat /\ c >= 1 /\ g \in Nodes /\ h \in Nodes
      /\ \A i \in 1..c : Pos(g, s, i) = s[i] /\ s[i] \in Entries /\ s[i] \in Nodes /\ s[i] # g /\ s[i] # h
      /\ Pos(g, s, 0) = g /\ Pos(g, s, c + 1) = g
      /\ \A i, j \in 1..c : s[i] = s[j] => i = j
  BY PosFacts, NodesApart DEF Single
<1>3. \A i \in Int : \A j \in 1..c : Pos(h, t, i) # s[j] /\ Pos(h, t, i) # g
  <2> TAKE i \in Int
  <2> TAKE j \in 1..c
  <2>1. CASE i \in 1..n
    <3>1. Within(t, t[i]) /\ Within(s, s[j]) /\ t[i] \in Entries
      BY <2>1 DEF Within, Single
    <3> QED BY <1>1, <2>1, <3>1, NodesApart
  <2>2. CASE i \notin 1..n
    BY <1>2, <2>2 DEF Pos
  <2> QED BY <2>1, <2>2
<1>4. a \in Nodes /\ b \in Nodes /\ m.next[g] = a /\ m.prev[g] = b
  <2>1. 1 \in 1..c /\ c \in 1..c /\ 0 \in 0..c /\ c \in 0..c
    BY <1>2
  <2> QED BY <1>2, <2>1 DEF Ring
<1>5. /\ m2 \in Memory
      /\ \A x \in Nodes :
            /\ m2.next[x] = IF x = g THEN g ELSE IF x = b THEN q ELSE IF x = p THEN a ELSE m.next[x]
            /\ m2.prev[x] = IF x = g THEN g ELSE IF x = q THEN b ELSE IF x = a THEN p ELSE m.prev[x]
  <2>1. p \in Nodes /\ q \in Nodes /\ g \in Nodes
    BY <1>1, <1>2
  <2> HIDE DEF a, b, p, q
  <2> QED BY <2>1, <1>4, SpliceFactsOf
<1> HIDE DEF m2
<1>6. /\ \A i \in 0..k : Pos(h, r, i) = Pos(h, t, i)
      /\ \A i \in k + 1..k + c : Pos(h, r, i) = s[i - k]
      /\ \A i \in k + c + 1..n + c + 1 : Pos(h, r, i) = Pos(h, t, i - c)
  <2>1. Len(r) = n + c
    BY SpliceSingle
  <2>2. \A i \in 1..n + c : r[i] = IF i <= k THEN t[i] ELSE IF i <= k + c THEN s[i - k] ELSE t[i - c]
    BY DEF SpliceIn
  <2> HIDE DEF r, n, c
  <2>3. \A i \in 0..k : Pos(h, r, i) = Pos(h, t, i)
    BY <1>1, <1>2, <2>1, <2>2 DEF Pos, n
  <2>4. \A i \in k + 1..k + c : Pos(h, r, i) = s[i - k]
    BY <1>1, <1>2, <2>1, <2>2 DEF Pos
  <2>5. \A i \in k + c + 1..n + c + 1 : Pos(h, r, i) = Pos(h, t, i - c)
    BY <1>1, <1>2, <2>1, <2>2 DEF Pos, n
  <2> QED BY <2>3, <2>4, <2>5
<1>7. /\ \A i \in 0..n : m.next[Pos(h, t, i)] = Pos(h, t, i + 1) /\ m.prev[Pos(h, t, i + 1)] = Pos(h, t, i)
      /\ \A i \in 1..c - 1 : m.next[s[i]] = s[i + 1] /\ m.prev[s[i + 1]] = s[i]
  <2>1. \A i \in 1..c - 1 : i \in 0..c /\ i \in 1..c /\ i + 1 \in 1..c
    BY <1>2
  <2>2. \A i \in 0..c : m.next[Pos(g, s, i)] = Pos(g, s, i + 1) /\ m.prev[Pos(g, s, i + 1)] = Pos(g, s, i)
    BY DEF Ring
  <2>3. ASSUME NEW i \in 1..c - 1
        PROVE  m.next[s[i]] = s[i + 1] /\ m.prev[s[i + 1]] = s[i]
    <3>1. Pos(g, s, i) = s[i] /\ Pos(g, s, i + 1) = s[i + 1]
      BY <1>2, <2>1
    <3> QED BY <2>1, <2>2, <3>1
  <2>4. \A i \in 0..n : m.next[Pos(h, t, i)] = Pos(h, t, i + 1) /\ m.prev[Pos(h, t, i + 1)] = Pos(h, t, i)
    BY DEF Ring
  <2> QED BY <2>3, <2>4
<1>8. ASSUME NEW i \in 0..n + c
      PROVE  m2.next[Pos(h, r, i)] = Pos(h, r, i + 1) /\ m2.prev[Pos(h, r, i + 1)] = Pos(h, r, i)
  <2>0. 1 \in 1..c /\ c \in 1..c
    BY <1>2
  <2>1. CASE i < k
    <3>1. i \in 0..k /\ i + 1 \in 0..k /\ i \in 0..n /\ k \in 0..n /\ i # k /\ i \in Int /\ i + 1 \in Int
          /\ i + 1 \in 1..n + 1 /\ k + 1 \in 1..n + 1 /\ i + 1 # k + 1
      BY <1>1, <2>1
    <3>2. Pos(h, t, i) # p /\ Pos(h, t, i + 1) # q
      BY <1>1, <3>1
    <3>3. /\ Pos(h, t, i) # g /\ Pos(h, t, i) # b /\ Pos(h, t, i + 1) # g /\ Pos(h, t, i + 1) # a
          /\ Pos(h, t, i) \in Nodes /\ Pos(h, t, i + 1) \in Nodes
      BY <1>1, <1>3, <2>0, <3>1
    <3>4. Pos(h, r, i) = Pos(h, t, i) /\ Pos(h, r, i + 1) = Pos(h, t, i + 1)
      BY <1>6, <3>1
    <3> HIDE DEF p, q, a, b
    <3> QED BY <1>5, <1>7, <3>1, <3>2, <3>3, <3>4
  <2>2. CASE i = k
    <3>1. k \in 0..k /\ k + 1 \in k + 1..k + c /\ (k + 1) - k = 1 /\ k \in Int /\ k + 1 \in Int
      BY <1>1, <1>2
    <3>2. Pos(h, r, i) = p /\ Pos(h, r, i + 1) = a
      BY <1>6, <2>2, <3>1
    <3>3. p # g /\ p # b /\ a # g /\ a # q
      BY <1>2, <1>3, <2>0, <3>1
    <3> HIDE DEF p, q, a, b
    <3> QED BY <1>1, <1>4, <1>5, <3>2, <3>3
  <2>3. CASE k < i /\ i < k + c
    <3>1. i \in k + 1..k + c /\ i + 1 \in k + 1..k + c /\ (i + 1) - k = (i - k) + 1 /\ i - k \in 1..c - 1
          /\ i - k \in 1..c /\ (i - k) + 1 \in 1..c /\ i - k # c /\ (i - k) + 1 # 1
          /\ k \in Int /\ k + 1 \in Int
      BY <1>1, <1>2, <2>3
    <3> DEFINE j == i - k
    <3>2. Pos(h, r, i) = s[j] /\ Pos(h, r, i + 1) = s[j + 1]
      BY <1>6, <3>1
    <3>3. /\ s[j] # b /\ s[j] # g /\ s[j] # p /\ s[j + 1] # a /\ s[j + 1] # g /\ s[j + 1] # q
          /\ s[j] \in Nodes /\ s[j + 1] \in Nodes
      BY <1>2, <1>3, <2>0, <3>1
    <3>4. m.next[s[j]] = s[j + 1] /\ m.prev[s[j + 1]] = s[j]
      BY <1>7, <3>1
    <3> HIDE DEF p, q, a, b, j
    <3> QED BY <1>5, <3>2, <3>3, <3>4
  <2>4. CASE i = k + c
    <3>1. /\ k + c \in k + 1..k + c /\ (k + c) - k = c
          /\ (k + c) + 1 \in k + c + 1..n + c + 1 /\ ((k + c) + 1) - c = k + 1
          /\ k \in Int /\ k + 1 \in Int
      BY <1>1, <1>2
    <3>2. Pos(h, r, i) = b /\ Pos(h, r, i + 1) = q
      BY <1>6, <2>4, <3>1
    <3>3. b # g /\ q # g
      BY <1>2, <1>3, <2>0, <3>1
    <3> HIDE DEF p, q, a, b
    <3> QED BY <1>1, <1>4, <1>5, <3>2, <3>3
  <2>5. CASE i > k + c
    <3> DEFINE j == i - c
    <3>1. /\ i \in k + c + 1..n + c + 1 /\ i + 1 \in k + c + 1..n + c + 1 /\ (i + 1) - c = j + 1
          /\ j \in 0..n /\ k \in 0..n /\ j # k /\ j \in Int /\ j + 1 \in Int
          /\ j + 1 \in 1..n + 1 /\ k + 1 \in 1..n + 1 /\ j + 1 # k + 1
      BY <1>1, <1>2, <2>5
    <3>2. Pos(h, r, i) = Pos(h, t, j) /\ Pos(h, r, i + 1) = Pos(h, t, j + 1)
      BY <1>6, <3>1
    <3> HIDE DEF j
    <3>3. Pos(h, t, j) # p /\ Pos(h, t, j + 1) # q
      BY <1>1, <3>1
    <3>4. /\ Pos(h, t, j) # g /\ Pos(h, t, j) # b /\ Pos(h, t, j + 1) # g /\ Pos(h, t, j + 1) # a
          /\ Pos(h, t, j) \in Nodes /\ Pos(h, t, j + 1) \in Nodes
      BY <1>1, <1>3, <2>0, <3>1
    <3> HIDE DEF p, q, a, b
    <3> QED BY <1>5, <1>7, <3>1, <3>2, <3>3, <3>4
  <2>6. i < k \/ i = k \/ (k < i /\ i < k + c) \/ i = k + c \/ i > k + c
    BY <1>1, <1>2
  <2> QED BY <2>1, <2>2, <2>3, <2>4, <2>5, <2>6
<1>9. Ring(m2, h, r)
  <2>1. Len(r) = n + c
    BY SpliceSingle
  <2> HIDE DEF r
  <2> QED BY <1>8, <2>1 DEF Ring
<1>10. Ring(m2, g, <<>>)
  BY <1>2, <1>5 DEF Ring, Pos
<1>11. ASSUME NEW x \in Nodes \ {g, h}, ~Within(s, x), ~Within(t, x)
       PROVE  m2.next[x] = m.next[x] /\ m2.prev[x] = m.prev[x]
  <2>1. x # a /\ x # b
    BY <1>2, <1>11 DEF Within
  <2>2. x # p /\ x # q
    BY <1>11 DEF Within, Pos
  <2> QED BY <1>5, <2>1, <2>2
<1> QED BY <1>5, <1>9, <1>10, <1>11 DEF m2

(* list_splice_init, of a list that is not empty. *)
LEMMA SpliceKeeps ==
    ASSUME NEW m, NEW L, Holds(m, L, {}), NEW g \in ListHeads, NEW h \in ListHeads, g # h,
           L[g] # <<>>, NEW k \in 0..Len(L[h])
    PROVE  Holds(InitHead(SpliceBetween(m, g, Pos(h, L[h], k), Pos(h, L[h], k + 1)), g),
                 [L EXCEPT ![g] = <<>>, ![h] = SpliceIn(L[h], k, L[g])], {})
<1> DEFINE s == L[g]
           t == L[h]
           r == SpliceIn(t, k, s)
           m2 == InitHead(SpliceBetween(m, g, Pos(h, t, k), Pos(h, t, k + 1)), g)
<1>1. /\ m \in Memory /\ Single(s) /\ Ring(m, g, s) /\ Single(t) /\ Ring(m, h, t)
      /\ \A x : ~(Within(t, x) /\ Within(s, x))
  BY DEF Holds
<1>2. Len(s) # 0
  BY <1>1 DEF Single
<1> HIDE DEF s, t
<1>3. /\ m2 \in Memory /\ Ring(m2, g, <<>>) /\ Ring(m2, h, r)
      /\ \A x \in Nodes \ {g, h} : ~Within(s, x) /\ ~Within(t, x) =>
            m2.next[x] = m.next[x] /\ m2.prev[x] = m.prev[x]
  BY <1>1, <1>2, RingSplice DEF t
<1>4. Single(r) /\ \A x : Within(r, x) <=> Within(t, x) \/ Within(s, x)
  BY <1>1, SpliceSingle DEF t
<1>5. Single(<<>>) /\ \A x : ~Within(<<>>, x)
  BY DEF Single, Within
<1> HIDE DEF m2, r
<1>6. Holds(m2, [L EXCEPT ![g] = <<>>, ![h] = r], {})
  <2>1. \A x : Within(<<>>, x) \/ Within(r, x) <=> Within(L[g], x) \/ Within(L[h], x)
    BY <1>4, <1>5 DEF s, t
  <2>2. \A x \in Nodes \ {g, h} : ~Within(L[g], x) /\ ~Within(L[h], x) =>
            m2.next[x] = m.next[x] /\ m2.prev[x] = m.prev[x]
    BY <1>3 DEF s, t
  <2> QED BY <1>3, <1>4, <1>5, <2>1, <2>2, TwoLists
<1> QED BY <1>6 DEF m2, r, s, t

(* list_cut_position, where it cuts. *)
LEMMA CutFactsOf ==
    ASSUME NEW m \in Memory, NEW g \in Nodes, NEW h \in Nodes, NEW e \in Nodes,
           g # h, e # g, e # h, m.next[g] \in Nodes \ {g}, m.next[e] \in Nodes, 
           m.next[g] = m.prev[g] => m.next[g] = e
    PROVE  LET m2 == ListCutPosition(m, h, g, e) IN
           /\ m2 \in Memory
           /\ \A x \in Nodes :
                /\ m2.next[x] = IF x = g THEN m.next[e] ELSE IF x = e THEN h
                                ELSE IF x = h THEN m.next[g] ELSE m.next[x]
                /\ m2.prev[x] = IF x = m.next[e] THEN g ELSE IF x = h THEN e
                                ELSE IF x = m.next[g] THEN h ELSE m.prev[x]
<1> DEFINE a == m.next[g]
           z == m.next[e]
           m1 == SetNext(m, h, a)
           m2 == SetPrev(m1, m1.next[h], h)
           m3 == SetPrev(m2, h, e)
           m4 == SetNext(m3, e, h)
           m5 == SetNext(m4, g, z)
           m6 == SetPrev(m5, z, g)
<1>1. ListCutPosition(m, h, g, e) = m6
  BY DEF ListCutPosition, ListEmpty, ListIsSingular
<1>2. a \in Nodes /\ z \in Nodes
  OBVIOUS
<1>0. g \in Refs /\ h \in Refs /\ e \in Refs /\ a \in Refs /\ z \in Refs
  BY DEF Refs
<1> HIDE DEF a, z
<1>3. /\ m1 \in Memory
      /\ \A x \in Nodes : m1.prev[x] = m.prev[x] /\ m1.next[x] = IF x = h THEN a ELSE m.next[x]
  BY <1>0, SetFacts
<1>4. ASSUME m1 \in Memory, m1.next[h] = a
      PROVE  /\ m2 \in Memory
             /\ \A x \in Nodes : m2.next[x] = m1.next[x] /\ m2.prev[x] = IF x = a THEN h ELSE m1.prev[x]
  <2> HIDE DEF m1
  <2> QED BY <1>0, <1>2, <1>4, SetFacts
<1>5. ASSUME m2 \in Memory
      PROVE  /\ m3 \in Memory
             /\ \A x \in Nodes : m3.next[x] = m2.next[x] /\ m3.prev[x] = IF x = h THEN e ELSE m2.prev[x]
  <2> HIDE DEF m2
  <2> QED BY <1>0, <1>5, SetFacts
<1>6. ASSUME m3 \in Memory
      PROVE  /\ m4 \in Memory
             /\ \A x \in Nodes : m4.prev[x] = m3.prev[x] /\ m4.next[x] = IF x = e THEN h ELSE m3.next[x]
  <2> HIDE DEF m3
  <2> QED BY <1>0, <1>6, SetFacts
<1>7. ASSUME m4 \in Memory
      PROVE  /\ m5 \in Memory
             /\ \A x \in Nodes : m5.prev[x] = m4.prev[x] /\ m5.next[x] = IF x = g THEN z ELSE m4.next[x]
  <2> HIDE DEF m4
  <2> QED BY <1>0, <1>7, SetFacts
<1>8. ASSUME m5 \in Memory
      PROVE  /\ m6 \in Memory
             /\ \A x \in Nodes : m6.next[x] = m5.next[x] /\ m6.prev[x] = IF x = z THEN g ELSE m5.prev[x]
  <2> HIDE DEF m5
  <2> QED BY <1>0, <1>2, <1>8, SetFacts
<1> HIDE DEF m1, m2, m3, m4, m5, m6
<1>9. m6 \in Memory /\ m1.next[h] = a
  BY <1>3, <1>4, <1>5, <1>6, <1>7, <1>8
<1>10. \A x \in Nodes :
        /\ m6.next[x] = IF x = g THEN z ELSE IF x = e THEN h ELSE IF x = h THEN a ELSE m.next[x]
        /\ m6.prev[x] = IF x = z THEN g ELSE IF x = h THEN e ELSE IF x = a THEN h ELSE m.prev[x]
  BY <1>3, <1>4, <1>5, <1>6, <1>7, <1>8
<1> QED BY <1>1, <1>9, <1>10 DEF a, z

(* The first n entries of s, and the others. *)
UpTo(s, n) == [i \in 1..n |-> s[i]]
Behind(s, n) == [i \in 1..Len(s) - n |-> s[n + i]]

(* A cut leaves every entry in one of the two parts. *)
LEMMA CutSingle ==
    ASSUME NEW s, Single(s), NEW n \in 0..Len(s)
    PROVE  /\ Single(UpTo(s, n)) /\ Len(UpTo(s, n)) = n
           /\ Single(Behind(s, n)) /\ Len(Behind(s, n)) = Len(s) - n
           /\ \A x : ~(Within(UpTo(s, n), x) /\ Within(Behind(s, n), x))
           /\ \A x : Within(UpTo(s, n), x) \/ Within(Behind(s, n), x) <=> Within(s, x)
<1> DEFINE c == Len(s)
           u == UpTo(s, n)
           v == Behind(s, n)
<1>1. /\ c \in Nat /\ n \in Nat /\ n <= c
      /\ \A i \in 1..c : s[i] \in Entries
      /\ \A i, j \in 1..c : s[i] = s[j] => i = j
  BY DEF Single
<1>2. /\ \A i \in 1..n : u[i] = s[i]
      /\ \A i \in 1..c - n : v[i] = s[n + i]
      /\ u = [i \in 1..n |-> u[i]] /\ v = [i \in 1..c - n |-> v[i]]
  BY DEF UpTo, Behind
<1>3. \A x : Within(s, x) <=> \E i \in 1..c : s[i] = x
  BY DEF Within
<1> HIDE DEF c, u, v
<1>4. /\ \A i \in 1..n : i \in 1..c
      /\ \A i \in 1..c - n : n + i \in 1..c
  BY <1>1
<1>5. u \in Seq(Entries) /\ Len(u) = n
  <2>1. u \in [1..n -> Entries]
    BY <1>1, <1>2, <1>4
  <2> QED BY <1>1, <2>1
<1>6. v \in Seq(Entries) /\ Len(v) = c - n
  <2>1. \A i \in 1..c - n : v[i] \in Entries
    BY <1>1, <1>2, <1>4
  <2>2. c - n \in Nat
    BY <1>1
  <2>3. v \in [1..c - n -> Entries]
    BY <1>2, <2>1
  <2> QED BY <2>2, <2>3
<1>7. /\ \A x : Within(u, x) <=> \E i \in 1..n : s[i] = x
      /\ \A x : Within(v, x) <=> \E i \in 1..c - n : s[n + i] = x
  BY ZenonT(60), <1>2, <1>5, <1>6 DEF Within
<1>8. Single(u) /\ Single(v)
  <2>1. \A i, j \in 1..n : u[i] = u[j] => i = j
    BY <1>1, <1>2, <1>4
  <2>2. ASSUME NEW i \in 1..c - n, NEW j \in 1..c - n, v[i] = v[j] PROVE i = j
    <3>1. n + i = n + j
      BY ZenonT(60), <1>1, <1>2, <1>4, <2>2
    <3> QED BY <1>1, <3>1
  <2> QED BY <1>5, <1>6, <2>1, <2>2 DEF Single
<1>9. ASSUME NEW x, Within(u, x), Within(v, x) PROVE FALSE
  <2>1. PICK i \in 1..n : s[i] = x
    BY <1>7, <1>9
  <2>2. PICK j \in 1..c - n : s[n + j] = x
    BY <1>7, <1>9
  <2>3. i = n + j
    BY <1>1, <1>4, <2>1, <2>2
  <2> QED BY <1>1, <2>3
<1>10. ASSUME NEW x PROVE Within(u, x) \/ Within(v, x) <=> Within(s, x)
  <2>1. ASSUME NEW i \in 1..c, s[i] = x PROVE Within(u, x) \/ Within(v, x)
    <3>1. CASE i <= n
      <4>1. i \in 1..n
        BY <1>1, <3>1
      <4> QED BY <1>7, <2>1, <4>1
    <3>2. CASE ~(i <= n)
      <4>1. i - n \in 1..c - n /\ n + (i - n) = i
        BY <1>1, <3>2
      <4> QED BY <1>7, <2>1, <4>1
    <3> QED BY <3>1, <3>2
  <2>2. Within(u, x) \/ Within(v, x) => Within(s, x)
    BY <1>3, <1>4, <1>7
  <2> QED BY <1>3, <2>1, <2>2
<1> QED BY <1>5, <1>6, <1>8, <1>9, <1>10 DEF u, v, c

(* list_cut_position at an entry leaves two rings. *)
LEMMA RingCut ==
    ASSUME NEW m \in Memory, NEW g \in ListHeads, NEW h \in ListHeads, g # h,
           NEW s, Single(s), Ring(m, g, s), NEW n \in 1..Len(s)
    PROVE  LET m2 == ListCutPosition(m, h, g, s[n]) IN
           /\ m2 \in Memory
           /\ Ring(m2, g, Behind(s, n))
           /\ Ring(m2, h, UpTo(s, n))
           /\ \A x \in Nodes \ {g, h} : ~Within(s, x) =>
                m2.next[x] = m.next[x] /\ m2.prev[x] = m.prev[x]
<1> DEFINE c == Len(s)
           e == s[n]
           a == Pos(g, s, 1)
           z == Pos(g, s, n + 1)
           u == UpTo(s, n)
           v == Behind(s, n)
           m2 == ListCutPosition(m, h, g, e)
<1>1. /\ c \in Nat /\ n \in Nat /\ 1 <= n /\ n <= c
      /\ g \in Nodes /\ h \in Nodes
      /\ \A i \in Int : Pos(g, s, i) \in Nodes
      /\ \A i \in 1..c : Pos(g, s, i) = s[i] /\ s[i] \in Entries /\ s[i] # g /\ s[i] # h
      /\ Pos(g, s, 0) = g /\ Pos(g, s, c + 1) = g
      /\ \A i, j \in 0..c : Pos(g, s, i) = Pos(g, s, j) => i = j
      /\ \A i, j \in 1..c + 1 : Pos(g, s, i) = Pos(g, s, j) => i = j
  BY PosFacts, NodesApart
<1>2. \A i \in 0..c : m.next[Pos(g, s, i)] = Pos(g, s, i + 1) /\ m.prev[Pos(g, s, i + 1)] = Pos(g, s, i)
  BY DEF Ring
<1>3. \A i \in Int : Pos(g, s, i) # h
  BY <1>1 DEF Pos
<1>4. /\ e \in Nodes \ {g, h} /\ e = Pos(g, s, n)
      /\ m.next[g] = a /\ m.next[e] = z /\ a \in Nodes \ {g} /\ z \in Nodes
      /\ a = m.prev[g] => a = e
  <2>1. 0 \in 0..c /\ n \in 0..c /\ c \in 0..c /\ 1 \in 1..c /\ n \in 1..c /\ c \in 1..c /\ 1 \in Int /\ n + 1 \in Int /\ n \in Int
        /\ 0 + 1 = 1
    BY <1>1
  <2>2. e \in Nodes \ {g, h} /\ e = Pos(g, s, n)
    BY <1>1, <2>1
  <2>3. m.next[g] = a /\ m.next[e] = z /\ m.prev[g] = Pos(g, s, c)
    BY <1>1, <1>2, <2>1, <2>2
  <2>4. a \in Nodes \ {g} /\ z \in Nodes
    BY <1>1, <2>1
  <2>5. a = Pos(g, s, c) => n = 1
    <3>1. a = Pos(g, s, c) => c = 1
      <4>1. 1 \in 0..c
        BY <1>1
      <4> QED BY <1>1, <2>1, <4>1
    <3> QED BY <1>1, <3>1
  <2> QED BY <2>2, <2>3, <2>4, <2>5
<1>5. /\ m2 \in Memory
      /\ \A x \in Nodes :
            /\ m2.next[x] = IF x = g THEN z ELSE IF x = e THEN h ELSE IF x = h THEN a ELSE m.next[x]
            /\ m2.prev[x] = IF x = z THEN g ELSE IF x = h THEN e ELSE IF x = a THEN h ELSE m.prev[x]
  <2>1. /\ m \in Memory /\ g \in Nodes /\ h \in Nodes /\ e \in Nodes
        /\ g # h /\ e # g /\ e # h /\ m.next[g] \in Nodes \ {g} /\ m.next[e] \in Nodes
        /\ m.next[g] = m.prev[g] => m.next[g] = e
    BY <1>1, <1>4
  <2> HIDE DEF e
  <2>2. /\ ListCutPosition(m, h, g, e) \in Memory
        /\ \A x \in Nodes :
              /\ ListCutPosition(m, h, g, e).next[x] =
                    IF x = g THEN m.next[e] ELSE IF x = e THEN h
                    ELSE IF x = h THEN m.next[g] ELSE m.next[x]
              /\ ListCutPosition(m, h, g, e).prev[x] =
                    IF x = m.next[e] THEN g ELSE IF x = h THEN e
                    ELSE IF x = m.next[g] THEN h ELSE m.prev[x]
    BY <2>1, CutFactsOf
  <2> HIDE DEF a, z
  <2> QED BY <1>4, <2>2
<1> HIDE DEF m2
<1>6. /\ Len(u) = n /\ Len(v) = c - n
      /\ \A i \in 1..n : u[i] = s[i]
      /\ \A i \in 1..c - n : v[i] = s[n + i]
  BY CutSingle DEF UpTo, Behind
<1> HIDE DEF u, v
<1>7. ASSUME NEW i \in 0..n
      PROVE  m2.next[Pos(h, u, i)] = Pos(h, u, i + 1) /\ m2.prev[Pos(h, u, i + 1)] = Pos(h, u, i)
  <2>1. /\ Pos(h, u, 0) = h /\ Pos(h, u, n + 1) = h
        /\ \A j \in 1..n : Pos(h, u, j) = Pos(g, s, j)
    BY <1>1, <1>6 DEF Pos
  <2>2. z # h
    BY <1>1, <1>3
  <2>3. z # a
    <3>1. n + 1 \in 1..c + 1 /\ 1 \in 1..c + 1 /\ n + 1 # 1
      BY <1>1
    <3> QED BY <1>1, <3>1
  <2>4. CASE i = 0
    <3>1. 1 \in 1..n
      BY <1>1
    <3>2. Pos(h, u, i) = h /\ Pos(h, u, i + 1) = a
      BY <2>1, <2>4, <3>1
    <3> HIDE DEF a, e, z
    <3> QED BY <1>1, <1>3, <1>4, <1>5, <2>2, <2>3, <3>2 DEF a
  <2>5. CASE i = n
    <3>1. n \in 1..n /\ i \in 1..n
      BY <1>1, <2>5
    <3>2. Pos(h, u, i) = e /\ Pos(h, u, i + 1) = h
      BY <1>4, <2>1, <2>5, <3>1
    <3> HIDE DEF a, e, z
    <3> QED BY <1>1, <1>4, <1>5, <2>2, <3>2
  <2>6. CASE 0 < i /\ i < n
    <3>1. /\ i \in 1..n /\ i + 1 \in 1..n /\ i \in 0..c /\ n \in 0..c /\ i # n /\ 0 \in 0..c /\ i # 0
          /\ i + 1 \in 1..c + 1 /\ n + 1 \in 1..c + 1 /\ i + 1 # n + 1 /\ 1 \in 1..c + 1 /\ i + 1 # 1
          /\ i \in Int /\ i + 1 \in Int
      BY <1>1, <2>6
    <3>2. Pos(h, u, i) = Pos(g, s, i) /\ Pos(h, u, i + 1) = Pos(g, s, i + 1)
      BY <2>1, <3>1
    <3>3. Pos(g, s, i) # g /\ Pos(g, s, i) # e /\ Pos(g, s, i + 1) # z /\ Pos(g, s, i + 1) # a
      BY <1>1, <1>4, <3>1
    <3>4. Pos(g, s, i) # h /\ Pos(g, s, i + 1) # h /\ Pos(g, s, i) \in Nodes /\ Pos(g, s, i + 1) \in Nodes
      BY <1>1, <1>3, <3>1
    <3> HIDE DEF a, e, z
    <3> QED BY <1>2, <1>5, <3>1, <3>2, <3>3, <3>4
  <2> QED BY <1>1, <2>4, <2>5, <2>6
<1>8. ASSUME NEW i \in 0..c - n
      PROVE  m2.next[Pos(g, v, i)] = Pos(g, v, i + 1) /\ m2.prev[Pos(g, v, i + 1)] = Pos(g, v, i)
  <2>1. /\ Pos(g, v, 0) = g
        /\ \A j \in 1..c - n + 1 : Pos(g, v, j) = Pos(g, s, n + j)
    <3>1. \A j \in 1..c - n : Pos(g, v, j) = Pos(g, s, n + j)
      <4>1. \A j \in 1..c - n : n + j \in 1..c
        BY <1>1
      <4> QED BY <1>1, <1>6, <4>1 DEF Pos
    <3>2. Pos(g, v, c - n + 1) = g /\ Pos(g, s, n + (c - n + 1)) = g
      <4>1. n + (c - n + 1) = c + 1 /\ c - n + 1 \notin 1..c - n
        BY <1>1
      <4> QED BY <1>1, <1>6, <4>1 DEF Pos
    <3>3. \A j \in 1..c - n + 1 : j \in 1..c - n \/ j = c - n + 1
      BY <1>1
    <3>4. Pos(g, v, 0) = g
      BY DEF Pos
    <3> QED BY <3>1, <3>2, <3>3, <3>4
  <2>2. CASE i = 0
    <3>1. 1 \in 1..c - n + 1
      BY <1>1
    <3>2. Pos(g, v, i) = g /\ Pos(g, v, i + 1) = z
      BY <2>1, <2>2, <3>1
    <3> HIDE DEF a, e, z
    <3> QED BY <1>1, <1>4, <1>5, <3>2
  <2>3. CASE 0 < i
    <3> DEFINE j == n + i
    <3>1. /\ i \in 1..c - n + 1 /\ i + 1 \in 1..c - n + 1 /\ n + (i + 1) = j + 1
          /\ j \in 0..c /\ n \in 0..c /\ 0 \in 0..c /\ j # n /\ j # 0
          /\ j + 1 \in 1..c + 1 /\ n + 1 \in 1..c + 1 /\ 1 \in 1..c + 1 /\ j + 1 # n + 1 /\ j + 1 # 1
          /\ j \in Int /\ j + 1 \in Int
      BY <1>1, <2>3
    <3>2. Pos(g, v, i) = Pos(g, s, j) /\ Pos(g, v, i + 1) = Pos(g, s, j + 1)
      BY <2>1, <3>1
    <3> HIDE DEF j
    <3>3. Pos(g, s, j) # g /\ Pos(g, s, j) # e /\ Pos(g, s, j + 1) # z /\ Pos(g, s, j + 1) # a
      BY <1>1, <1>4, <3>1
    <3>4. Pos(g, s, j) # h /\ Pos(g, s, j + 1) # h /\ Pos(g, s, j) \in Nodes /\ Pos(g, s, j + 1) \in Nodes
      BY <1>1, <1>3, <3>1
    <3> HIDE DEF a, e, z
    <3> QED BY <1>2, <1>5, <3>1, <3>2, <3>3, <3>4
  <2> QED BY <1>1, <2>2, <2>3
<1>9. Ring(m2, h, u) /\ Ring(m2, g, v)
  BY <1>6, <1>7, <1>8 DEF Ring
<1>10. ASSUME NEW x \in Nodes \ {g, h}, ~Within(s, x)
       PROVE  m2.next[x] = m.next[x] /\ m2.prev[x] = m.prev[x]
  <2>1. \A i \in Int : x # Pos(g, s, i)
    BY <1>10 DEF Within, Pos
  <2>2. x # e /\ x # a /\ x # z
    BY <1>1, <1>4, <2>1
  <2> HIDE DEF a, e, z
  <2> QED BY <1>5, <1>10, <2>2
<1> QED BY <1>5, <1>9, <1>10 DEF m2, u, v

(* list_cut_position at an entry, in a memory that holds lists. *)
LEMMA CutKeeps ==
    ASSUME NEW m, NEW L, Holds(m, L, {}), NEW g \in ListHeads, NEW h \in ListHeads, g # h,
           L[h] = <<>>, NEW n \in 1..Len(L[g])
    PROVE  Holds(ListCutPosition(m, h, g, L[g][n]),
                 [L EXCEPT ![g] = Behind(L[g], n), ![h] = UpTo(L[g], n)], {})
<1> DEFINE s == L[g]
           u == UpTo(s, n)
           v == Behind(s, n)
           m2 == ListCutPosition(m, h, g, s[n])
<1>1. m \in Memory /\ Single(s) /\ Ring(m, g, s)
  BY DEF Holds
<1>2. \A x : ~Within(L[h], x)
  BY DEF Within
<1> HIDE DEF s
<1>3. /\ m2 \in Memory /\ Ring(m2, g, v) /\ Ring(m2, h, u)
      /\ \A x \in Nodes \ {g, h} : ~Within(s, x) => m2.next[x] = m.next[x] /\ m2.prev[x] = m.prev[x]
  BY <1>1, RingCut DEF s
<1>4. /\ Single(u) /\ Single(v) /\ \A x : ~(Within(v, x) /\ Within(u, x))
      /\ \A x : Within(v, x) \/ Within(u, x) <=> Within(s, x)
  <2>1. n \in 0..Len(s)
    BY <1>1 DEF Single, s
  <2> QED BY <1>1, <2>1, CutSingle
<1> HIDE DEF m2, u, v
<1>5. Holds(m2, [L EXCEPT ![g] = v, ![h] = u], {})
  <2>1. \A x : Within(v, x) \/ Within(u, x) <=> Within(L[g], x) \/ Within(L[h], x)
    BY <1>2, <1>4 DEF s
  <2>2. \A x \in Nodes \ {g, h} : ~Within(L[g], x) /\ ~Within(L[h], x) =>
            m2.next[x] = m.next[x] /\ m2.prev[x] = m.prev[x]
    BY <1>3 DEF s
  <2> QED BY <1>3, <1>4, <2>1, <2>2, TwoLists
<1> QED BY <1>5 DEF m2, u, v, s

-----------------------------------------------------------------------------
(* What the walks find: Sublist, of a list that has the entry to leave out *)
(* and of one that has not, and list_for_each.                             *)

(* A walk that leaves out an entry of the list. *)
LEMMA SublistDrops ==
    ASSUME NEW s, Single(s), NEW k \in 1..Len(s)
    PROVE  Sublist(s, Entries \ {s[k]}) = DropAt(s, k)
<1> DEFINE T == Entries \ {s[k]}
           n == Len(s)
           Part(i) == [j \in 1..(IF i < k THEN i ELSE i - 1) |-> IF j < k THEN s[j] ELSE s[j + 1]]
<1>1. /\ s \in Seq(Entries) /\ n \in Nat /\ k \in Nat /\ 1 <= k /\ k <= n
      /\ \A i \in 1..n : s[i] \in Entries
      /\ \A i \in 1..n : s[i] = s[k] => i = k
  BY DEF Single
<1>2. PICK f : Walks(f, n, s, T) /\ Sublist(s, T) = f[n]
  BY <1>1, WalkExists
<1>3. \A i \in 0..n : f[i] = IF i = 0 THEN <<>>
                             ELSE IF s[i] \in T THEN Append(f[i - 1], s[i]) ELSE f[i - 1]
  BY <1>2 DEF Walks
<1> DEFINE P == {i \in 0..n : f[i] = Part(i)}
<1>4. 0 \in P
  <2>1. f[0] = <<>> /\ 0 < k /\ 0 \in 0..n
    BY <1>1, <1>3
  <2>2. Part(0) = <<>>
    BY <2>1
  <2> QED BY <2>1, <2>2
<1>5. ASSUME NEW i \in 0..n, i < n, i \in P PROVE i + 1 \in P
  <2>1. /\ i \in Nat /\ i + 1 \in 0..n /\ i + 1 \in 1..n /\ i + 1 # 0 /\ (i + 1) - 1 = i
    BY <1>1, <1>5
  <2>2. f[i + 1] = IF i + 1 # k THEN Append(f[i], s[i + 1]) ELSE f[i]
    BY <1>1, <1>3, <2>1
  <2>3. f[i] = Part(i)
    BY <1>5
  <2>4. Part(i + 1) = IF i + 1 # k THEN Append(Part(i), s[i + 1]) ELSE Part(i)
    <3>1. CASE i + 1 = k
      <4>1. (IF i + 1 < k THEN i + 1 ELSE (i + 1) - 1) = (IF i < k THEN i ELSE i - 1)
        BY <1>1, <2>1, <3>1
      <4> QED BY <3>1, <4>1
    <3>2. CASE i + 1 < k
      <4>1. i < k /\ i + 1 # k
        BY <1>1, <2>1, <3>2
      <4>2. Part(i) = [j \in 1..i |-> IF j < k THEN s[j] ELSE s[j + 1]]
        BY <4>1
      <4>3. Part(i + 1) = [j \in 1..i + 1 |-> IF j < k THEN s[j] ELSE s[j + 1]]
        BY <3>2
      <4> DEFINE q == [j \in 1..i |-> IF j < k THEN s[j] ELSE s[j + 1]]
                 r == [j \in 1..i + 1 |-> IF j < k THEN s[j] ELSE s[j + 1]]
      <4>4. q \in Seq(Entries) /\ Len(q) = i
        <5>1. \A j \in 1..i : (IF j < k THEN s[j] ELSE s[j + 1]) \in Entries
          BY <1>1, <2>1, <4>1
        <5>2. q \in [1..i -> Entries]
          BY <5>1
        <5> QED BY <2>1, <5>2
      <4>5. r = Append(q, s[i + 1])
        <5>1. r[i + 1] = s[i + 1] /\ \A j \in 1..i : r[j] = q[j]
          BY <2>1, <3>2
        <5>2. DOMAIN r = 1..i + 1 /\ r = [j \in 1..i + 1 |-> r[j]]
          OBVIOUS
        <5>3. s[i + 1] \in Entries
          BY <1>1, <2>1
        <5> HIDE DEF q, r
        <5>4. /\ DOMAIN Append(q, s[i + 1]) = 1..i + 1
              /\ \A j \in 1..i : Append(q, s[i + 1])[j] = q[j]
              /\ Append(q, s[i + 1])[i + 1] = s[i + 1]
              /\ Append(q, s[i + 1]) \in Seq(Entries) /\ Len(Append(q, s[i + 1])) = i + 1
          BY <2>1, <4>4, <5>3
        <5>5. \A j \in 1..i + 1 : j \in 1..i \/ j = i + 1
          BY <2>1
        <5>6. \A j \in 1..i + 1 : Append(q, s[i + 1])[j] = r[j]
          BY <5>1, <5>4, <5>5
        <5>7. Append(q, s[i + 1]) = [j \in 1..i + 1 |-> Append(q, s[i + 1])[j]]
          BY <5>4
        <5> QED BY <5>2, <5>6, <5>7
      <4> HIDE DEF q, r, Part
      <4> QED BY <4>1, <4>2, <4>3, <4>5 DEF q, r
    <3>3. CASE i + 1 > k
      <4>1. ~(i < k) /\ ~(i + 1 < k) /\ i + 1 # k /\ (i + 1) - 1 = i /\ i - 1 \in Nat /\ (i - 1) + 1 = i
        BY <1>1, <2>1, <3>3
      <4>2. Part(i) = [j \in 1..i - 1 |-> IF j < k THEN s[j] ELSE s[j + 1]]
        BY <4>1
      <4>3. Part(i + 1) = [j \in 1..i |-> IF j < k THEN s[j] ELSE s[j + 1]]
        BY <4>1
      <4> DEFINE q == [j \in 1..i - 1 |-> IF j < k THEN s[j] ELSE s[j + 1]]
                 r == [j \in 1..i |-> IF j < k THEN s[j] ELSE s[j + 1]]
      <4>4. q \in Seq(Entries) /\ Len(q) = i - 1
        <5>1. \A j \in 1..i - 1 : (IF j < k THEN s[j] ELSE s[j + 1]) \in Entries
          BY <1>1, <2>1, <4>1
        <5>2. q \in [1..i - 1 -> Entries]
          BY <5>1
        <5> QED BY <4>1, <5>2
      <4>5. r = Append(q, s[i + 1])
        <5>1. r[i] = s[i + 1] /\ \A j \in 1..i - 1 : r[j] = q[j]
          BY <2>1, <4>1
        <5>2. DOMAIN r = 1..i /\ r = [j \in 1..i |-> r[j]]
          OBVIOUS
        <5>3. s[i + 1] \in Entries
          BY <1>1, <2>1
        <5> HIDE DEF q, r
        <5>4. /\ DOMAIN Append(q, s[i + 1]) = 1..i
              /\ \A j \in 1..i - 1 : Append(q, s[i + 1])[j] = q[j]
              /\ Append(q, s[i + 1])[i] = s[i + 1]
          BY <4>1, <4>4, <5>3
        <5>5. \A j \in 1..i : j \in 1..i - 1 \/ j = i
          BY <2>1
        <5>6. \A j \in 1..i : Append(q, s[i + 1])[j] = r[j]
          BY <5>1, <5>4, <5>5
        <5>7. Append(q, s[i + 1]) = [j \in 1..i |-> Append(q, s[i + 1])[j]]
          BY <4>1, <4>4, <5>3, <5>4
        <5> QED BY <5>2, <5>6, <5>7
      <4> HIDE DEF q, r, Part
      <4> QED BY <4>1, <4>2, <4>3, <4>5 DEF q, r
    <3> QED BY <1>1, <2>1, <3>1, <3>2, <3>3
  <2> HIDE DEF Part
  <2> QED BY <2>1, <2>2, <2>3, <2>4
<1>6. 0..n \subseteq P
  <2> HIDE DEF P
  <2> QED BY <1>1, <1>4, <1>5, CountUp
<1>7. f[n] = Part(n) /\ ~(n < k)
  <2>1. n \in 0..n /\ ~(n < k)
    BY <1>1
  <2> HIDE DEF Part
  <2> QED BY <1>6, <2>1
<1>8. Part(n) = DropAt(s, k)
  BY <1>7 DEF DropAt
<1> QED BY <1>2, <1>7, <1>8

(* A walk that leaves out nothing the list has. *)
LEMMA SublistIsAll ==
    ASSUME NEW S, NEW s \in Seq(S), NEW T, \A i \in 1..Len(s) : s[i] \in T
    PROVE  Sublist(s, T) = s
<1> DEFINE n == Len(s)
<1>1. n \in Nat
  OBVIOUS
<1>2. PICK f : Walks(f, n, s, T) /\ Sublist(s, T) = f[n]
  BY WalkExists
<1>3. \A i \in 0..n : f[i] = IF i = 0 THEN <<>>
                             ELSE IF s[i] \in T THEN Append(f[i - 1], s[i]) ELSE f[i - 1]
  BY <1>2 DEF Walks
<1> DEFINE P == {i \in 0..n : f[i] \in Seq(S) /\ Len(f[i]) = i /\ \A j \in 1..i : f[i][j] = s[j]}
<1>4. 0 \in P
  <2>1. f[0] = <<>> /\ 0 \in 0..n
    BY <1>1, <1>3
  <2>2. <<>> \in Seq(S) /\ Len(<<>>) = 0 /\ \A j \in 1..0 : <<>>[j] = s[j]
    OBVIOUS
  <2>3. f[0] \in Seq(S) /\ Len(f[0]) = 0 /\ \A j \in 1..0 : f[0][j] = s[j]
    BY <2>1, <2>2
  <2> QED BY <2>1, <2>3
<1>5. ASSUME NEW i \in 0..n, i < n, i \in P PROVE i + 1 \in P
  <2>1. /\ i \in Nat /\ i + 1 \in 0..n /\ i + 1 \in 1..n /\ i + 1 # 0 /\ (i + 1) - 1 = i
    BY <1>1, <1>5
  <2>2. f[i + 1] = Append(f[i], s[i + 1]) /\ s[i + 1] \in S
    <3>1. s[i + 1] \in T /\ s[i + 1] \in S
      BY <2>1
    <3>2. f[i + 1] = IF i + 1 = 0 THEN <<>>
                     ELSE IF s[i + 1] \in T THEN Append(f[(i + 1) - 1], s[i + 1]) ELSE f[(i + 1) - 1]
      BY <1>3, <2>1
    <3> QED BY <2>1, <3>1, <3>2
  <2> DEFINE q == f[i]
  <2>3. q \in Seq(S) /\ Len(q) = i /\ \A j \in 1..i : q[j] = s[j]
    BY <1>5
  <2> HIDE DEF q
  <2>4. /\ Append(q, s[i + 1]) \in Seq(S) /\ Len(Append(q, s[i + 1])) = i + 1
        /\ \A j \in 1..i : Append(q, s[i + 1])[j] = q[j]
        /\ Append(q, s[i + 1])[i + 1] = s[i + 1]
    BY <2>1, <2>2, <2>3
  <2>5. \A j \in 1..i + 1 : j \in 1..i \/ j = i + 1
    BY <2>1
  <2>6. \A j \in 1..i + 1 : Append(q, s[i + 1])[j] = s[j]
    BY <2>3, <2>4, <2>5
  <2> QED BY <2>1, <2>2, <2>4, <2>6 DEF q
<1>6. 0..n \subseteq P
  <2> HIDE DEF P
  <2> QED BY <1>1, <1>4, <1>5, CountUp
<1>7. f[n] \in Seq(S) /\ Len(f[n]) = n /\ \A j \in 1..n : f[n][j] = s[j]
  BY <1>1, <1>6
<1> QED BY <1>2, <1>7, SeqEqual

-----------------------------------------------------------------------------

(* f is the walk of ListOf, as far as step n. *)
Steps(f, n, m, h) ==
    f = [i \in 1..n |-> IF i = 1 THEN m.next[h] ELSE IF f[i - 1] = Null THEN Null ELSE m.next[f[i - 1]]]

(* The walk of ListOf, step by step, is a function. *)
LEMMA StepsExist ==
    ASSUME NEW max \in Nat, NEW m, NEW h
    PROVE  \E f : Steps(f, max, m, h)
<1> DEFINE P == {n \in 0..max : \E f : Steps(f, n, m, h)}
<1>1. 0 \in P
  <2> DEFINE f == [i \in 1..0 |-> h]
  <2>1. Steps(f, 0, m, h)
    BY DEF Steps
  <2> QED BY <2>1
<1>2. ASSUME NEW n \in 0..max, n < max, n \in P
      PROVE  n + 1 \in P
  <2>1. PICK f : Steps(f, n, m, h)
    BY <1>2
  <2> DEFINE g == [i \in 1..n + 1 |->
                    IF i <= n THEN f[i]
                    ELSE IF n = 0 THEN m.next[h] ELSE IF f[n] = Null THEN Null ELSE m.next[f[n]]]
  <2>2. n \in Nat /\ n + 1 \in 0..max
    BY <1>2
  <2>3. \A i \in 1..n : f[i] = IF i = 1 THEN m.next[h] ELSE IF f[i - 1] = Null THEN Null ELSE m.next[f[i - 1]]
    BY <2>1 DEF Steps
  <2>4. ASSUME NEW i \in 1..n + 1
        PROVE  g[i] = IF i = 1 THEN m.next[h] ELSE IF g[i - 1] = Null THEN Null ELSE m.next[g[i - 1]]
    <3>1. CASE i <= n
      <4>1. i \in 1..n /\ g[i] = f[i]
        BY <2>2, <3>1
      <4>2. i # 1 => g[i - 1] = f[i - 1]
        <5>1. i # 1 => i - 1 \in 1..n + 1 /\ i - 1 <= n
          BY <2>2, <3>1
        <5> QED BY <5>1
      <4> HIDE DEF g
      <4> QED BY <2>3, <4>1, <4>2
    <3>2. CASE i = n + 1 /\ n = 0
      BY <3>2
    <3>3. CASE i = n + 1 /\ n # 0
      <4>1. n \in 1..n + 1 /\ n + 1 \in 1..n + 1 /\ ~(n + 1 <= n) /\ (n + 1) - 1 = n /\ n + 1 # 1
        BY <2>2, <3>3
      <4>2. g[n] = f[n] /\ g[n + 1] = IF f[n] = Null THEN Null ELSE m.next[f[n]]
        BY <2>2, <3>3, <4>1
      <4> HIDE DEF g
      <4> QED BY <3>3, <4>1, <4>2
    <3> QED BY <2>2, <3>1, <3>2, <3>3
  <2>5. Steps(g, n + 1, m, h)
    <3>1. g = [i \in 1..n + 1 |-> g[i]]
      OBVIOUS
    <3> HIDE DEF g
    <3> QED BY <2>4, <3>1 DEF Steps
  <2> QED BY <2>2, <2>5
<1>3. 0..max \subseteq P
  <2> HIDE DEF P
  <2> QED BY <1>1, <1>2, CountUp
<1> QED BY <1>3

(* A list and its head are no more than there are nodes. *)
LEMMA ListIsShort ==
    ASSUME NEW h \in ListHeads, NEW s, Single(s)
    PROVE  Cardinality(Nodes) \in Nat /\ Len(s) + 1 <= Cardinality(Nodes)
<1>1. IsFiniteSet(Nodes) /\ Cardinality(Nodes) \in Nat
  BY NodesAssumption, FS_CardinalityType DEF Nodes
<1> DEFINE n == Len(s)
           f == [i \in 0..n |-> Pos(h, s, i)]
<1>2. n \in Nat
  BY DEF Single
<1>3. f \in Injection(0..n, Nodes)
  <2>1. \A i \in 0..n : Pos(h, s, i) \in Nodes
    BY <1>2, PosFacts
  <2>2. \A i, j \in 0..n : Pos(h, s, i) = Pos(h, s, j) => i = j
    BY PosFacts
  <2>3. f \in [0..n -> Nodes]
    BY <2>1
  <2>4. IsInjective(f)
    BY <2>2 DEF IsInjective
  <2> HIDE DEF f
  <2> QED BY <2>3, <2>4 DEF Injection
<1>4. Cardinality(0..n) <= Cardinality(Nodes)
  <2> HIDE DEF f
  <2> QED BY <1>1, <1>3, FS_Injection
<1>5. Cardinality(0..n) = n + 1
  <2>1. 0 \in Int /\ n \in Int /\ ~(0 > n)
    BY <1>2
  <2>2. Cardinality(0..n) = n - 0 + 1
    BY <2>1, FS_Interval
  <2> QED BY <1>2, <2>2
<1> QED BY <1>1, <1>4, <1>5

(* list_for_each, in a ring. *)
LEMMA WalkFindsList ==
    ASSUME NEW m \in Memory, NEW h \in ListHeads, NEW s, Single(s), Ring(m, h, s)
    PROVE  ListOf(m, h) = s
<1> DEFINE max == Cardinality(Nodes)
           at == CHOOSE f : Steps(f, max, m, h)
           back == {i \in 1..max : at[i] = h}
           first == CHOOSE i \in back : \A j \in back : i <= j
           n == Len(s)
<1>1. max \in Nat /\ n + 1 <= max /\ n \in Nat
  BY ListIsShort, PosFacts
<1>2. Steps(at, max, m, h)
  BY <1>1, StepsExist
<1>3. ListOf(m, h) = [i \in 1..(IF back = {} THEN max ELSE first - 1) |-> at[i]]
  BY DEF ListOf, Steps
<1>4. /\ Pos(h, s, 0) = h /\ Pos(h, s, n + 1) = h
      /\ \A i \in 0..n : m.next[Pos(h, s, i)] = Pos(h, s, i + 1)
      /\ \A i \in 1..n : Pos(h, s, i) = s[i] /\ s[i] # h
      /\ \A i \in Int : Pos(h, s, i) # Null
  BY PosFacts, NodesApart DEF Ring
<1> HIDE DEF at
<1>5. \A i \in 1..max : at[i] = IF i = 1 THEN m.next[h] ELSE IF at[i - 1] = Null THEN Null ELSE m.next[at[i - 1]]
  BY <1>2 DEF Steps
<1> HIDE DEF max
<1> DEFINE P == {i \in 0..n : at[i + 1] = Pos(h, s, i + 1)}
<1>6. 0 \in P
  <2>1. 1 \in 1..max /\ 0 \in 0..n
    BY <1>1
  <2> QED BY <1>4, <1>5, <2>1
<1>7. ASSUME NEW i \in 0..n, i < n, i \in P PROVE i + 1 \in P
  <2>1. i + 1 \in 0..n /\ (i + 1) + 1 \in 1..max /\ (i + 1) + 1 # 1 /\ ((i + 1) + 1) - 1 = i + 1 /\ i + 1 \in Int
    BY <1>1, <1>7
  <2>2. at[i + 1] = Pos(h, s, i + 1)
    BY <1>7
  <2> QED BY <1>4, <1>5, <2>1, <2>2
<1>8. \A i \in 1..n + 1 : at[i] = Pos(h, s, i)
  <2>1. 0..n \subseteq P
    <3> HIDE DEF P
    <3> QED BY <1>1, <1>6, <1>7, CountUp
  <2>2. \A i \in 1..n + 1 : i - 1 \in 0..n /\ (i - 1) + 1 = i
    BY <1>1
  <2> QED BY <2>1, <2>2
<1>9. n + 1 \in back /\ \A i \in back : n + 1 <= i
  <2>1. n + 1 \in 1..max /\ n + 1 \in 1..n + 1
    BY <1>1
  <2>2. n + 1 \in back
    BY <1>4, <1>8, <2>1
  <2>3. ASSUME NEW i \in back, ~(n + 1 <= i) PROVE FALSE
    <3>1. i \in 1..n /\ i \in 1..n + 1
      BY <1>1, <2>3
    <3> QED BY <1>4, <1>8, <2>3, <3>1
  <2> QED BY <2>2, <2>3
<1>10. first = n + 1
  <2>1. first \in back /\ \A j \in back : first <= j
    BY <1>9
  <2>2. first \in Nat /\ first <= n + 1 /\ n + 1 <= first
    <3> HIDE DEF first
    <3> QED BY <1>1, <1>9, <2>1
  <2> HIDE DEF first
  <2> QED BY <1>1, <2>2
<1>11. back # {}
  BY <1>9
<1> HIDE DEF first, back
<1>12. (IF back = {} THEN max ELSE first - 1) = n
  BY <1>1, <1>10, <1>11
<1>13. ListOf(m, h) = [i \in 1..n |-> s[i]]
  <2>1. \A i \in 1..n : at[i] = s[i]
    BY <1>1, <1>4, <1>8
  <2> QED BY <1>3, <1>12, <2>1
<1>14. s = [i \in 1..n |-> s[i]]
  BY DEF Single
<1> QED BY <1>13, <1>14

-----------------------------------------------------------------------------
(* The lists the operations leave, as ListSeqs writes them. *)

(* An insertion at an end. *)
LEMMA InsertEnds ==
    ASSUME NEW s, Single(s), NEW e \in Entries, ~Within(s, e)
    PROVE  /\ InsertAfter(s, 0, e) = <<e>> \o s
           /\ InsertAfter(s, Len(s), e) = Append(s, e)
<1> DEFINE n == Len(s)
           a == InsertAfter(s, 0, e)
           b == InsertAfter(s, n, e)
<1>1. s \in Seq(Entries) /\ n \in Nat
  BY DEF Single
<1>2. a \in Seq(Entries) /\ b \in Seq(Entries) /\ Len(a) = n + 1 /\ Len(b) = n + 1
  <2>1. 0 \in 0..n /\ n \in 0..n
    BY <1>1
  <2> QED BY <2>1, InsertSingle DEF Single
<1>3. /\ \A i \in 1..n + 1 : a[i] = IF i = 1 THEN e ELSE s[i - 1]
      /\ \A i \in 1..n + 1 : b[i] = IF i = n + 1 THEN e ELSE s[i]
  <2>1. \A i \in 1..n + 1 : ~(i <= 0) /\ (i = 0 + 1 <=> i = 1)
    BY <1>1
  <2>2. \A i \in 1..n + 1 : i <= n <=> i # n + 1
    BY <1>1
  <2> QED BY <2>1, <2>2 DEF InsertAfter
<1> HIDE DEF a, b
<1>4. a = <<e>> \o s
  <2>1. /\ <<e>> \o s \in Seq(Entries) /\ Len(<<e>> \o s) = n + 1
        /\ \A i \in 1..n + 1 : (<<e>> \o s)[i] = IF i = 1 THEN e ELSE s[i - 1]
    BY <1>1
  <2> HIDE DEF n
  <2> QED BY <1>2, <1>3, <2>1, SeqEqual
<1>5. b = Append(s, e)
  <2>1. /\ Append(s, e) \in Seq(Entries) /\ Len(Append(s, e)) = n + 1
        /\ \A i \in 1..n + 1 : Append(s, e)[i] = IF i = n + 1 THEN e ELSE s[i]
    BY <1>1
  <2> HIDE DEF n
  <2> QED BY <1>2, <1>3, <2>1, SeqEqual
<1> QED BY <1>4, <1>5 DEF a, b

(* A splice at an end. *)
LEMMA SpliceEnds ==
    ASSUME NEW t, Single(t), NEW s, Single(s), \A x : ~(Within(t, x) /\ Within(s, x))
    PROVE  /\ SpliceIn(t, 0, s) = s \o t
           /\ SpliceIn(t, Len(t), s) = t \o s
<1> DEFINE n == Len(t)
           c == Len(s)
           a == SpliceIn(t, 0, s)
           b == SpliceIn(t, n, s)
<1>1. s \in Seq(Entries) /\ t \in Seq(Entries) /\ n \in Nat /\ c \in Nat
  BY DEF Single
<1>2. a \in Seq(Entries) /\ b \in Seq(Entries) /\ Len(a) = n + c /\ Len(b) = n + c
  <2>1. 0 \in 0..n /\ n \in 0..n
    BY <1>1
  <2> QED BY <2>1, SpliceSingle DEF Single
<1>3. /\ \A i \in 1..n + c : a[i] = IF i <= c THEN s[i] ELSE t[i - c]
      /\ \A i \in 1..n + c : b[i] = IF i <= n THEN t[i] ELSE s[i - n]
  <2>1. \A i \in 1..n + c : ~(i <= 0) /\ i - 0 = i /\ 0 + c = c
    BY <1>1
  <2>2. \A i \in 1..n + c : i <= n + c
    BY <1>1
  <2> QED BY <2>1, <2>2 DEF SpliceIn
<1> HIDE DEF a, b
<1>4. a = s \o t
  <2>1. /\ s \o t \in Seq(Entries) /\ Len(s \o t) = n + c
        /\ \A i \in 1..n + c : (s \o t)[i] = IF i <= c THEN s[i] ELSE t[i - c]
    BY <1>1
  <2> HIDE DEF n, c
  <2> DEFINE r == s \o t
  <2>2. r \in Seq(Entries) /\ Len(a) = Len(r) /\ \A i \in 1..Len(a) : a[i] = r[i]
    BY <1>2, <1>3, <2>1
  <2> HIDE DEF r
  <2>3. a = r
    BY <1>2, <2>2, SeqEqual
  <2> QED BY <2>3 DEF r
<1>5. b = t \o s
  <2>1. /\ t \o s \in Seq(Entries) /\ Len(t \o s) = n + c
        /\ \A i \in 1..n + c : (t \o s)[i] = IF i <= n THEN t[i] ELSE s[i - n]
    BY <1>1, ConcatProperties
  <2> HIDE DEF n, c
  <2> QED BY <1>2, <1>3, <2>1, SeqEqual
<1> QED BY <1>4, <1>5 DEF a, b

(* The two parts of a cut. *)
LEMMA CutEnds ==
    ASSUME NEW s, Single(s), NEW n \in 0..Len(s)
    PROVE  UpTo(s, n) = SubSeq(s, 1, n) /\ Behind(s, n) = SubSeq(s, n + 1, Len(s))
<1> DEFINE c == Len(s)
           a == UpTo(s, n)
           b == Behind(s, n)
<1>1. s \in Seq(Entries) /\ c \in Nat /\ n \in Nat /\ n <= c
  BY DEF Single
<1>2. a \in Seq(Entries) /\ b \in Seq(Entries) /\ Len(a) = n /\ Len(b) = c - n
  BY CutSingle DEF Single
<1>3. /\ \A i \in 1..n : a[i] = s[i]
      /\ \A i \in 1..c - n : b[i] = s[n + i]
  BY DEF UpTo, Behind
<1> HIDE DEF a, b
<1>4. a = SubSeq(s, 1, n)
  <2>1. /\ SubSeq(s, 1, n) \in Seq(Entries) /\ Len(SubSeq(s, 1, n)) = n
        /\ \A i \in 1..n : SubSeq(s, 1, n)[i] = s[i]
    BY <1>1, SubSeqProperties
  <2> QED BY <1>2, <1>3, <2>1, SeqEqual
<1>5. b = SubSeq(s, n + 1, c)
  <2> DEFINE k == n + 1
  <2>1. k \in Int /\ c \in Int /\ \A i \in k..c : s[i] \in Entries
    BY <1>1
  <2>2. /\ c - k + 1 = c - n /\ (k <= c => c - k + 1 = c - n) /\ (~(k <= c) => c - n = 0)
        /\ \A i \in 1..c - n : k + i - 1 = n + i
    BY <1>1
  <2> HIDE DEF k
  <2>3. /\ SubSeq(s, k, c) \in Seq(Entries)
        /\ Len(SubSeq(s, k, c)) = IF k <= c THEN c - k + 1 ELSE 0
        /\ \A i \in 1..c - k + 1 : SubSeq(s, k, c)[i] = s[k + i - 1]
    BY <2>1, SubSeqProperties
  <2>4. /\ SubSeq(s, k, c) \in Seq(Entries) /\ Len(SubSeq(s, k, c)) = c - n
        /\ \A i \in 1..c - n : SubSeq(s, k, c)[i] = s[n + i]
    BY <2>2, <2>3
  <2>5. b = SubSeq(s, k, c)
    <3> HIDE DEF c
    <3> DEFINE r == SubSeq(s, k, c)
    <3>1. r \in Seq(Entries) /\ Len(b) = Len(r) /\ \A i \in 1..Len(b) : b[i] = r[i]
      BY <1>2, <1>3, <2>4
    <3> HIDE DEF r
    <3>2. b = r
      BY <1>2, <3>1, SeqEqual
    <3> QED BY <3>2 DEF r
  <2> QED BY <2>5 DEF k
<1> QED BY <1>4, <1>5 DEF a, b

(* The removal of the first entry. *)
LEMMA DropFirst ==
    ASSUME NEW s, Single(s), s # <<>>
    PROVE  Len(s) \in Nat \ {0} /\ DropAt(s, 1) = Tail(s) /\ Head(s) = s[1]
<1> DEFINE n == Len(s)
           a == DropAt(s, 1)
<1>1. s \in Seq(Entries) /\ n \in Nat \ {0}
  BY DEF Single
<1>2. a \in Seq(Entries) /\ Len(a) = n - 1
  <2>1. 1 \in 1..n
    BY <1>1
  <2> QED BY <2>1, DropSingle DEF Single
<1>3. \A i \in 1..n - 1 : a[i] = s[i + 1]
  <2>1. \A i \in 1..n - 1 : ~(i < 1)
    OBVIOUS
  <2> QED BY <2>1 DEF DropAt
<1> HIDE DEF a
<1>4. /\ Tail(s) \in Seq(Entries) /\ Len(Tail(s)) = n - 1 /\ Head(s) = s[1]
      /\ \A i \in 1..n - 1 : Tail(s)[i] = s[i + 1]
  BY <1>1
<1>5. a = Tail(s)
  <2> HIDE DEF n
  <2> QED BY <1>2, <1>3, <1>4, SeqEqual
<1> QED BY <1>1, <1>4, <1>5 DEF a

(* f in e's place. *)
LEMMA PutInPlace ==
    ASSUME NEW s, Single(s), NEW k \in 1..Len(s), NEW f
    PROVE  InsertAfter(DropAt(s, k), k - 1, f) = [i \in DOMAIN s |-> IF s[i] = s[k] THEN f ELSE s[i]]
<1> DEFINE n == Len(s)
           r == DropAt(s, k)
<1>1. n \in Nat /\ k \in Nat /\ 1 <= k /\ k <= n /\ DOMAIN s = 1..n /\ \A i, j \in 1..n : s[i] = s[j] => i = j
  BY DEF Single
<1>2. Len(r) = n - 1 /\ \A i \in 1..n - 1 : r[i] = IF i < k THEN s[i] ELSE s[i + 1]
  BY DropSingle DEF DropAt
<1> HIDE DEF r, n
<1>3. InsertAfter(r, k - 1, f) = [i \in 1..n |-> IF i <= k - 1 THEN r[i] ELSE IF i = k THEN f ELSE r[i - 1]]
  <2>1. Len(r) + 1 = n /\ (k - 1) + 1 = k
    BY <1>1, <1>2
  <2> QED BY <2>1 DEF InsertAfter
<1>4. ASSUME NEW i \in 1..n
      PROVE  (IF i <= k - 1 THEN r[i] ELSE IF i = k THEN f ELSE r[i - 1]) = IF s[i] = s[k] THEN f ELSE s[i]
  <2>1. s[i] = s[k] <=> i = k
    BY <1>1
  <2>2. CASE i <= k - 1
    <3>1. i \in 1..n - 1 /\ i < k /\ i # k
      BY <1>1, <2>2
    <3> QED BY <1>2, <2>1, <2>2, <3>1
  <2>3. CASE i = k
    <3>1. ~(i <= k - 1)
      BY <1>1, <2>3
    <3> QED BY <2>1, <2>3, <3>1
  <2>4. CASE i > k
    <3>1. i - 1 \in 1..n - 1 /\ ~(i - 1 < k) /\ (i - 1) + 1 = i /\ i # k /\ ~(i <= k - 1)
      BY <1>1, <2>4
    <3> QED BY <1>2, <2>1, <3>1
  <2> QED BY <1>1, <2>2, <2>3, <2>4
<1> QED BY <1>1, <1>3, <1>4 DEF r

-----------------------------------------------------------------------------
(* What the calls do to the lists. *)

(* Memories with the same pointers are the same. *)
LEMMA SameMemory ==
    ASSUME NEW m \in Memory, NEW m2 \in Memory,
           \A x \in Nodes : m2.next[x] = m.next[x] /\ m2.prev[x] = m.prev[x]
    PROVE  m2 = m
<1>1. m.next \in [Nodes -> Refs] /\ m.prev \in [Nodes -> Refs]
      /\ m2.next \in [Nodes -> Refs] /\ m2.prev \in [Nodes -> Refs]
  BY MemoryFacts
<1>2. m2.next = m.next /\ m2.prev = m.prev
  BY <1>1
<1> QED BY <1>2 DEF Memory

(* What the pointers of a head and of an entry tell. *)
LEMMA HeadFacts ==
    ASSUME NEW m, NEW L, NEW X, Holds(m, L, X), NEW h \in ListHeads
    PROVE  /\ m.next[h] = Pos(h, L[h], 1) /\ m.prev[h] = Pos(h, L[h], Len(L[h]))
           /\ Len(L[h]) \in Nat
           /\ Pos(h, L[h], 0) = h /\ Pos(h, L[h], Len(L[h]) + 1) = h
           /\ ListEmpty(m, h) <=> L[h] = <<>>
           /\ L[h] # <<>> => m.next[h] = L[h][1]
<1> DEFINE s == L[h]
           n == Len(s)
<1>1. Single(s) /\ Ring(m, h, s)
  BY DEF Holds
<1> HIDE DEF s
<1>2. /\ n \in Nat /\ Pos(h, s, 0) = h /\ Pos(h, s, n + 1) = h
      /\ \A i \in 1..n : Pos(h, s, i) = s[i] /\ s[i] # h
  BY <1>1, PosFacts
<1>3. m.next[h] = Pos(h, s, 1) /\ m.prev[h] = Pos(h, s, n)
  <2>1. 0 \in 0..n /\ n \in 0..n /\ 0 + 1 = 1
    BY <1>2
  <2> QED BY <1>1, <1>2, <2>1 DEF Ring
<1>4. s = <<>> <=> n = 0
  BY <1>1 DEF Single
<1>5. n = 0 => m.next[h] = h
  BY <1>2, <1>3
<1>6. n # 0 => m.next[h] = s[1] /\ m.next[h] # h
  <2>1. n # 0 => 1 \in 1..n
    BY <1>2
  <2> QED BY <1>2, <1>3, <2>1
<1> QED BY <1>2, <1>3, <1>4, <1>5, <1>6 DEF s, ListEmpty

(* An entry of no list has pointers to itself or none, one of a list has   *)
(* others.                                                                 *)
LEMMA EntryFacts ==
    ASSUME NEW m, NEW L, Holds(m, L, {}), NEW e \in Entries
    PROVE  /\ In(L, e) <=> m.next[e] \notin {e, Null}
           /\ ~In(L, e) => IdleAt(m, e)
<1>1. ~In(L, e) => IdleAt(m, e)
  BY DEF Holds
<1>2. ASSUME In(L, e) PROVE m.next[e] \notin {e, Null}
  <2>0. PICK h \in ListHeads : Within(L[h], e)
    BY <1>2 DEF In
  <2>1. PICK i \in 1..Len(L[h]) : L[h][i] = e
    BY <2>0 DEF Within
  <2> DEFINE s == L[h]
             n == Len(s)
  <2>2. Single(s) /\ Ring(m, h, s)
    BY DEF Holds
  <2> HIDE DEF s
  <2>3. /\ n \in Nat /\ Pos(h, s, i) = e /\ Pos(h, s, i + 1) \in Nodes
        /\ \A a, b \in 1..n + 1 : Pos(h, s, a) = Pos(h, s, b) => a = b
    <3>1. i \in 1..n /\ s[i] = e /\ i + 1 \in Int
      BY <2>1 DEF s
    <3>2. /\ Len(s) \in Nat
          /\ \A j \in Int : Pos(h, s, j) \in Nodes
          /\ \A j \in 1..Len(s) : Pos(h, s, j) = s[j]
          /\ \A a, b \in 1..Len(s) + 1 : Pos(h, s, a) = Pos(h, s, b) => a = b
      BY <2>2, PosFacts
    <3> QED BY <3>1, <3>2
  <2>4. i \in 0..n /\ i \in 1..n + 1 /\ i + 1 \in 1..n + 1 /\ i # i + 1
    BY <2>1, <2>3 DEF s
  <2>5. m.next[e] = Pos(h, s, i + 1)
    BY <2>2, <2>3, <2>4 DEF Ring
  <2> QED BY <2>3, <2>4, <2>5, NodesApart
<1> QED BY <1>1, <1>2 DEF IdleAt

(* list_add, list_add_tail *)
LEMMA AddHolds ==
    ASSUME NEW m, NEW L, NEW e \in Entries, Holds(m, L, {e}), ~In(L, e), NEW h \in ListHeads
    PROVE  /\ Holds(ListAdd(m, e, h), [L EXCEPT ![h] = <<e>> \o @], {})
           /\ Holds(ListAddTail(m, e, h), [L EXCEPT ![h] = Append(@, e)], {})
<1> DEFINE s == L[h]
           n == Len(s)
<1>1. /\ m.next[h] = Pos(h, s, 1) /\ m.prev[h] = Pos(h, s, n) /\ n \in Nat
      /\ Pos(h, s, 0) = h /\ Pos(h, s, n + 1) = h
  BY HeadFacts
<1>2. Single(s) /\ ~Within(s, e)
  BY DEF Holds, In
<1>3. InsertAfter(s, 0, e) = <<e>> \o s /\ InsertAfter(s, n, e) = Append(s, e)
  BY <1>2, InsertEnds
<1>4. 0 \in 0..n /\ n \in 0..n /\ 0 + 1 = 1
  BY <1>1
<1>5. Holds(LinkBetween(m, e, Pos(h, s, 0), Pos(h, s, 0 + 1)), [L EXCEPT ![h] = InsertAfter(s, 0, e)], {})
  BY <1>4, AddKeeps
<1>6. Holds(LinkBetween(m, e, Pos(h, s, n), Pos(h, s, n + 1)), [L EXCEPT ![h] = InsertAfter(s, n, e)], {})
  BY <1>4, AddKeeps
<1>7. ListAdd(m, e, h) = LinkBetween(m, e, Pos(h, s, 0), Pos(h, s, 0 + 1))
  BY <1>1, <1>4 DEF ListAdd
<1>8. ListAddTail(m, e, h) = LinkBetween(m, e, Pos(h, s, n), Pos(h, s, n + 1))
  BY <1>1 DEF ListAddTail
<1> QED BY <1>3, <1>5, <1>6, <1>7, <1>8

WithoutOf(L, e) == [h \in ListHeads |-> Sublist(L[h], Entries \ {e})]

(* The lists without e: those they were, if e is in none. *)
LEMMA WithoutIs ==
    ASSUME NEW m, NEW L, Holds(m, L, {}), NEW e \in Entries
    PROVE  /\ ~In(L, e) => WithoutOf(L, e) = L
           /\ \A h \in ListHeads : \A k \in 1..Len(L[h]) :
                L[h][k] = e => WithoutOf(L, e) = [L EXCEPT ![h] = DropAt(L[h], k)]
<1>1. L \in [ListHeads -> Seq(Entries)] /\ \A h \in ListHeads : Single(L[h])
  BY DEF Holds
<1>2. ASSUME NEW g \in ListHeads, ~Within(L[g], e)
      PROVE  Sublist(L[g], Entries \ {e}) = L[g]
  <2>1. L[g] \in Seq(Entries) /\ \A i \in 1..Len(L[g]) : L[g][i] \in Entries \ {e}
    BY <1>1, <1>2 DEF Within
  <2> QED BY <2>1, SublistIsAll
<1>3. ASSUME ~In(L, e) PROVE WithoutOf(L, e) = L
  <2>1. \A g \in ListHeads : Sublist(L[g], Entries \ {e}) = L[g]
    BY <1>2, <1>3 DEF In
  <2> QED BY <1>1, <2>1 DEF WithoutOf
<1>4. ASSUME NEW h \in ListHeads, NEW k \in 1..Len(L[h]), L[h][k] = e
      PROVE  WithoutOf(L, e) = [L EXCEPT ![h] = DropAt(L[h], k)]
  <2>1. Sublist(L[h], Entries \ {e}) = DropAt(L[h], k)
    BY <1>1, <1>4, SublistDrops
  <2>2. ASSUME NEW g \in ListHeads, g # h PROVE Sublist(L[g], Entries \ {e}) = L[g]
    <3>1. Within(L[h], e)
      BY <1>4 DEF Within
    <3>2. ~Within(L[g], e)
      BY <2>2, <3>1 DEF Holds
    <3> QED BY <1>2, <3>2
  <2> QED BY <1>1, <2>1, <2>2 DEF WithoutOf
<1> QED BY <1>3, <1>4

(* __list_del_entry of an entry that is in some list. *)
LEMMA UnlinkHolds ==
    ASSUME NEW m, NEW L, Holds(m, L, {}), NEW e \in Entries, In(L, e)
    PROVE  Holds(DelEntry(m, e), WithoutOf(L, e), {e}) /\ ~In(WithoutOf(L, e), e)
<1>0. PICK h \in ListHeads : Within(L[h], e)
  BY DEF In
<1>1. PICK k \in 1..Len(L[h]) : L[h][k] = e
  BY <1>0 DEF Within
<1>2. WithoutOf(L, e) = [L EXCEPT ![h] = DropAt(L[h], k)]
  BY <1>1, WithoutIs
<1>3. /\ Holds(DelEntry(m, L[h][k]), [L EXCEPT ![h] = DropAt(L[h], k)], {L[h][k]})
      /\ ~In([L EXCEPT ![h] = DropAt(L[h], k)], L[h][k])
  BY DelKeeps
<1> QED BY <1>1, <1>2, <1>3

(* list_del_init, list_del *)
LEMMA DeleteHolds ==
    ASSUME NEW m, NEW L, Holds(m, L, {}), NEW e \in Entries
    PROVE  /\ m.next[e] # Null => Holds(DelInit(m, e), WithoutOf(L, e), {})
           /\ In(L, e) => Holds(ListDel(m, e), WithoutOf(L, e), {})
<1>1. ASSUME In(L, e)
      PROVE  Holds(DelInit(m, e), WithoutOf(L, e), {}) /\ Holds(ListDel(m, e), WithoutOf(L, e), {})
  <2>1. Holds(DelEntry(m, e), WithoutOf(L, e), {e}) /\ ~In(WithoutOf(L, e), e)
    BY <1>1, UnlinkHolds
  <2> QED BY <2>1, ResetKeeps DEF DelInit, ListDel
<1>2. ASSUME ~In(L, e), m.next[e] # Null
      PROVE  Holds(DelInit(m, e), WithoutOf(L, e), {})
  <2>1. m.next[e] = e /\ m.prev[e] = e /\ m \in Memory /\ e \in Nodes
    BY <1>2, EntryFacts, NodesApart DEF IdleAt, Holds
  <2>2. /\ DelEntry(m, e) \in Memory
        /\ \A x \in Nodes : /\ DelEntry(m, e).next[x] = IF x = e THEN e ELSE m.next[x]
                            /\ DelEntry(m, e).prev[x] = IF x = e THEN e ELSE m.prev[x]
    BY <2>1, UnlinkFactsOf
  <2>3. DelEntry(m, e) = m
    BY <2>1, <2>2, SameMemory
  <2>4. Holds(m, L, {e})
    BY HoldsFacts
  <2>5. Holds(InitHead(m, e), L, {})
    BY <1>2, <2>4, ResetKeeps
  <2>6. WithoutOf(L, e) = L
    BY <1>2, WithoutIs
  <2> QED BY <2>3, <2>5, <2>6 DEF DelInit
<1> QED BY <1>1, <1>2

(* list_rotate_left *)
LEMMA RotateHolds ==
    ASSUME NEW m, NEW L, Holds(m, L, {}), NEW h \in ListHeads
    PROVE  Holds(ListRotateLeft(m, h),
                 IF L[h] = <<>> THEN L ELSE [L EXCEPT ![h] = Append(Tail(@), Head(@))], {})
<1>1. CASE L[h] = <<>>
  <2>1. ListEmpty(m, h)
    BY <1>1, HeadFacts
  <2> QED BY <1>1, <2>1 DEF ListRotateLeft
<1>2. CASE L[h] # <<>>
  <2> DEFINE e == L[h][1]
             K == [L EXCEPT ![h] = Tail(L[h])]
  <2>1. ~ListEmpty(m, h) /\ m.next[h] = e /\ Single(L[h]) /\ L \in [ListHeads -> Seq(Entries)]
    BY <1>2, HeadFacts, HoldsFacts
  <2>2. Len(L[h]) \in Nat \ {0} /\ DropAt(L[h], 1) = Tail(L[h]) /\ Head(L[h]) = e
    BY <1>2, <2>1, DropFirst
  <2>3. 1 \in 1..Len(L[h])
    BY <2>2
  <2>4. e \in Entries
    BY <2>1, <2>3
  <2>5. Holds(DelEntry(m, e), K, {e}) /\ ~In(K, e)
    BY <2>2, <2>3, DelKeeps
  <2>6. K[h] = Tail(L[h]) /\ [K EXCEPT ![h] = Append(@, e)] = [L EXCEPT ![h] = Append(Tail(@), Head(@))]
    BY <2>1, <2>2
  <2> HIDE DEF K, e
  <2>7. Holds(ListAddTail(DelEntry(m, e), e, h), [K EXCEPT ![h] = Append(@, e)], {})
    BY <2>4, <2>5, AddHolds
  <2> QED BY <1>2, <2>1, <2>6, <2>7 DEF ListRotateLeft
<1> QED BY <1>1, <1>2

(* list_splice_init, list_splice_tail_init *)
LEMMA SpliceHolds ==
    ASSUME NEW m, NEW L, Holds(m, L, {}), NEW g \in ListHeads, NEW h \in ListHeads, g # h
    PROVE  /\ Holds(ListSpliceInit(m, g, h), [L EXCEPT ![h] = L[g] \o @, ![g] = <<>>], {})
           /\ Holds(ListSpliceTailInit(m, g, h), [L EXCEPT ![h] = @ \o L[g], ![g] = <<>>], {})
<1> DEFINE s == L[g]
           t == L[h]
           n == Len(t)
<1>1. /\ L \in [ListHeads -> Seq(Entries)] /\ Single(s) /\ Single(t)
      /\ \A x : ~(Within(t, x) /\ Within(s, x))
  BY DEF Holds
<1>2. CASE s = <<>>
  <2>1. ListEmpty(m, g)
    BY <1>2, HeadFacts
  <2>2. <<>> \o t = t /\ t \o <<>> = t
    BY <1>1, ConcatEmptySeq
  <2>3. /\ [L EXCEPT ![h] = L[g] \o @, ![g] = <<>>] = L
        /\ [L EXCEPT ![h] = @ \o L[g], ![g] = <<>>] = L
    BY <1>1, <1>2, <2>2
  <2> QED BY <2>1, <2>3 DEF ListSpliceInit, ListSpliceTailInit
<1>3. CASE s # <<>>
  <2>1. ~ListEmpty(m, g)
    BY <1>3, HeadFacts
  <2>2. /\ m.next[h] = Pos(h, t, 1) /\ m.prev[h] = Pos(h, t, n) /\ n \in Nat
        /\ Pos(h, t, 0) = h /\ Pos(h, t, n + 1) = h
    BY HeadFacts
  <2>3. 0 \in 0..n /\ n \in 0..n /\ 0 + 1 = 1
    BY <2>2
  <2>4. SpliceIn(t, 0, s) = s \o t /\ SpliceIn(t, n, s) = t \o s
    BY <1>1, SpliceEnds
  <2>5. Holds(InitHead(SpliceBetween(m, g, Pos(h, t, 0), Pos(h, t, 0 + 1)), g),
              [L EXCEPT ![g] = <<>>, ![h] = SpliceIn(t, 0, s)], {})
    BY <1>3, <2>3, SpliceKeeps
  <2>6. Holds(InitHead(SpliceBetween(m, g, Pos(h, t, n), Pos(h, t, n + 1)), g),
              [L EXCEPT ![g] = <<>>, ![h] = SpliceIn(t, n, s)], {})
    BY <1>3, <2>3, SpliceKeeps
  <2>7. /\ [L EXCEPT ![h] = L[g] \o @, ![g] = <<>>] = [L EXCEPT ![g] = <<>>, ![h] = s \o t]
        /\ [L EXCEPT ![h] = @ \o L[g], ![g] = <<>>] = [L EXCEPT ![g] = <<>>, ![h] = t \o s]
    <3>1. \A u, v : u = v => [L EXCEPT ![h] = u, ![g] = <<>>] = [L EXCEPT ![g] = <<>>, ![h] = v]
      BY <1>1
    <3> QED BY <3>1
  <2>8. ListSpliceInit(m, g, h) = InitHead(SpliceBetween(m, g, Pos(h, t, 0), Pos(h, t, 0 + 1)), g)
    BY <2>1, <2>2, <2>3 DEF ListSpliceInit
  <2>9. ListSpliceTailInit(m, g, h) = InitHead(SpliceBetween(m, g, Pos(h, t, n), Pos(h, t, n + 1)), g)
    BY <2>1, <2>2 DEF ListSpliceTailInit
  <2> QED BY <2>4, <2>5, <2>6, <2>7, <2>8, <2>9
<1> QED BY <1>2, <1>3

(* list_cut_position *)
LEMMA CutHolds ==
    ASSUME NEW m, NEW L, Holds(m, L, {}), NEW g \in ListHeads, NEW h \in ListHeads, g # h,
           L[h] = <<>>, NEW n \in 0..Len(L[g])
    PROVE  Holds(ListCutPosition(m, h, g, IF n = 0 THEN g ELSE L[g][n]),
                 [L EXCEPT ![h] = SubSeq(L[g], 1, n), ![g] = SubSeq(@, n + 1, Len(@))], {})
<1> DEFINE s == L[g]
<1>1. L \in [ListHeads -> Seq(Entries)] /\ Single(s) /\ Len(s) \in Nat /\ m \in Memory
  BY HeadFacts DEF Holds
<1>2. CASE n = 0
  <2>1. SubSeq(s, 1, n) = <<>> /\ SubSeq(s, n + 1, Len(s)) = s
    <3>1. s \in Seq(Entries)
      BY <1>1
    <3> HIDE DEF s
    <3> QED BY <1>1, <1>2, <3>1, SubSeqEmpty, SubSeqFull
  <2>2. [L EXCEPT ![h] = SubSeq(L[g], 1, n), ![g] = SubSeq(@, n + 1, Len(@))] = L
    BY <1>1, <2>1
  <2>3. InitHead(m, h) = m
    <3>1. m.next[h] = h /\ m.prev[h] = h
      <4>1. Ring(m, h, <<>>)
        BY DEF Holds
      <4> QED BY <4>1 DEF Ring, Pos
    <3>2. h \in Nodes /\ h \in Refs
      BY NodesApart DEF Refs
    <3>3. SetNext(m, h, h) = m
      BY <1>1, <3>1, <3>2, SetFacts, SameMemory
    <3>4. SetPrev(m, h, h) = m
      BY <1>1, <3>1, <3>2, SetFacts, SameMemory
    <3> QED BY <3>3, <3>4 DEF InitHead
  <2>4. ListCutPosition(m, h, g, g) = m
    BY <2>3 DEF ListCutPosition
  <2> QED BY <1>2, <2>2, <2>4
<1>3. CASE n # 0
  <2>1. n \in 1..Len(L[g]) /\ n \in 0..Len(s)
    BY <1>1, <1>3
  <2>2. Holds(ListCutPosition(m, h, g, L[g][n]),
              [L EXCEPT ![g] = Behind(L[g], n), ![h] = UpTo(L[g], n)], {})
    BY <2>1, CutKeeps
  <2>3. UpTo(s, n) = SubSeq(s, 1, n) /\ Behind(s, n) = SubSeq(s, n + 1, Len(s))
    BY <1>1, <2>1, CutEnds
  <2>4. [L EXCEPT ![h] = SubSeq(L[g], 1, n), ![g] = SubSeq(@, n + 1, Len(@))]
        = [L EXCEPT ![g] = Behind(L[g], n), ![h] = UpTo(L[g], n)]
    BY <1>1, <2>3
  <2> QED BY <1>3, <2>2, <2>4
<1> QED BY <1>2, <1>3

(* What list_replace writes: next and prev of new, and of what was next to *)
(* old.                                                                    *)
LEMMA ReplaceWrites ==
    ASSUME NEW m \in Memory, NEW old \in Nodes, NEW new \in Nodes, NEW p \in Nodes, NEW q \in Nodes,
           m.prev[old] = p, m.next[old] = q, new # old, new # p, new # q, old # p, old # q
    PROVE  LET m2 == ListReplace(m, old, new) IN
           /\ m2 \in Memory
           /\ \A x \in Nodes : /\ m2.next[x] = IF x = p THEN new ELSE IF x = new THEN q ELSE m.next[x]
                               /\ m2.prev[x] = IF x = new THEN p ELSE IF x = q THEN new ELSE m.prev[x]
<1> DEFINE m1 == SetNext(m, new, q)
           m2 == SetPrev(m1, m1.next[new], new)
           m3 == SetPrev(m2, new, m2.prev[old])
           m4 == SetNext(m3, m3.prev[new], new)
<1>0. new \in Refs /\ old \in Refs /\ p \in Refs /\ q \in Refs
  BY DEF Refs
<1>1. m1 \in Memory /\ \A x \in Nodes : m1.prev[x] = m.prev[x] /\ m1.next[x] = IF x = new THEN q ELSE m.next[x]
  BY <1>0, SetFacts
<1>2. ASSUME m1 \in Memory, m1.next[new] = q
      PROVE  m2 \in Memory /\ \A x \in Nodes : m2.next[x] = m1.next[x] /\ m2.prev[x] = IF x = q THEN new ELSE m1.prev[x]
  <2> HIDE DEF m1
  <2> QED BY <1>0, <1>2, SetFacts
<1>3. ASSUME m2 \in Memory, m2.prev[old] = p
      PROVE  m3 \in Memory /\ \A x \in Nodes : m3.next[x] = m2.next[x] /\ m3.prev[x] = IF x = new THEN p ELSE m2.prev[x]
  <2> HIDE DEF m2
  <2> QED BY <1>0, <1>3, SetFacts
<1>4. ASSUME m3 \in Memory, m3.prev[new] = p
      PROVE  m4 \in Memory /\ \A x \in Nodes : m4.prev[x] = m3.prev[x] /\ m4.next[x] = IF x = p THEN new ELSE m3.next[x]
  <2> HIDE DEF m3
  <2> QED BY <1>0, <1>4, SetFacts
<1>5. ListReplace(m, old, new) = m4
  BY DEF ListReplace
<1> HIDE DEF m1, m2, m3, m4
<1>6. m2 \in Memory /\ m2.prev[old] = p
  BY <1>1, <1>2
<1>7. m3 \in Memory /\ m3.prev[new] = p
  BY <1>3, <1>6
<1>8. m4 \in Memory
  BY <1>4, <1>7
<1>9. \A x \in Nodes : /\ m4.next[x] = IF x = p THEN new ELSE IF x = new THEN q ELSE m.next[x]
                       /\ m4.prev[x] = IF x = new THEN p ELSE IF x = q THEN new ELSE m.prev[x]
  BY <1>1, <1>2, <1>3, <1>4, <1>6, <1>7
<1> QED BY <1>5, <1>8, <1>9

(* list_replace_init of an entry comes to a list_del_init of the old one   *)
(* and an __list_add of the new one where it was.                          *)
LEMMA ReplaceIsDelAndAdd ==
    ASSUME NEW m \in Memory, NEW old \in Nodes, NEW new \in Nodes, NEW p \in Nodes, NEW q \in Nodes,
           m.prev[old] = p, m.next[old] = q, new # old, new # p, new # q, old # p, old # q
    PROVE  InitHead(ListReplace(m, old, new), old) = LinkBetween(DelInit(m, old), new, p, q)
<1> DEFINE a == ListReplace(m, old, new)
           a1 == SetNext(a, old, old)
           a2 == SetPrev(a1, old, old)
           b == DelEntry(m, old)
           b1 == SetNext(b, old, old)
           b2 == SetPrev(b1, old, old)
           c == LinkBetween(b2, new, p, q)
<1>0. old \in Refs
  BY DEF Refs
<1>1. /\ a \in Memory
      /\ \A x \in Nodes : /\ a.next[x] = IF x = p THEN new ELSE IF x = new THEN q ELSE m.next[x]
                          /\ a.prev[x] = IF x = new THEN p ELSE IF x = q THEN new ELSE m.prev[x]
  BY ReplaceWrites
<1>2. /\ b \in Memory
      /\ \A x \in Nodes : /\ b.next[x] = IF x = p THEN q ELSE m.next[x]
                          /\ b.prev[x] = IF x = q THEN p ELSE m.prev[x]
  BY UnlinkFactsOf
<1> HIDE DEF a, b
<1>3. a1 \in Memory /\ \A x \in Nodes : a1.prev[x] = a.prev[x] /\ a1.next[x] = IF x = old THEN old ELSE a.next[x]
  BY <1>0, <1>1, SetFacts
<1>4. b1 \in Memory /\ \A x \in Nodes : b1.prev[x] = b.prev[x] /\ b1.next[x] = IF x = old THEN old ELSE b.next[x]
  BY <1>0, <1>2, SetFacts
<1> HIDE DEF a1, b1
<1>5. a2 \in Memory /\ \A x \in Nodes : a2.next[x] = a1.next[x] /\ a2.prev[x] = IF x = old THEN old ELSE a1.prev[x]
  BY <1>0, <1>3, SetFacts
<1>6. b2 \in Memory /\ \A x \in Nodes : b2.next[x] = b1.next[x] /\ b2.prev[x] = IF x = old THEN old ELSE b1.prev[x]
  BY <1>0, <1>4, SetFacts
<1> HIDE DEF a2, b2
<1>7. /\ c \in Memory
      /\ \A x \in Nodes : /\ c.next[x] = IF x = p THEN new ELSE IF x = new THEN q ELSE b2.next[x]
                          /\ c.prev[x] = IF x = new THEN p ELSE IF x = q THEN new ELSE b2.prev[x]
  BY <1>6, LinkFactsOf
<1> HIDE DEF c
<1>8. \A x \in Nodes : a2.next[x] = c.next[x] /\ a2.prev[x] = c.prev[x]
  BY <1>1, <1>2, <1>3, <1>4, <1>5, <1>6, <1>7
<1>9. a2 = c
  BY <1>5, <1>7, <1>8, SameMemory
<1> QED BY <1>9 DEF a, a1, a2, b, b1, b2, c, InitHead, DelInit

(* list_replace_init of an entry *)
LEMMA ReplaceEntryHolds ==
    ASSUME NEW m, NEW L, Holds(m, L, {}), NEW old \in Entries, In(L, old), NEW new \in Entries, ~In(L, new)
    PROVE  Holds(InitHead(ListReplace(m, old, new), old),
                 [h \in ListHeads |-> [i \in DOMAIN L[h] |-> IF L[h][i] = old THEN new ELSE L[h][i]]], {})
<1>0. PICK h \in ListHeads : Within(L[h], old)
  BY DEF In
<1>1. PICK k \in 1..Len(L[h]) : L[h][k] = old
  BY <1>0 DEF Within
<1> DEFINE s == L[h]
           n == Len(s)
           r == DropAt(s, k)
           K == [L EXCEPT ![h] = r]
           p == Pos(h, s, k - 1)
           q == Pos(h, s, k + 1)
           m1 == DelInit(m, old)
<1>2. L \in [ListHeads -> Seq(Entries)] /\ Single(s) /\ Ring(m, h, s) /\ m \in Memory
  BY DEF Holds
<1>3. /\ n \in Nat /\ k \in 1..n /\ s[k] = old
      /\ \A i \in Int : Pos(h, s, i) \in Nodes
      /\ \A i \in 1..n : Pos(h, s, i) = s[i]
      /\ Pos(h, s, 0) = h /\ Pos(h, s, n + 1) = h
      /\ \A i, j \in 0..n : Pos(h, s, i) = Pos(h, s, j) => i = j
      /\ \A i, j \in 1..n + 1 : Pos(h, s, i) = Pos(h, s, j) => i = j
  <2> HIDE DEF s
  <2>1. k \in 1..n /\ s[k] = old
    BY <1>1 DEF s
  <2> QED BY <1>2, <2>1, PosFacts
<1>4. Holds(m1, K, {}) /\ ~In(K, old)
  <2>1. Holds(DelEntry(m, old), K, {old}) /\ ~In(K, old)
    BY <1>1, DelKeeps
  <2> HIDE DEF K
  <2> QED BY <2>1, ResetKeeps DEF DelInit
<1>5. K[h] = r /\ Holds(m1, K, {new})
  <2>1. K[h] = r
    BY <1>2
  <2> HIDE DEF K, m1
  <2> QED BY <1>4, <2>1, HoldsFacts
<1>6. ~In(K, new)
  <2>1. Single(r) /\ \A x : Within(r, x) => Within(s, x)
    BY <1>2, <1>3, DropSingle
  <2>2. \A g \in ListHeads : ~Within(L[g], new)
    BY DEF In
  <2> HIDE DEF r
  <2>3. \A g \in ListHeads : ~Within(K[g], new)
    BY <1>2, <2>1, <2>2
  <2> QED BY <2>3 DEF In
<1>7. p \in Nodes /\ q \in Nodes /\ old \in Nodes /\ new \in Nodes
      /\ m.prev[old] = p /\ m.next[old] = q /\ old # p /\ old # q
  <2>1. k - 1 \in 0..n /\ k \in 0..n /\ (k - 1) + 1 = k /\ k \in 1..n + 1 /\ k + 1 \in 1..n + 1
        /\ k - 1 # k /\ k + 1 # k /\ k - 1 \in Int /\ k + 1 \in Int
    BY <1>3
  <2>2. Pos(h, s, k) = old
    BY <1>3
  <2>3. m.next[Pos(h, s, k)] = Pos(h, s, k + 1) /\ m.prev[Pos(h, s, (k - 1) + 1)] = Pos(h, s, k - 1)
    BY <1>2, <2>1 DEF Ring
  <2> QED BY <1>3, <2>1, <2>2, <2>3, NodesApart
<1>8. new # old /\ new # p /\ new # q
  <2>1. ~Within(s, new)
    BY DEF In
  <2>2. new # h
    BY NodesApart
  <2> QED BY <1>3, <2>1, <2>2 DEF Within, Pos
<1>9. /\ k - 1 \in 0..Len(r)
      /\ Pos(h, r, k - 1) = p /\ Pos(h, r, (k - 1) + 1) = q
  <2>1. Len(r) = n - 1
    BY <1>2, <1>3, DropSingle
  <2>2. \A i \in 1..n - 1 : r[i] = IF i < k THEN s[i] ELSE s[i + 1]
    BY DEF DropAt
  <2> HIDE DEF r, n
  <2>3. k - 1 \in 0..Len(r) /\ (k - 1) + 1 = k
    BY <1>3, <2>1
  <2>4. Pos(h, r, k - 1) = p
    <3>1. CASE k = 1
      <4>1. k - 1 = 0 /\ 0 \notin 1..Len(r)
        BY <3>1
      <4> QED BY <1>3, <4>1 DEF Pos
    <3>2. CASE k # 1
      <4>1. k - 1 \in 1..n - 1 /\ k - 1 \in 1..n /\ k - 1 < k /\ k - 1 \in 1..Len(r)
        BY <1>3, <2>1, <3>2
      <4> QED BY <1>3, <2>2, <4>1 DEF Pos
    <3> QED BY <3>1, <3>2
  <2>5. Pos(h, r, k) = q
    <3>1. CASE k = n
      <4>1. k \notin 1..Len(r)
        BY <1>3, <2>1, <3>1
      <4> QED BY <1>3, <3>1, <4>1 DEF Pos
    <3>2. CASE k # n
      <4>1. k \in 1..n - 1 /\ k + 1 \in 1..n /\ ~(k < k) /\ k \in 1..Len(r)
        BY <1>3, <2>1, <3>2
      <4> QED BY <1>3, <2>2, <4>1 DEF Pos
    <3> QED BY <3>1, <3>2
  <2> QED BY <2>3, <2>4, <2>5
<1>10. InitHead(ListReplace(m, old, new), old) = LinkBetween(m1, new, p, q)
  <2> HIDE DEF p, q
  <2> QED BY <1>2, <1>7, <1>8, ReplaceIsDelAndAdd
<1>11. Holds(LinkBetween(m1, new, p, q), [K EXCEPT ![h] = InsertAfter(r, k - 1, new)], {})
  <2> DEFINE j == k - 1
  <2>1. j \in 0..Len(K[h]) /\ Pos(h, K[h], j) = p /\ Pos(h, K[h], j + 1) = q
    BY <1>5, <1>9
  <2> HIDE DEF K, m1, p, q, r, j
  <2>2. Holds(LinkBetween(m1, new, p, q), [K EXCEPT ![h] = InsertAfter(K[h], j, new)], {})
    BY <1>5, <1>6, <2>1, AddKeeps
  <2> QED BY <1>5, <2>2 DEF j
<1>12. [K EXCEPT ![h] = InsertAfter(r, k - 1, new)]
       = [g \in ListHeads |-> [i \in DOMAIN L[g] |-> IF L[g][i] = old THEN new ELSE L[g][i]]]
  <2>1. InsertAfter(r, k - 1, new) = [i \in DOMAIN s |-> IF s[i] = old THEN new ELSE s[i]]
    BY <1>2, <1>3, PutInPlace
  <2>2. ASSUME NEW g \in ListHeads, g # h
        PROVE  [i \in DOMAIN L[g] |-> IF L[g][i] = old THEN new ELSE L[g][i]] = L[g]
    <3>1. \A i \in 1..Len(L[g]) : L[g][i] # old
      BY <1>0, <2>2 DEF Holds, Within
    <3>2. L[g] \in Seq(Entries)
      BY <1>2
    <3>3. DOMAIN L[g] = 1..Len(L[g]) /\ L[g] = [i \in DOMAIN L[g] |-> L[g][i]]
      BY <3>2
    <3> QED BY <3>1, <3>3
  <2> HIDE DEF r
  <2> DEFINE v == InsertAfter(r, k - 1, new)
             Swapped(t) == [i \in DOMAIN t |-> IF t[i] = old THEN new ELSE t[i]]
  <2>3. v = Swapped(L[h]) /\ \A g \in ListHeads : g # h => Swapped(L[g]) = L[g]
    BY <2>1, <2>2
  <2> HIDE DEF v, Swapped
  <2>4. [K EXCEPT ![h] = v] = [g \in ListHeads |-> Swapped(L[g])]
    BY <1>2, <2>3
  <2> QED BY <2>4 DEF v, Swapped
<1> HIDE DEF p, q, m1, K
<1> QED BY <1>10, <1>11, <1>12

(* list_replace_init of a head *)
LEMMA ReplaceHeadHolds ==
    ASSUME NEW m, NEW L, Holds(m, L, {}), NEW g \in ListHeads, NEW h \in ListHeads, g # h, L[h] = <<>>
    PROVE  Holds(InitHead(ListReplace(m, g, h), g), [L EXCEPT ![h] = L[g], ![g] = <<>>], {})
<1> DEFINE s == L[g]
<1>1. /\ L \in [ListHeads -> Seq(Entries)] /\ Single(s) /\ Single(L[h]) /\ m \in Memory
      /\ g \in Nodes /\ h \in Nodes /\ g \in Refs /\ h \in Refs
  BY NodesApart DEF Holds, Refs
<1>2. m.next[h] = h /\ m.prev[h] = h
  <2>1. Ring(m, h, <<>>)
    BY DEF Holds
  <2> QED BY <2>1 DEF Ring, Pos
<1>3. CASE s = <<>>
  <2>1. m.next[g] = g /\ m.prev[g] = g
    <3>1. Ring(m, g, <<>>)
      BY <1>3 DEF Holds
    <3> QED BY <3>1 DEF Ring, Pos
  <2>2. [L EXCEPT ![h] = L[g], ![g] = <<>>] = L
    BY <1>1, <1>3
  <2> DEFINE a1 == SetNext(m, h, g)
             a2 == SetPrev(a1, g, h)
             a3 == SetPrev(a2, h, h)
             a4 == SetNext(a3, h, h)
             a5 == SetNext(a4, g, g)
             a6 == SetPrev(a5, g, g)
  <2>3. a1 \in Memory /\ \A x \in Nodes : a1.prev[x] = m.prev[x] /\ a1.next[x] = IF x = h THEN g ELSE m.next[x]
    BY <1>1, SetFacts
  <2> HIDE DEF a1
  <2>4. a2 \in Memory /\ \A x \in Nodes : a2.next[x] = a1.next[x] /\ a2.prev[x] = IF x = g THEN h ELSE a1.prev[x]
    BY <1>1, <2>3, SetFacts
  <2> HIDE DEF a2
  <2>5. a3 \in Memory /\ \A x \in Nodes : a3.next[x] = a2.next[x] /\ a3.prev[x] = IF x = h THEN h ELSE a2.prev[x]
    BY <1>1, <2>4, SetFacts
  <2> HIDE DEF a3
  <2>6. a4 \in Memory /\ \A x \in Nodes : a4.prev[x] = a3.prev[x] /\ a4.next[x] = IF x = h THEN h ELSE a3.next[x]
    BY <1>1, <2>5, SetFacts
  <2> HIDE DEF a4
  <2>7. a5 \in Memory /\ \A x \in Nodes : a5.prev[x] = a4.prev[x] /\ a5.next[x] = IF x = g THEN g ELSE a4.next[x]
    BY <1>1, <2>6, SetFacts
  <2> HIDE DEF a5
  <2>8. a6 \in Memory /\ \A x \in Nodes : a6.next[x] = a5.next[x] /\ a6.prev[x] = IF x = g THEN g ELSE a5.prev[x]
    BY <1>1, <2>7, SetFacts
  <2> HIDE DEF a6
  <2>9. a6 = m
    <3>1. \A x \in Nodes : a6.next[x] = m.next[x] /\ a6.prev[x] = m.prev[x]
      BY <1>2, <2>1, <2>3, <2>4, <2>5, <2>6, <2>7, <2>8
    <3> QED BY <1>1, <2>8, <3>1, SameMemory
  <2>10. a1.next[h] = g /\ a2.prev[g] = h /\ a3.prev[h] = h
    BY <1>1, <2>3, <2>4, <2>5
  <2>11. ListReplace(m, g, h) = a4
    <3>1. SetNext(m, h, m.next[g]) = a1
      BY <2>1 DEF a1
    <3>2. SetPrev(a1, a1.next[h], h) = a2
      BY <2>10 DEF a2
    <3>3. SetPrev(a2, h, a2.prev[g]) = a3
      BY <2>10 DEF a3
    <3>4. SetNext(a3, a3.prev[h], h) = a4
      BY <2>10 DEF a4
    <3> QED BY <3>1, <3>2, <3>3, <3>4 DEF ListReplace
  <2>12. InitHead(ListReplace(m, g, h), g) = a6
    BY <2>11 DEF InitHead, a5, a6
  <2> QED BY <2>2, <2>9, <2>12
<1>4. CASE s # <<>>
  <2> DEFINE a == m.next[g]
             b == m.prev[g]
             r == SpliceIn(L[h], 0, s)
             x1 == ListReplace(m, g, h)
             x2 == SetNext(x1, g, g)
             x3 == SetPrev(x2, g, g)
             y == InitHead(SpliceBetween(m, g, h, h), g)
  <2>1. /\ a \in Nodes /\ b \in Nodes /\ a # g /\ b # g /\ a # h /\ b # h
    <3>1. /\ a = Pos(g, s, 1) /\ b = Pos(g, s, Len(s)) /\ Len(s) \in Nat
      BY HeadFacts
    <3>2. Len(s) # 0
      BY <1>1, <1>4 DEF Single
    <3>3. 1 \in 1..Len(s) /\ Len(s) \in 1..Len(s)
      BY <3>1, <3>2
    <3>4. \A i \in 1..Len(s) : Pos(g, s, i) \in Entries
      BY <1>1, PosFacts
    <3> QED BY <3>1, <3>3, <3>4, NodesApart
  <2>2. /\ x1 \in Memory
        /\ \A x \in Nodes : /\ x1.next[x] = IF x = b THEN h ELSE IF x = h THEN a ELSE m.next[x]
                            /\ x1.prev[x] = IF x = h THEN b ELSE IF x = a THEN h ELSE m.prev[x]
    <3>1. a = m.next[g] /\ b = m.prev[g]
      OBVIOUS
    <3> HIDE DEF a, b
    <3> QED BY <1>1, <2>1, <3>1, ReplaceWrites
  <2>3. /\ y \in Memory
        /\ \A x \in Nodes :
            /\ y.next[x] = IF x = g THEN g ELSE IF x = b THEN h ELSE IF x = h THEN a ELSE m.next[x]
            /\ y.prev[x] = IF x = g THEN g ELSE IF x = h THEN b ELSE IF x = a THEN h ELSE m.prev[x]
    BY <1>1, <2>1, SpliceFactsOf
  <2> HIDE DEF x1, y
  <2>4. x2 \in Memory /\ \A x \in Nodes : x2.prev[x] = x1.prev[x] /\ x2.next[x] = IF x = g THEN g ELSE x1.next[x]
    BY <1>1, <2>2, SetFacts
  <2> HIDE DEF x2
  <2>5. x3 \in Memory /\ \A x \in Nodes : x3.next[x] = x2.next[x] /\ x3.prev[x] = IF x = g THEN g ELSE x2.prev[x]
    BY <1>1, <2>4, SetFacts
  <2> HIDE DEF x3
  <2>6. x3 = y
    <3>1. \A x \in Nodes : x3.next[x] = y.next[x] /\ x3.prev[x] = y.prev[x]
      BY <2>1, <2>2, <2>3, <2>4, <2>5
    <3> QED BY <2>3, <2>5, <3>1, SameMemory
  <2>7. InitHead(ListReplace(m, g, h), g) = y
    BY <2>6 DEF InitHead, x1, x2, x3
  <2>8. /\ 0 \in 0..Len(L[h]) /\ Pos(h, L[h], 0) = h /\ Pos(h, L[h], 0 + 1) = h
    BY DEF Pos
  <2>9. Holds(y, [L EXCEPT ![g] = <<>>, ![h] = r], {})
    <3>1. Holds(InitHead(SpliceBetween(m, g, Pos(h, L[h], 0), Pos(h, L[h], 0 + 1)), g),
                [L EXCEPT ![g] = <<>>, ![h] = SpliceIn(L[h], 0, L[g])], {})
      BY <1>4, <2>8, SpliceKeeps
    <3> QED BY <2>8, <3>1 DEF y
  <2>10. r = s
    <3>1. r = s \o L[h]
      BY <1>1, SpliceEnds DEF Holds
    <3>2. s \o <<>> = s
      BY <1>1, ConcatEmptySeq
    <3> QED BY <3>1, <3>2
  <2> HIDE DEF r
  <2>11. [L EXCEPT ![g] = <<>>, ![h] = r] = [L EXCEPT ![h] = L[g], ![g] = <<>>]
    BY <1>1, <2>10
  <2> QED BY <2>7, <2>9, <2>11
<1> QED BY <1>3, <1>4

-----------------------------------------------------------------------------
(* The lists are sequences: the memory always holds those the heads stand  *)
(* for.                                                                    *)

ListsInv == Holds(mem, Lists, {})

(* The walks find the lists that the memory holds. *)
LEMMA TheLists ==
    ASSUME NEW m, NEW L, Holds(m, L, {})
    PROVE  [h \in ListHeads |-> ListOf(m, h)] = L
<1>1. m \in Memory /\ L \in [ListHeads -> Seq(Entries)] /\ \A h \in ListHeads : Single(L[h]) /\ Ring(m, h, L[h])
  BY DEF Holds
<1>2. \A h \in ListHeads : ListOf(m, h) = L[h]
  BY <1>1, WalkFindsList
<1> QED BY <1>1, <1>2

(* At the start all lists are empty. *)
LEMMA ListsStart == ListInit => ListsInv /\ AsSequences!ListsInit
<1> SUFFICES ASSUME ListInit PROVE ListsInv /\ AsSequences!ListsInit
  OBVIOUS
<1> DEFINE L == [h \in ListHeads |-> <<>>]
<1>1. mem \in Memory /\ \A x \in Nodes : mem.next[x] = x /\ mem.prev[x] = x
  BY DEF ListInit, Memory, Refs
<1>2. L \in [ListHeads -> Seq(Entries)] /\ \A h \in ListHeads : L[h] = <<>>
  OBVIOUS
<1> HIDE DEF L
<1>3. Single(<<>>) /\ \A x : ~Within(<<>>, x)
  BY DEF Single, Within
<1>4. \A h \in ListHeads : Ring(mem, h, <<>>)
  BY <1>1, NodesApart DEF Ring, Pos
<1>5. \A x \in Entries : IdleAt(mem, x)
  BY <1>1, NodesApart DEF IdleAt
<1>6. Holds(mem, L, {})
  BY <1>1, <1>2, <1>3, <1>4, <1>5 DEF Holds
<1>7. Lists = L
  BY <1>6, TheLists DEF Lists
<1>8. AsSequences!ListsInit
  BY <1>7 DEF AsSequences!ListsInit, ListInit, L
<1> QED BY <1>6, <1>7, <1>8 DEF ListsInv

(* An entry is in a list exactly if the code takes it to be linked. *)
LEMMA LinkedIs ==
    ASSUME ListsInv, NEW e \in Entries
    PROVE  /\ Linked(e) <=> In(Lists, e)
           /\ AsSequences!Free(e) <=> ~In(Lists, e)
           /\ AsSequences!Without(e) = WithoutOf(Lists, e)
<1>1. Linked(e) <=> In(Lists, e)
  BY EntryFacts DEF ListsInv, Linked
<1>2. AsSequences!Free(e) <=> ~In(Lists, e)
  <2>1. \A h \in ListHeads : Lists[h] \in Seq(Entries)
    BY DEF ListsInv, Holds
  <2>2. \A h \in ListHeads : DOMAIN Lists[h] = 1..Len(Lists[h])
    BY <2>1
  <2>3. ASSUME NEW h \in ListHeads PROVE e \in AsSequences!Contents(h) <=> Within(Lists[h], e)
    BY <2>2 DEF AsSequences!Contents, Within
  <2> QED BY <2>3 DEF AsSequences!Free, In
<1>3. AsSequences!Without(e) = WithoutOf(Lists, e)
  BY DEF AsSequences!Without, WithoutOf, AsSequences!Sublist, Sublist
<1> QED BY <1>1, <1>2, <1>3

(* The lists after a step, once the memory is known to hold them. *)
LEMMA NextLists ==
    ASSUME NEW L, Holds(mem', L, {})
    PROVE  Lists' = L /\ ListsInv'
<1>1. Lists' = [h \in ListHeads |-> ListOf(mem', h)]
  BY DEF Lists
<1> DEFINE m == mem'
<1>2. Holds(m, L, {})
  OBVIOUS
<1> HIDE DEF m
<1>3. [h \in ListHeads |-> ListOf(m, h)] = L
  BY <1>2, TheLists
<1>4. Lists' = L
  BY <1>1, <1>3 DEF m
<1> QED BY <1>4 DEF ListsInv

(* Every step keeps a memory that holds lists, and does to them what       *)
(* ListSeqs says.                                                          *)
LEMMA ListsStep ==
    ListsInv /\ [ListNext]_pointerVars => ListsInv' /\ [AsSequences!ListsNext]_(AsSequences!listsVars)
<1> SUFFICES ASSUME ListsInv, [ListNext]_pointerVars
             PROVE  ListsInv' /\ [AsSequences!ListsNext]_(AsSequences!listsVars)
  OBVIOUS
<1> USE DEF AsSequences!ListsNext
<1>0. Holds(mem, Lists, {}) /\ Lists \in [ListHeads -> Seq(Entries)]
  BY DEF ListsInv, Holds
<1>1. ASSUME NEW e \in Entries, DelCalls(e) PROVE ListsInv' /\ AsSequences!ListsNext
  <2>1. Holds(mem', WithoutOf(Lists, e), {})
    BY <1>0, <1>1, LinkedIs, DeleteHolds DEF DelCalls
  <2>2. Lists' = WithoutOf(Lists, e) /\ ListsInv'
    BY <2>1, NextLists
  <2>3. AsSequences!Delete(e)
    BY <1>1, <2>2, LinkedIs DEF DelCalls, AsSequences!Delete
  <2> QED BY <2>2, <2>3
<1>2. ASSUME NEW e \in Entries, NEW h \in ListHeads, AddCalls(e, h) PROVE ListsInv' /\ AsSequences!ListsNext
  <2>1. ~In(Lists, e) /\ AsSequences!Free(e) /\ Holds(mem, Lists, {e})
    BY <1>0, <1>2, LinkedIs, HoldsFacts DEF AddCalls
  <2>2. CASE call' = <<"add", e, h>> /\ mem' = ListAdd(mem, e, h)
    <3>1. Lists' = [Lists EXCEPT ![h] = <<e>> \o @] /\ ListsInv'
      BY <2>1, <2>2, AddHolds, NextLists
    <3>2. AsSequences!Add(e, h)
      BY <2>1, <2>2, <3>1 DEF AsSequences!Add
    <3> QED BY <3>1, <3>2
  <2>3. CASE call' = <<"add_tail", e, h>> /\ mem' = ListAddTail(mem, e, h)
    <3>1. Lists' = [Lists EXCEPT ![h] = Append(@, e)] /\ ListsInv'
      BY <2>1, <2>3, AddHolds, NextLists
    <3>2. AsSequences!Add(e, h)
      BY <2>1, <2>3, <3>1 DEF AsSequences!Add
    <3> QED BY <3>1, <3>2
  <2> QED BY <1>2, <2>2, <2>3 DEF AddCalls
<1>3. ASSUME NEW e \in Entries, NEW h \in ListHeads, MoveCalls(e, h) PROVE ListsInv' /\ AsSequences!ListsNext
  <2> DEFINE K == WithoutOf(Lists, e)
             m == DelEntry(mem, e)
  <2>1. In(Lists, e) /\ ~AsSequences!Free(e) /\ AsSequences!Without(e) = K
    BY <1>3, LinkedIs DEF MoveCalls
  <2>2. Holds(m, K, {e}) /\ ~In(K, e)
    BY <1>0, <2>1, UnlinkHolds
  <2> HIDE DEF K, m
  <2>3. CASE call' = <<"move", e, h>> /\ mem' = ListAdd(m, e, h)
    <3>1. Lists' = [K EXCEPT ![h] = <<e>> \o @] /\ ListsInv'
      BY <2>2, <2>3, AddHolds, NextLists
    <3>2. AsSequences!Move(e, h)
      BY <2>1, <2>3, <3>1 DEF AsSequences!Move
    <3> QED BY <3>1, <3>2
  <2>4. CASE call' = <<"move_tail", e, h>> /\ mem' = ListAddTail(m, e, h)
    <3>1. Lists' = [K EXCEPT ![h] = Append(@, e)] /\ ListsInv'
      BY <2>2, <2>4, AddHolds, NextLists
    <3>2. AsSequences!Move(e, h)
      BY <2>1, <2>4, <3>1 DEF AsSequences!Move
    <3> QED BY <3>1, <3>2
  <2> QED BY <1>3, <2>3, <2>4 DEF MoveCalls, m
<1>4. ASSUME NEW old \in Nodes, NEW new \in Nodes, ReplaceCalls(old, new) PROVE ListsInv' /\ AsSequences!ListsNext
  <2>1. CASE old \in Entries /\ Linked(old) /\ new \in Entries /\ ~Linked(new)
    <3> DEFINE K == [h \in ListHeads |->
                        [i \in DOMAIN Lists[h] |-> IF Lists[h][i] = old THEN new ELSE Lists[h][i]]]
    <3>1. In(Lists, old) /\ ~In(Lists, new) /\ ~AsSequences!Free(old) /\ AsSequences!Free(new)
      BY <2>1, LinkedIs
    <3>2. Holds(mem', K, {})
      BY <1>0, <1>4, <2>1, <3>1, ReplaceEntryHolds DEF ReplaceCalls
    <3>3. Lists' = K /\ ListsInv'
      <4> HIDE DEF K
      <4> QED BY <3>2, NextLists
    <3>4. AsSequences!Replace(old, new)
      BY <1>4, <3>1, <3>3 DEF AsSequences!Replace, ReplaceCalls
    <3> QED BY <2>1, <3>3, <3>4
  <2>2. CASE old \in ListHeads /\ new \in ListHeads \ {old} /\ ListEmpty(mem, new)
    <3>1. Lists[new] = <<>>
      BY <1>0, <2>2, HeadFacts
    <3>2. Holds(mem', [Lists EXCEPT ![new] = Lists[old], ![old] = <<>>], {})
      BY <1>0, <1>4, <2>2, <3>1, ReplaceHeadHolds DEF ReplaceCalls
    <3>3. Lists' = [Lists EXCEPT ![new] = Lists[old], ![old] = <<>>] /\ ListsInv'
      BY <3>2, NextLists
    <3>4. AsSequences!ReplaceHead(old, new)
      BY <1>4, <3>1, <3>3 DEF AsSequences!ReplaceHead, ReplaceCalls
    <3> QED BY <2>2, <3>3, <3>4
  <2> QED BY <1>4, <2>1, <2>2 DEF ReplaceCalls
<1>5. ASSUME NEW g \in ListHeads, NEW h \in ListHeads, SpliceCalls(g, h) PROVE ListsInv' /\ AsSequences!ListsNext
  <2>1. g # h
    BY <1>5 DEF SpliceCalls
  <2>2. CASE call' = <<"splice", g, h>> /\ mem' = ListSpliceInit(mem, g, h)
    <3>1. Lists' = [Lists EXCEPT ![h] = Lists[g] \o @, ![g] = <<>>] /\ ListsInv'
      BY <1>0, <2>1, <2>2, SpliceHolds, NextLists
    <3>2. AsSequences!Splice(g, h)
      BY <2>2, <3>1 DEF AsSequences!Splice
    <3> QED BY <2>1, <3>1, <3>2
  <2>3. CASE call' = <<"splice_tail", g, h>> /\ mem' = ListSpliceTailInit(mem, g, h)
    <3>1. Lists' = [Lists EXCEPT ![h] = @ \o Lists[g], ![g] = <<>>] /\ ListsInv'
      BY <1>0, <2>1, <2>3, SpliceHolds, NextLists
    <3>2. AsSequences!Splice(g, h)
      BY <2>3, <3>1 DEF AsSequences!Splice
    <3> QED BY <2>1, <3>1, <3>2
  <2> QED BY <1>5, <2>2, <2>3 DEF SpliceCalls
<1>6. ASSUME NEW g \in ListHeads, NEW h \in ListHeads, CutCalls(g, h) PROVE ListsInv' /\ AsSequences!ListsNext
  <2>1. g # h /\ Lists[h] = <<>> /\ Lists[g] = ListOf(mem, g)
    BY <1>0, <1>6, HeadFacts DEF CutCalls, Lists
  <2>2. PICK n \in 0..Len(Lists[g]) :
            /\ call' = <<"cut", g, n, h>>
            /\ mem' = ListCutPosition(mem, h, g, IF n = 0 THEN g ELSE Lists[g][n])
    BY <1>6, <2>1 DEF CutCalls
  <2>3. Holds(mem', [Lists EXCEPT ![h] = SubSeq(Lists[g], 1, n), ![g] = SubSeq(@, n + 1, Len(@))], {})
    BY <1>0, <2>1, <2>2, CutHolds
  <2>4. Lists' = [Lists EXCEPT ![h] = SubSeq(Lists[g], 1, n), ![g] = SubSeq(@, n + 1, Len(@))] /\ ListsInv'
    BY <2>3, NextLists
  <2>5. AsSequences!Cut(g, n, h)
    BY <2>1, <2>2, <2>4 DEF AsSequences!Cut
  <2> QED BY <2>1, <2>4, <2>5
<1>7. ASSUME NEW h \in ListHeads, RotateCall(h) PROVE ListsInv' /\ AsSequences!ListsNext
  <2> DEFINE K == IF Lists[h] = <<>> THEN Lists ELSE [Lists EXCEPT ![h] = Append(Tail(@), Head(@))]
  <2>1. Holds(mem', K, {})
    BY <1>0, <1>7, RotateHolds DEF RotateCall
  <2>2. Lists' = K /\ ListsInv'
    <3> HIDE DEF K
    <3> QED BY <2>1, NextLists
  <2>3. AsSequences!RotateLeft(h)
    BY <1>7, <2>2 DEF AsSequences!RotateLeft, RotateCall
  <2> QED BY <2>2, <2>3
<1>8. CASE UNCHANGED pointerVars
  <2>1. Lists' = Lists /\ call' = call
    BY <1>8 DEF pointerVars, Lists
  <2> QED BY <1>8, <2>1 DEF ListsInv, pointerVars, AsSequences!listsVars
<1> QED BY <1>1, <1>2, <1>3, <1>4, <1>5, <1>6, <1>7, <1>8 DEF ListNext

(* Pointer by pointer, the list operations are those on sequences that     *)
(* their callers take them for, with every aliasing of the pointers: on    *)
(* empty lists, on lists of one entry and on neighbours, for any number of *)
(* heads and entries.  list_for_each meets exactly the list, and an entry  *)
(* is taken to be linked exactly if it is in one.                          *)
THEOREM ListsAreSequences == ListSpec => ImplementsLists
<1>1. ListSpec => []ListsInv
  BY ListsStart, ListsStep, PTL DEF ListSpec
<1> QED BY <1>1, ListsStart, ListsStep, PTL DEF ListSpec, ImplementsLists, AsSequences!ListsSpec
=============================================================================

---------------------------- MODULE DeviceProofs ----------------------------
(***************************************************************************)
(* Proofs about six components that share nothing: the camera and its      *)
(* capture callback (CameraDriver), the telnet server within its           *)
(* descriptors (CliServer), the codecs of the Raspberry Pi (JpegCodec),    *)
(* the start of the program (Startup), the camera's controls               *)
(* (CameraControls) and the sensor's two threads (SensorData).  They share *)
(* lemmas on lists.                                                        *)
(***************************************************************************)
EXTENDS CameraDriver, CliServer, JpegCodec, Startup, CameraControls, SensorData,
        FiniteSetTheorems, SequenceTheorems, TLAPS

-----------------------------------------------------------------------------
(* CameraDriver, for every number of buffers asked for, every buffer size  *)
(* and any number of failing ioctls.  With fewer buffers granted than asked*)
(* for the program has no defined behaviour, and nothing is claimed.       *)

NoRepeat(s) == \A i, j \in DOMAIN s : s[i] = s[j] => i = j

(* Buffers are mapped from the first on, all of them once the camera is    *)
(* open.                                                                   *)
MappedInTurn ==
    \E n \in 0..BufferCount :
        /\ lens \in [0..n - 1 -> BufferSizes]
        /\ camPhase \in {"closed", "mapping"} => n < BufferCount
        /\ camPhase \in {"open", "running", "crashed"} => n = BufferCount

HeadHoldsAny == \A b \in DOMAIN lens : lens[b] <= headSize

(* A buffer is in one place at a time, also while the stream is off.       *)
OnePlace ==
    /\ NoRepeat(done)
    /\ queued \intersect Elements(done) = {}
    /\ lost \intersect (queued \union Elements(done)) = {}
    /\ held \notin queued \union Elements(done) \union lost
    /\ held # NoBuffer <=> capturing \in {"dequeued", "copied"}

AllThere ==
    streaming => queued \union Elements(done) \union lost \union ({held} \ {NoBuffer}) = Buffers

(* The frame of the buffer last dequeued is in it, then in cam->head, then *)
(* with the listeners.                                                     *)
FrameKept ==
    /\ capturing # "no" => camPhase = "running"
    /\ capturing = "dequeued" => content[held] = newest
    /\ capturing # "dequeued" => headFrame = newest
    /\ capturing = "no" => seen = newest

CameraInv ==
    /\ CameraTypeOK /\ MappedInTurn /\ HeadHoldsAny
    /\ OnePlace /\ AllThere /\ FrameKept

-----------------------------------------------------------------------------
(* What taking the first of a list leaves. *)
LEMMA TailFacts ==
    ASSUME NEW S, NEW s \in Seq(S), s # <<>>, NoRepeat(s)
    PROVE  /\ Head(s) \in S /\ Tail(s) \in Seq(S)
           /\ NoRepeat(Tail(s))
           /\ Elements(s) = Elements(Tail(s)) \union {Head(s)}
           /\ Head(s) \notin Elements(Tail(s))
<1>1. PICK n \in Nat : n = Len(s) /\ DOMAIN s = 1..n /\ n > 0
  OBVIOUS
<1>2. /\ Head(s) \in S /\ Tail(s) \in Seq(S) /\ Head(s) = s[1]
      /\ DOMAIN Tail(s) = 1..n - 1
      /\ \A i \in 1..n - 1 : Tail(s)[i] = s[i + 1]
  BY <1>1
<1>3. NoRepeat(Tail(s))
  <2>1. ASSUME NEW i \in 1..n - 1, NEW j \in 1..n - 1, Tail(s)[i] = Tail(s)[j]
        PROVE  i = j
    <3>1. s[i + 1] = s[j + 1] /\ i + 1 \in 1..n /\ j + 1 \in 1..n
      BY <1>1, <1>2, <2>1
    <3>2. i + 1 = j + 1
      BY <1>1, <3>1 DEF NoRepeat
    <3> QED BY <3>2
  <2> QED BY <1>2, <2>1 DEF NoRepeat
<1>4. ASSUME NEW i \in 1..n
      PROVE  s[i] \in Elements(Tail(s)) \union {Head(s)}
  <2>1. CASE i = 1
    BY <1>2, <2>1
  <2>2. CASE i # 1
    <3>1. i - 1 \in 1..n - 1 /\ Tail(s)[i - 1] = s[i]
      BY <1>1, <1>2, <2>2
    <3> QED BY <1>2, <3>1 DEF Elements
  <2> QED BY <2>1, <2>2
<1>5. ASSUME NEW i \in 1..n - 1
      PROVE  Tail(s)[i] \in Elements(s) /\ Tail(s)[i] # Head(s)
  <2>1. Tail(s)[i] = s[i + 1] /\ i + 1 \in DOMAIN s /\ 1 \in DOMAIN s /\ i + 1 # 1
    BY <1>1, <1>2
  <2> QED BY <1>2, <2>1 DEF Elements, NoRepeat
<1>6. Head(s) \in Elements(s)
  BY <1>1, <1>2 DEF Elements
<1> QED BY <1>1, <1>2, <1>3, <1>4, <1>5, <1>6 DEF Elements

(* What a list becomes by one more at its end. *)
LEMMA AppendFacts ==
    ASSUME NEW S, NEW s \in Seq(S), NEW b \in S, b \notin Elements(s), NoRepeat(s)
    PROVE  /\ Append(s, b) \in Seq(S)
           /\ NoRepeat(Append(s, b))
           /\ Elements(Append(s, b)) = Elements(s) \union {b}
<1>1. PICK n \in Nat : n = Len(s) /\ DOMAIN s = 1..n
  OBVIOUS
<1>2. /\ Append(s, b) \in Seq(S)
      /\ DOMAIN Append(s, b) = 1..n + 1
      /\ \A i \in 1..n : Append(s, b)[i] = s[i]
      /\ Append(s, b)[n + 1] = b
  BY <1>1, AppendProperties
<1>3. ASSUME NEW i \in 1..n + 1, NEW j \in 1..n + 1, Append(s, b)[i] = Append(s, b)[j]
      PROVE  i = j
  <2>1. CASE i \in 1..n /\ j \in 1..n
    BY <1>1, <1>2, <1>3, <2>1 DEF NoRepeat
  <2>2. CASE i = n + 1 /\ j \in 1..n
    BY <1>1, <1>2, <1>3, <2>2 DEF Elements
  <2>3. CASE i \in 1..n /\ j = n + 1
    BY <1>1, <1>2, <1>3, <2>3 DEF Elements
  <2> QED BY <1>1, <2>1, <2>2, <2>3
<1>4. ASSUME NEW x
      PROVE  x \in Elements(Append(s, b)) <=> x \in Elements(s) \union {b}
  <2>1. ASSUME x \in Elements(Append(s, b))
        PROVE  x \in Elements(s) \union {b}
    <3>1. PICK i \in 1..n + 1 : x = Append(s, b)[i]
      BY <1>2, <2>1 DEF Elements
    <3>2. CASE i \in 1..n
      BY <1>1, <1>2, <3>1, <3>2 DEF Elements
    <3>3. CASE i = n + 1
      BY <1>2, <3>1, <3>3
    <3> QED BY <1>1, <3>2, <3>3
  <2>2. ASSUME x \in Elements(s)
        PROVE  x \in Elements(Append(s, b))
    <3>1. PICK i \in 1..n : x = s[i]
      BY <1>1, <2>2 DEF Elements
    <3>2. i \in 1..n + 1 /\ x = Append(s, b)[i]
      BY <1>1, <1>2, <3>1
    <3> QED BY <1>2, <3>2 DEF Elements
  <2>3. b \in Elements(Append(s, b))
    <3>1. n + 1 \in 1..n + 1
      BY <1>1
    <3> QED BY <1>2, <3>1 DEF Elements
  <2> QED BY <2>1, <2>2, <2>3
<1> QED BY <1>2, <1>3, <1>4 DEF NoRepeat

(* A list without repetitions is as long as it has elements. *)
LEMMA LengthOfNoRepeat ==
    ASSUME NEW S, NEW s \in Seq(S), NoRepeat(s)
    PROVE  IsFiniteSet(Elements(s)) /\ Cardinality(Elements(s)) = Len(s)
<1>1. PICK n \in Nat : n = Len(s) /\ DOMAIN s = 1..n
  OBVIOUS
<1>2. s \in Bijection(1..n, Elements(s))
  <2>1. s \in [1..n -> Elements(s)]
    BY <1>1 DEF Elements
  <2>2. \A i, j \in 1..n : s[i] = s[j] => i = j
    BY <1>1 DEF NoRepeat
  <2>3. \A x \in Elements(s) : \E i \in 1..n : s[i] = x
    BY <1>1 DEF Elements
  <2> QED BY <2>1, <2>2, <2>3 DEF Bijection, Injection, Surjection, IsInjective
<1>3. ExistsBijection(1..n, Elements(s))
  BY <1>2 DEF ExistsBijection
<1>4. IsFiniteSet(1..n) /\ Cardinality(1..n) = n
  <2>1. IsFiniteSet(1..n) /\ Cardinality(1..n) = IF 1 > n THEN 0 ELSE n - 1 + 1
    BY FS_Interval
  <2> QED BY <2>1
<1> QED BY <1>1, <1>3, <1>4, FS_Bijection

-----------------------------------------------------------------------------
LEMMA CameraInitially == CameraInit => CameraInv
<1> SUFFICES ASSUME CameraInit PROVE CameraInv
  OBVIOUS
<1> USE CameraAssumption DEF CameraInit, V4l2Init
<1>1. DOMAIN lens = {} /\ lens = [b \in 0..0 - 1 |-> 0] /\ 0 \in 0..BufferCount
  OBVIOUS
<1>2. CameraTypeOK
  <2>1. lens \in [0..0 - 1 -> BufferSizes]
    BY <1>1
  <2>2. \E n \in 0..BufferCount : lens \in [0..n - 1 -> BufferSizes]
    BY <1>1, <2>1
  <2>3. /\ done \in Seq(Buffers) /\ content \in [Buffers -> Frames \union {NoFrame}]
        /\ queued \subseteq Buffers /\ lost \subseteq Buffers
    BY DEF NoFrame
  <2>4. /\ nextFrame \in Frames /\ {headFrame, newest, seen} \subseteq Frames \union {NoFrame}
        /\ held \in Buffers \union {NoBuffer}
        /\ headSize \in Nat /\ faults \in 0..MaxFaults
    BY DEF Frames, NoFrame
  <2> QED BY <2>2, <2>3, <2>4 DEF CameraTypeOK
<1>3. MappedInTurn
  <2>1. lens \in [0..0 - 1 -> BufferSizes]
    BY <1>1
  <2> QED BY <1>1, <2>1 DEF MappedInTurn
<1>4. HeadHoldsAny
  BY <1>1 DEF HeadHoldsAny
<1>5. OnePlace /\ AllThere /\ FrameKept
  BY DEF OnePlace, AllThere, FrameKept, NoRepeat, Elements, NoBuffer
<1> QED BY <1>2, <1>3, <1>4, <1>5 DEF CameraInv

(* Opening: the kernel has nothing yet, and the buffers are mapped.        *)
LEMMA OpenKeeps == CameraInv /\ OpenCamera => CameraInv'
<1> SUFFICES ASSUME CameraInv, OpenCamera PROVE CameraInv'
  OBVIOUS
<1> USE CameraAssumption DEF OpenCamera, openVars, driverVars, deviceVars
<1>1. UNCHANGED <<queued, done, content, streaming, nextFrame, held, headFrame, lost,
                  newest, faults, capturing, watched, timer, seen>>
  BY DEF RequestBuffers, MapBuffer, OpenFails
<1>2. OnePlace' /\ AllThere'
  BY <1>1 DEF CameraInv, OnePlace, AllThere, NoRepeat, Elements
<1>3. FrameKept'
  <2>1. camPhase # "running"
    BY DEF RequestBuffers, MapBuffer, OpenFails
  <2> QED BY <1>1, <2>1 DEF CameraInv, FrameKept
<1>4. MappedInTurn' /\ HeadHoldsAny' /\ headSize' \in Nat
      /\ camPhase' \in {"mapping", "open", "exited", "overrun"}
  <2>1. CASE RequestBuffers
    BY <2>1 DEF RequestBuffers, CameraInv, CameraTypeOK, MappedInTurn, HeadHoldsAny
  <2>2. CASE MapBuffer
    <3>1. PICK n \in 0..BufferCount : lens \in [0..n - 1 -> BufferSizes] /\ n < BufferCount
      BY <2>2 DEF MapBuffer, CameraInv, MappedInTurn
    <3>2. Cardinality(DOMAIN lens) = n
      <4>1. Cardinality(0..n - 1) = IF 0 > n - 1 THEN 0 ELSE n - 1 - 0 + 1
        BY FS_Interval
      <4> QED BY <3>1, <4>1
    <3>3. PICK size \in BufferSizes :
            /\ lens' = [b \in 0..n |-> IF b = n THEN size ELSE lens[b]]
            /\ headSize' = IF size > headSize THEN size ELSE headSize
      BY <2>2, <3>2 DEF MapBuffer
    <3>4. camPhase' = IF n + 1 = BufferCount THEN "open" ELSE "mapping"
      BY <2>2, <3>2 DEF MapBuffer
    <3>5. lens' \in [0..n + 1 - 1 -> BufferSizes] /\ n + 1 \in 0..BufferCount
      BY <3>1, <3>3
    <3>6. MappedInTurn'
      BY <3>4, <3>5 DEF MappedInTurn
    <3>7. HeadHoldsAny' /\ headSize' \in Nat
      <4>1. headSize' \in Nat /\ size <= headSize' /\ headSize <= headSize'
        BY <3>3 DEF CameraInv, CameraTypeOK
      <4>2. DOMAIN lens' = 0..n /\ DOMAIN lens = 0..n - 1
        BY <3>1, <3>3
      <4>3. ASSUME NEW b \in 0..n
            PROVE  lens'[b] <= headSize'
        <5>1. CASE b = n
          BY <3>3, <4>1, <5>1
        <5>2. CASE b # n
          <6>1. b \in 0..n - 1 /\ lens'[b] = lens[b]
            BY <3>3, <5>2
          <6>2. lens[b] \in Nat /\ headSize \in Nat /\ lens[b] <= headSize
            BY <3>1, <4>2, <6>1 DEF CameraInv, HeadHoldsAny, CameraTypeOK
          <6> QED BY <4>1, <6>1, <6>2
        <5> QED BY <5>1, <5>2
      <4> QED BY <4>1, <4>2, <4>3 DEF HeadHoldsAny
    <3> QED BY <3>4, <3>6, <3>7 DEF CameraInv, CameraTypeOK
  <2>3. CASE OpenFails
    <3>1. lens' \in [0..0 - 1 -> BufferSizes] /\ DOMAIN lens' = {} /\ 0 \in 0..BufferCount
      BY <2>3 DEF OpenFails
    <3> QED BY <2>3, <3>1 DEF OpenFails, MappedInTurn, HeadHoldsAny
  <2> QED BY <2>1, <2>2, <2>3
<1>5. CameraTypeOK'
  BY <1>1, <1>4 DEF CameraInv, CameraTypeOK, MappedInTurn
<1> QED BY <1>2, <1>3, <1>4, <1>5 DEF CameraInv

(* Starting queues buffers the driver does not have, and stopping takes    *)
(* all of them from it.                                                    *)
LEMMA StartStopKeeps == CameraInv /\ (StartCamera \/ StopCamera) => CameraInv'
<1> SUFFICES ASSUME CameraInv, StartCamera \/ StopCamera PROVE CameraInv'
  OBVIOUS
<1> USE CameraAssumption DEF openVars
<1>1. /\ capturing = "no" /\ camPhase \in {"open", "running"} /\ camPhase' = "running"
      /\ UNCHANGED <<lens, headSize, content, nextFrame, held, headFrame, newest,
                     capturing, timer, seen>>
      /\ watched' \in BOOLEAN
  BY DEF StartCamera, StopCamera
<1>2. held = NoBuffer
  BY <1>1 DEF CameraInv, OnePlace
<1>3. MappedInTurn' /\ HeadHoldsAny' /\ FrameKept'
  BY <1>1 DEF CameraInv, MappedInTurn, HeadHoldsAny, FrameKept
<1> DEFINE Kept ==
        /\ queued' \in SUBSET Buffers /\ done' \in Seq(Buffers) /\ lost' \in SUBSET Buffers
        /\ streaming' \in BOOLEAN /\ faults' \in 0..MaxFaults
        /\ OnePlace' /\ AllThere'
<1>4. Kept
  <2>1. CASE UNCHANGED <<queued, done, lost, streaming>> /\ faults' \in 0..MaxFaults
    BY <1>1, <2>1 DEF CameraInv, CameraTypeOK, OnePlace, AllThere, NoRepeat, Elements
  <2>2. CASE /\ StartCamera /\ queued = {} /\ done = <<>> /\ queued' = Buffers
             /\ done' = done /\ lost' = {} /\ streaming' = TRUE /\ faults' = faults
    <3>1. Elements(done') = {} /\ NoRepeat(done')
      BY <2>2 DEF Elements, NoRepeat
    <3>2. NoBuffer \notin Buffers
      BY DEF Buffers, NoBuffer
    <3>3. OnePlace' /\ AllThere'
      BY <1>1, <1>2, <2>2, <3>1, <3>2 DEF CameraInv, OnePlace, AllThere
    <3>4. faults' \in 0..MaxFaults /\ done' \in Seq(Buffers)
      BY <2>2 DEF CameraInv, CameraTypeOK
    <3> QED BY <2>2, <3>3, <3>4
  <2>3. CASE /\ StopCamera /\ queued' = {} /\ done' = <<>> /\ streaming' = FALSE
             /\ lost' = lost /\ faults' = faults
    <3>1. Elements(done') = {} /\ NoRepeat(done') /\ done' \in Seq(Buffers)
      BY <2>3 DEF Elements, NoRepeat
    <3> QED BY <1>1, <1>2, <2>3, <3>1 DEF CameraInv, CameraTypeOK, OnePlace, AllThere
  <2>4. CASE StartCamera
    <3>1. CASE /\ queued \union Elements(done) = {} /\ queued' = Buffers /\ streaming' = TRUE
               /\ lost' = {} /\ UNCHANGED <<done, faults>>
      <4>1. queued = {} /\ done = <<>>
        <5>1. done \in Seq(Buffers) /\ DOMAIN done = {}
          <6>1. done \in Seq(Buffers)
            BY DEF CameraInv, CameraTypeOK
          <6>2. \A i \in DOMAIN done : FALSE
            BY <3>1 DEF Elements
          <6> QED BY <6>1, <6>2
        <5>2. DOMAIN done = 1..Len(done) /\ Len(done) \in Nat
          BY <5>1
        <5>3. Len(done) = 0
          <6>1. 1 \notin 1..Len(done)
            BY <5>1, <5>2
          <6> QED BY <5>2, <6>1
        <5> QED BY <3>1, <5>1, <5>3
      <4> QED BY <2>2, <2>4, <3>1, <4>1
    <3>2. ASSUME NEW n \in 0..BufferCount,
                 (0..n - 1) \intersect (queued \union Elements(done)) = {},
                 (n \in queued \union Elements(done) /\ UNCHANGED faults) \/ Fault,
                 queued' = queued \union (0..n - 1), lost' = lost \ (0..n - 1),
                 UNCHANGED <<done, streaming>>
          PROVE  Kept
      <4>1. 0..n - 1 \subseteq Buffers
        BY DEF Buffers
      <4>2. faults' \in 0..MaxFaults
        BY <3>2 DEF Fault, CameraInv, CameraTypeOK
      <4>3. Elements(done') = Elements(done) /\ (NoRepeat(done') <=> NoRepeat(done))
        BY <3>2
      <4>4. OnePlace' /\ AllThere'
        <5> DEFINE before == 0..n - 1
                   filled == Elements(done)
        <5>1. /\ before \intersect (queued \union filled) = {} /\ before \subseteq Buffers
              /\ queued' = queued \union before /\ lost' = lost \ before
          BY <3>2, <4>1
        <5>2. NoBuffer \notin before
          BY DEF NoBuffer
        <5> HIDE DEF before
        <5> QED BY <1>1, <1>2, <3>2, <4>3, <5>1, <5>2 DEF CameraInv, OnePlace, AllThere
      <4> QED BY <3>2, <4>1, <4>2, <4>4 DEF CameraInv, CameraTypeOK
    <3>3. \/ /\ queued \union Elements(done) = {} /\ queued' = Buffers /\ streaming' = TRUE
             /\ lost' = {} /\ UNCHANGED <<done, faults>>
          \/ \E n \in 0..BufferCount :
                /\ (0..n - 1) \intersect (queued \union Elements(done)) = {}
                /\ (n \in queued \union Elements(done) /\ UNCHANGED faults) \/ Fault
                /\ queued' = queued \union (0..n - 1) /\ lost' = lost \ (0..n - 1)
                /\ UNCHANGED <<done, streaming>>
      BY <2>4 DEF StartCamera, StartStream
    <3> QED BY <3>1, <3>2, <3>3
  <2>5. CASE StopCamera
    <3>1. CASE queued' = {} /\ done' = <<>> /\ streaming' = FALSE /\ UNCHANGED faults
      BY <2>3, <2>5, <3>1 DEF StopCamera
    <3>2. CASE Fault /\ UNCHANGED <<queued, done, streaming>>
      <4>1. faults' \in 0..MaxFaults
        BY <3>2 DEF Fault, CameraInv, CameraTypeOK
      <4> QED BY <2>1, <2>5, <3>2, <4>1 DEF StopCamera
    <3> QED BY <2>5, <3>1, <3>2 DEF StopCamera, StopStream
  <2> QED BY <2>4, <2>5
<1>5. CameraTypeOK'
  BY <1>1, <1>4 DEF CameraInv, CameraTypeOK
<1> QED BY <1>3, <1>4, <1>5 DEF CameraInv

(* The oldest filled buffer is dequeued, or nothing is.                    *)
LEMMA BeginKeeps == CameraInv /\ BeginCapture => CameraInv'
<1> SUFFICES ASSUME CameraInv, BeginCapture PROVE CameraInv'
  OBVIOUS
<1> USE CameraAssumption DEF openVars, deviceVars
<1>1. /\ capturing = "no" /\ camPhase = "running"
      /\ UNCHANGED <<camPhase, lens, headSize, queued, content, streaming, nextFrame,
                     headFrame, lost, watched, timer, seen>>
  BY DEF BeginCapture, Dequeue, DequeueFails
<1>2. held = NoBuffer /\ headFrame = newest
  BY <1>1 DEF CameraInv, OnePlace, FrameKept
<1>3. MappedInTurn' /\ HeadHoldsAny'
  BY <1>1 DEF CameraInv, MappedInTurn, HeadHoldsAny
<1>4. CASE Dequeue /\ capturing' = "dequeued"
  <2>1. /\ Head(done) \in Buffers /\ Tail(done) \in Seq(Buffers) /\ NoRepeat(Tail(done))
        /\ Elements(done) = Elements(Tail(done)) \union {Head(done)}
        /\ Head(done) \notin Elements(Tail(done))
    BY <1>4, TailFacts DEF Dequeue, CameraInv, CameraTypeOK, OnePlace
  <2>2. /\ held' = Head(done) /\ done' = Tail(done) /\ newest' = content[Head(done)]
        /\ faults' = faults
    BY <1>4 DEF Dequeue
  <2>3. Head(done) # NoBuffer
    BY <2>1 DEF Buffers, NoBuffer
  <2>4. Elements(done') = Elements(Tail(done))
    BY <2>2
  <2>5. OnePlace'
    BY <1>1, <1>4, <2>1, <2>2, <2>3, <2>4 DEF CameraInv, OnePlace
  <2>6. AllThere'
    BY <1>1, <1>2, <2>1, <2>2, <2>3, <2>4 DEF CameraInv, AllThere
  <2>7. FrameKept'
    BY <1>1, <1>4, <2>1, <2>2 DEF FrameKept
  <2>8. CameraTypeOK'
    BY <1>1, <1>4, <2>1, <2>2 DEF CameraInv, CameraTypeOK
  <2> QED BY <1>3, <2>5, <2>6, <2>7, <2>8 DEF CameraInv
<1>5. CASE DequeueFails /\ capturing' = "deliver"
  <2>1. UNCHANGED <<done, held, newest>> /\ faults' \in 0..MaxFaults
    BY <1>5 DEF DequeueFails, Fault, CameraInv, CameraTypeOK
  <2>2. OnePlace' /\ AllThere'
    BY <1>1, <1>5, <2>1 DEF CameraInv, OnePlace, AllThere, NoRepeat, Elements
  <2>3. FrameKept' /\ CameraTypeOK'
    BY <1>1, <1>2, <1>5, <2>1 DEF CameraInv, FrameKept, CameraTypeOK
  <2> QED BY <1>3, <2>2, <2>3 DEF CameraInv
<1> QED BY <1>4, <1>5 DEF BeginCapture

(* The frame goes from the buffer to cam->head, and the buffer back to the *)
(* driver or nowhere.                                                      *)
LEMMA CopyKeeps == CameraInv /\ (CopyHead \/ RequeueBuffer) => CameraInv'
<1> SUFFICES ASSUME CameraInv, CopyHead \/ RequeueBuffer PROVE CameraInv'
  OBVIOUS
<1> USE CameraAssumption DEF openVars, deviceVars
<1>1. UNCHANGED <<camPhase, lens, headSize, done, content, streaming, nextFrame,
                  newest, watched, timer, seen>>
  BY DEF CopyHead, RequeueBuffer, Copy, Requeue
<1>2. MappedInTurn' /\ HeadHoldsAny'
  BY <1>1 DEF CameraInv, MappedInTurn, HeadHoldsAny
<1>3. held \in Buffers /\ held # NoBuffer
  BY DEF CameraInv, CameraTypeOK, OnePlace, CopyHead, RequeueBuffer
<1>4. CASE CopyHead
  <2>1. /\ capturing = "dequeued" /\ capturing' = "copied" /\ headFrame' = content[held]
        /\ UNCHANGED <<queued, held, lost, faults>>
    BY <1>4 DEF CopyHead, Copy
  <2>2. OnePlace' /\ AllThere'
    BY <1>1, <2>1 DEF CameraInv, OnePlace, AllThere, NoRepeat, Elements
  <2>3. FrameKept'
    BY <1>1, <2>1 DEF CameraInv, FrameKept
  <2>4. CameraTypeOK'
    BY <1>1, <1>3, <2>1 DEF CameraInv, CameraTypeOK
  <2> QED BY <1>2, <2>2, <2>3, <2>4 DEF CameraInv
<1>5. CASE RequeueBuffer
  <2>1. /\ capturing = "copied" /\ capturing' = "deliver" /\ held' = NoBuffer
        /\ headFrame' = headFrame
        /\ \/ queued' = queued \union {held} /\ lost' = lost
           \/ queued' = queued /\ lost' = lost \union {held}
        /\ faults' \in 0..MaxFaults
    BY <1>5 DEF RequeueBuffer, Requeue, Fault, CameraInv, CameraTypeOK
  <2>2. Elements(done') = Elements(done) /\ (NoRepeat(done') <=> NoRepeat(done))
    BY <1>1
  <2>3. NoBuffer \notin queued \union Elements(done) \union lost \union {held}
    <3>1. Elements(done) \subseteq Buffers
      BY DEF CameraInv, CameraTypeOK, Elements
    <3> QED BY <1>3, <3>1 DEF CameraInv, CameraTypeOK, Buffers, NoBuffer
  <2>4. OnePlace'
    BY <1>3, <2>1, <2>2, <2>3 DEF CameraInv, OnePlace
  <2>5. AllThere'
    BY <1>1, <1>3, <2>1, <2>2 DEF CameraInv, AllThere
  <2>6. FrameKept'
    BY <1>1, <2>1 DEF CameraInv, FrameKept
  <2>7. CameraTypeOK'
    BY <1>1, <1>3, <2>1 DEF CameraInv, CameraTypeOK
  <2> QED BY <1>2, <2>4, <2>5, <2>6, <2>7 DEF CameraInv
<1> QED BY <1>4, <1>5

(* The kernel writes a buffer it has queued, never the one being copied.   *)
LEMMA FillKeeps == CameraInv /\ KernelFills => CameraInv'
<1> SUFFICES ASSUME CameraInv, KernelFills PROVE CameraInv'
  OBVIOUS
<1> USE CameraAssumption DEF openVars, driverVars
<1>1. UNCHANGED <<camPhase, lens, headSize, streaming, held, headFrame, lost, newest,
                  faults, capturing, watched, timer, seen>>
  BY DEF KernelFills, Fill
<1>2. PICK b \in queued :
        /\ queued' = queued \ {b}
        /\ done' = Append(done, b)
        /\ content' = [content EXCEPT ![b] = nextFrame]
  BY DEF KernelFills, Fill
<1>3. b \in Buffers /\ b \notin Elements(done) /\ b # held /\ b \notin lost
  BY DEF CameraInv, CameraTypeOK, OnePlace
<1>4. /\ done' \in Seq(Buffers) /\ NoRepeat(done')
      /\ Elements(done') = Elements(done) \union {b}
  BY <1>2, <1>3, AppendFacts DEF CameraInv, CameraTypeOK, OnePlace
<1>5. MappedInTurn' /\ HeadHoldsAny'
  BY <1>1 DEF CameraInv, MappedInTurn, HeadHoldsAny
<1>6. OnePlace' /\ AllThere'
  BY <1>1, <1>2, <1>3, <1>4 DEF CameraInv, OnePlace, AllThere
<1>7. FrameKept'
  <2>1. capturing = "dequeued" => held \in Buffers /\ content'[held] = content[held]
    BY <1>2, <1>3 DEF CameraInv, CameraTypeOK, OnePlace
  <2> QED BY <1>1, <2>1 DEF CameraInv, FrameKept
<1>8. CameraTypeOK'
  <2>1. nextFrame' \in Frames
    BY DEF KernelFills, Fill, CameraInv, CameraTypeOK, Frames
  <2>2. content' \in [Buffers -> Frames \union {NoFrame}] /\ queued' \subseteq Buffers
    BY <1>2 DEF CameraInv, CameraTypeOK
  <2> QED BY <1>1, <1>4, <2>1, <2>2 DEF CameraInv, CameraTypeOK
<1> QED BY <1>5, <1>6, <1>7, <1>8 DEF CameraInv

(* The steps that leave buffers and pictures alone.                        *)
LEMMA RestKeeps ==
    CameraInv /\ (InitTimer \/ Deliver \/ StdinReadable \/ UNCHANGED cameraVars)
        => CameraInv'
<1> SUFFICES ASSUME CameraInv,
                    InitTimer \/ Deliver \/ StdinReadable \/ UNCHANGED cameraVars
             PROVE  CameraInv'
  OBVIOUS
<1> USE CameraAssumption
    DEF openVars, driverVars, deviceVars, v4l2Vars, cameraVars
<1>1. /\ UNCHANGED <<lens, headSize, queued, done, content, streaming, nextFrame, held,
                     headFrame, lost, newest, faults>>
      /\ watched' = watched
      /\ camPhase' = camPhase \/ (camPhase = "running" /\ camPhase' = "crashed" /\ capturing = "no")
      /\ \/ UNCHANGED <<capturing, seen>>
         \/ capturing = "deliver" /\ capturing' = "no" /\ seen' = headFrame
      /\ timer' \in {timer, "set", "stdin"}
  BY DEF InitTimer, Deliver, StdinReadable
<1>3. MappedInTurn' /\ HeadHoldsAny'
  BY <1>1 DEF CameraInv, MappedInTurn, HeadHoldsAny
<1>4. OnePlace' /\ AllThere'
  BY <1>1 DEF CameraInv, OnePlace, AllThere, NoRepeat, Elements
<1>5. FrameKept'
  BY <1>1 DEF CameraInv, FrameKept
<1>6. CameraTypeOK'
  BY ZenonT(60), <1>1 DEF CameraInv, CameraTypeOK
<1> QED BY <1>3, <1>4, <1>5, <1>6 DEF CameraInv

-----------------------------------------------------------------------------
(* Whatever fails, a buffer is in one place, none is forgotten while the   *)
(* stream is on, and the newest frame is on its way to the listeners       *)
(* (v4l2_camera_start, v4l2_camera_stop, v4l2_camera_capture).  It holds   *)
(* once at least as many buffers are granted as asked for; with fewer the  *)
(* heap is overrun and nothing is claimed.                                 *)
THEOREM CameraInvariant == CameraSpec => []CameraInv
<1>1. CameraInit => CameraInv
  BY CameraInitially
<1>2. CameraInv /\ [CameraNext]_cameraVars => CameraInv'
  BY OpenKeeps, StartStopKeeps, BeginKeeps, CopyKeeps, FillKeeps, RestKeeps
     DEF CameraNext, CaptureCallback
<1> QED BY <1>1, <1>2, PTL DEF CameraSpec

(* While the stream is on every buffer is queued, filled, dequeued, or     *)
(* lost to a failed VIDIOC_QBUF, and in one of these places only.          *)
THEOREM NoBufferForgotten == CameraSpec => []BuffersAccounted
<1>1. CameraInv => BuffersAccounted
  <2> SUFFICES ASSUME CameraInv, streaming
               PROVE  BuffersAccounted
    BY DEF BuffersAccounted
  <2> DEFINE filled == Elements(done)
             inHand == {held} \ {NoBuffer}
  <2>1. queued \union filled \union lost \union inHand = Buffers
    BY DEF CameraInv, AllThere
  <2>2. IsFiniteSet(Buffers) /\ Cardinality(Buffers) = BufferCount
    <3>1. IsFiniteSet(0..BufferCount - 1)
          /\ Cardinality(0..BufferCount - 1) =
                IF 0 > BufferCount - 1 THEN 0 ELSE BufferCount - 1 - 0 + 1
      BY CameraAssumption, FS_Interval
    <3> QED BY <3>1, CameraAssumption DEF Buffers
  <2>3. /\ IsFiniteSet(queued) /\ IsFiniteSet(filled) /\ IsFiniteSet(lost) /\ IsFiniteSet(inHand)
    BY <2>1, <2>2, FS_Subset
  <2>4. Cardinality(filled) = Len(done)
    BY LengthOfNoRepeat DEF CameraInv, CameraTypeOK, OnePlace
  <2>5. /\ queued \intersect filled = {}
        /\ (queued \union filled) \intersect lost = {}
        /\ (queued \union filled \union lost) \intersect inHand = {}
    BY DEF CameraInv, OnePlace
  <2> HIDE DEF filled, inHand
  <2>6. /\ Cardinality(queued) \in Nat /\ Cardinality(filled) \in Nat
        /\ Cardinality(lost) \in Nat /\ Cardinality(inHand) \in Nat
    BY <2>3, FS_CardinalityType
  <2>7. /\ Cardinality(queued \intersect filled) = 0
        /\ Cardinality((queued \union filled) \intersect lost) = 0
        /\ Cardinality((queued \union filled \union lost) \intersect inHand) = 0
    <3>1. Cardinality({}) = 0
      BY FS_EmptySet
    <3> QED BY <2>5, <3>1, Zenon
  <2>8. /\ IsFiniteSet(queued \union filled)
        /\ Cardinality(queued \union filled) = Cardinality(queued) + Cardinality(filled)
    <3>1. /\ IsFiniteSet(queued \union filled)
          /\ Cardinality(queued \union filled) =
                Cardinality(queued) + Cardinality(filled) - Cardinality(queued \intersect filled)
      BY <2>3, FS_Union
    <3> QED BY <2>6, <2>7, <3>1
  <2>9. /\ IsFiniteSet(queued \union filled \union lost)
        /\ Cardinality(queued \union filled \union lost) =
                Cardinality(queued \union filled) + Cardinality(lost)
    <3>1. /\ IsFiniteSet(queued \union filled \union lost)
          /\ Cardinality(queued \union filled \union lost) =
                Cardinality(queued \union filled) + Cardinality(lost)
                    - Cardinality((queued \union filled) \intersect lost)
      BY <2>3, <2>8, FS_Union
    <3> QED BY <2>6, <2>7, <2>8, <3>1
  <2>10. Cardinality(queued \union filled \union lost \union inHand) =
            Cardinality(queued \union filled \union lost) + Cardinality(inHand)
    <3>1. Cardinality(queued \union filled \union lost \union inHand) =
            Cardinality(queued \union filled \union lost) + Cardinality(inHand)
                - Cardinality((queued \union filled \union lost) \intersect inHand)
      BY <2>3, <2>9, FS_Union
    <3> QED BY <2>6, <2>7, <2>8, <2>9, <3>1
  <2>11. Cardinality(queued) + Len(done) + Cardinality(lost) + Cardinality(inHand) = BufferCount
    BY <2>1, <2>2, <2>4, <2>6, <2>8, <2>9, <2>10
  <2> QED BY <2>1, <2>11 DEF BuffersAccounted, filled, inHand
<1> QED BY <1>1, CameraInvariant, PTL

(* cam->head, as large as the longest buffer, has the frame of the buffer  *)
(* last dequeued, and listeners are given it before the next is dequeued,  *)
(* as long as at least as many buffers are granted as asked for.           *)
THEOREM HeadStaysNewest == CameraSpec => []HeadIsNewest
<1>1. CameraInv => HeadIsNewest
  <2> SUFFICES ASSUME CameraInv PROVE HeadIsNewest
    OBVIOUS
  <2>1. ASSUME capturing = "dequeued"
        PROVE  held \in DOMAIN lens /\ lens[held] <= headSize
    <3>1. held \in Buffers /\ camPhase = "running"
      BY <2>1 DEF CameraInv, CameraTypeOK, OnePlace, FrameKept
    <3>2. DOMAIN lens = Buffers
      BY <3>1 DEF CameraInv, MappedInTurn, Buffers
    <3> QED BY <3>1, <3>2 DEF CameraInv, HeadHoldsAny
  <2>2. /\ capturing \in {"copied", "deliver"} => headFrame = newest
        /\ capturing = "no" => seen = newest
    BY DEF CameraInv, FrameKept
  <2> QED BY <2>1, <2>2 DEF HeadIsNewest
<1> QED BY <1>1, CameraInvariant, PTL

-----------------------------------------------------------------------------
(* CliServer *)

ServerTyped ==
    /\ openFds \subseteq Descriptors /\ leaked \subseteq openFds
    /\ serverSd \in openFds \union {NoDescriptor}
    /\ backlog \in Seq(Clients) /\ conns \in Seq(Clients)
    /\ fdOf \in [Clients -> Descriptors \union {NoDescriptor}]

(* A client waits, or has one connection, once; and a descriptor has one   *)
(* owner.                                                                  *)
OneOwner ==
    /\ NoRepeat(backlog) /\ NoRepeat(conns)
    /\ Elements(backlog) \intersect Elements(conns) = {}
    /\ \A c, d \in Elements(conns) : fdOf[c] = fdOf[d] => c = d
    /\ \A c \in Elements(conns) : fdOf[c] \notin leaked \union {serverSd}
    /\ serverSd \notin leaked

OwnersOpen ==
    openFds = {fdOf[c] : c \in Elements(conns)} \union leaked \union ({serverSd} \ {NoDescriptor})

CliServerInv ==
    /\ ServerTyped /\ OneOwner /\ OwnersOpen
    /\ intfs = conns
    /\ IsFiniteSet(leaked)
    /\ ~listening => serverSd = NoDescriptor

LEMMA SameElements == ASSUME NEW s PROVE Seqs!ToSet(s) = Elements(s)
  BY DEF Seqs!ToSet, Elements

(* A list without one of its nodes. *)
LEMMA UnlistedFacts ==
    ASSUME NEW S, NEW s \in Seq(S), NEW c \in Elements(s), NoRepeat(s)
    PROVE  /\ Unlisted(s, c) \in Seq(S) /\ NoRepeat(Unlisted(s, c))
           /\ Elements(Unlisted(s, c)) = Elements(s) \ {c}
<1>1. PICK n \in Nat : n = Len(s) /\ DOMAIN s = 1..n
  OBVIOUS
<1>2. PICK k \in 1..n : s[k] = c /\ Unlisted(s, c) = Seqs!RemoveAt(s, k)
  BY <1>1 DEF Elements, Unlisted
<1> DEFINE before == SubSeq(s, 1, k - 1)
           after == SubSeq(s, k + 1, n)
           t == before \o after
<1>3. /\ before \in Seq(S) /\ Len(before) = k - 1
      /\ \A j \in 1..k - 1 : before[j] = s[j]
      /\ after \in Seq(S) /\ Len(after) = n - k
      /\ \A j \in 1..n - k : after[j] = s[k + j]
  BY <1>1
<1>4. Unlisted(s, c) = t
  BY <1>1, <1>2 DEF Seqs!RemoveAt
<1> DEFINE from(j) == IF j < k THEN j ELSE j + 1
<1>5. /\ t \in Seq(S) /\ DOMAIN t = 1..n - 1
      /\ \A j \in 1..n - 1 : t[j] = s[from(j)]
  <2> HIDE DEF before, after
  <2>0. before \in Seq(S) /\ after \in Seq(S)
    BY <1>3
  <2>a. /\ t \in Seq(S) /\ Len(t) = Len(before) + Len(after)
        /\ \A j \in 1..Len(before) + Len(after) :
                t[j] = IF j <= Len(before) THEN before[j] ELSE after[j - Len(before)]
    BY <2>0, ConcatProperties
  <2> HIDE DEF t
  <2>1. /\ t \in Seq(S) /\ Len(t) = (k - 1) + (n - k)
        /\ \A j \in 1..(k - 1) + (n - k) :
                t[j] = IF j <= k - 1 THEN before[j] ELSE after[j - (k - 1)]
    BY <1>3, <2>a
  <2>2. (k - 1) + (n - k) = n - 1 /\ n - 1 \in Nat
    BY <1>1, <1>2
  <2>3. DOMAIN t = 1..n - 1
    BY <2>1, <2>2
  <2>4. ASSUME NEW j \in 1..n - 1
        PROVE  t[j] = s[from(j)]
    <3>1. CASE j < k
      <4>1. j \in 1..k - 1
        BY <1>2, <3>1
      <4> QED BY <1>3, <2>1, <2>2, <3>1, <4>1
    <3>2. CASE ~(j < k)
      <4>1. j - (k - 1) \in 1..n - k /\ k + (j - (k - 1)) = j + 1 /\ ~(j <= k - 1)
        BY <1>1, <1>2, <3>2
      <4>2. t[j] = after[j - (k - 1)]
        BY <2>1, <2>2, <4>1
      <4> QED BY <1>3, <3>2, <4>1, <4>2
    <3> QED BY <3>1, <3>2
  <2> QED BY <2>1, <2>3, <2>4
<1> HIDE DEF t
<1>6. /\ \A j \in 1..n - 1 : from(j) \in 1..n /\ from(j) # k
      /\ \A i, j \in 1..n - 1 : from(i) = from(j) => i = j
      /\ \A i \in 1..n : i # k => \E j \in 1..n - 1 : from(j) = i
  <2>1. ASSUME NEW i \in 1..n, i # k
        PROVE  \E j \in 1..n - 1 : from(j) = i
    <3>1. CASE i < k
      <4>1. i \in 1..n - 1 /\ from(i) = i
        BY <1>2, <3>1
      <4> QED BY <4>1
    <3>2. CASE ~(i < k)
      <4>1. i - 1 \in 1..n - 1 /\ from(i - 1) = i
        BY <1>2, <2>1, <3>2
      <4> QED BY <4>1
    <3> QED BY <3>1, <3>2
  <2> QED BY <1>1, <1>2, <2>1
<1> HIDE DEF from
<1>7. NoRepeat(t)
  <2>1. ASSUME NEW i \in 1..n - 1, NEW j \in 1..n - 1, t[i] = t[j]
        PROVE  i = j
    <3>1. from(i) \in DOMAIN s /\ from(j) \in DOMAIN s /\ s[from(i)] = s[from(j)]
      BY <1>1, <1>5, <1>6, <2>1
    <3>2. from(i) = from(j)
      BY <3>1 DEF NoRepeat
    <3> QED BY <1>6, <3>2
  <2> QED BY <1>5, <2>1 DEF NoRepeat
<1>8. Elements(t) = Elements(s) \ {c}
  <2>1. ASSUME NEW j \in 1..n - 1
        PROVE  t[j] \in Elements(s) /\ t[j] # c
    BY <1>1, <1>2, <1>5, <1>6 DEF NoRepeat, Elements
  <2>2. ASSUME NEW i \in 1..n, s[i] # c
        PROVE  s[i] \in Elements(t)
    <3>1. i # k
      BY <1>2, <2>2
    <3>2. PICK j \in 1..n - 1 : from(j) = i
      BY <1>6, <3>1
    <3>3. t[j] = s[i] /\ j \in DOMAIN t
      BY <1>5, <3>2
    <3> QED BY <3>3 DEF Elements
  <2>3. \A e \in Elements(t) : e \in Elements(s) \ {c}
    BY <1>5, <2>1 DEF Elements
  <2>4. \A e \in Elements(s) \ {c} : e \in Elements(t)
    <3>1. ASSUME NEW e \in Elements(s) \ {c}
          PROVE  e \in Elements(t)
      <4>1. PICK i \in 1..n : s[i] = e
        BY <1>1, <3>1 DEF Elements
      <4> QED BY <2>2, <3>1, <4>1
    <3> QED BY <3>1
  <2> QED BY <2>3, <2>4
<1> QED BY <1>4, <1>5, <1>7, <1>8

(* Each connection has a descriptor of its own. *)
LEMMA OwnDescriptors ==
    ASSUME CliServerInv
    PROVE  DescriptorsAccounted
<1> DEFINE C == Elements(conns)
           own == {fdOf[c] : c \in C}
           server == {serverSd} \ {NoDescriptor}
<1>1. IsFiniteSet(C) /\ Cardinality(C) = Len(conns)
  BY LengthOfNoRepeat DEF CliServerInv, ServerTyped, OneOwner
<1>2. IsFiniteSet(own) /\ Cardinality(own) = Len(conns)
  <2> DEFINE g == [c \in C |-> fdOf[c]]
  <2>1. g \in Bijection(C, own)
    <3>1. g \in [C -> own] /\ \A x \in own : \E c \in C : g[c] = x
      OBVIOUS
    <3>2. \A c, d \in C : g[c] = g[d] => c = d
      BY DEF CliServerInv, OneOwner
    <3> HIDE DEF g, own, C
    <3> QED BY <3>1, <3>2 DEF Bijection, Injection, Surjection, IsInjective
  <2>2. ExistsBijection(C, own)
    BY <2>1 DEF ExistsBijection
  <2> HIDE DEF own, C
  <2> QED BY <1>1, <2>2, FS_Bijection
<1>3. IsFiniteSet(server) /\ IsFiniteSet(leaked) /\ Cardinality(server) \in Nat
      /\ Cardinality(leaked) \in Nat /\ Len(conns) \in Nat
  <2>1. IsFiniteSet({serverSd})
    BY FS_Singleton
  <2>2. IsFiniteSet(server)
    BY <2>1, FS_Subset
  <2>3. conns \in Seq(Clients) /\ IsFiniteSet(leaked)
    BY DEF CliServerInv, ServerTyped
  <2> QED BY <2>2, <2>3, FS_CardinalityType
<1>4. own \intersect leaked = {} /\ (own \union leaked) \intersect server = {}
  BY DEF CliServerInv, OneOwner
<1>5. openFds = own \union leaked \union server
  BY DEF CliServerInv, OwnersOpen
<1> HIDE DEF own, server
<1>6. /\ IsFiniteSet(own \union leaked)
      /\ Cardinality(own \union leaked) = Len(conns) + Cardinality(leaked)
  <2>1. Cardinality(own \union leaked) =
            Cardinality(own) + Cardinality(leaked) - Cardinality(own \intersect leaked)
    BY <1>2, <1>3, FS_Union
  <2>2. Cardinality(own \intersect leaked) = 0
    BY <1>4, FS_EmptySet
  <2> QED BY <1>2, <1>3, <2>1, <2>2, FS_Union
<1>7. Cardinality(openFds) = Len(conns) + Cardinality(leaked) + Cardinality(server)
  <2>1. Cardinality((own \union leaked) \union server) =
            Cardinality(own \union leaked) + Cardinality(server)
                - Cardinality((own \union leaked) \intersect server)
    BY <1>3, <1>6, FS_Union
  <2>2. Cardinality((own \union leaked) \intersect server) = 0
    BY <1>4, FS_EmptySet
  <2> QED BY <1>3, <1>5, <1>6, <2>1, <2>2
<1> QED BY <1>5, <1>7, SameElements DEF DescriptorsAccounted, CliServerInv, own, server

LEMMA ServerInitially == ServerInit => CliServerInv
<1> SUFFICES ASSUME ServerInit PROVE CliServerInv
  OBVIOUS
<1> USE DEF ServerInit
<1>1. Elements(<<>>) = {} /\ NoRepeat(<<>>)
  BY DEF Elements, NoRepeat
<1>2. ServerTyped
  BY DEF ServerTyped
<1>3. OneOwner /\ OwnersOpen
  BY <1>1 DEF OneOwner, OwnersOpen
<1>4. IsFiniteSet(leaked)
  BY FS_EmptySet
<1> QED BY <1>2, <1>3, <1>4 DEF CliServerInv

(* A descriptor that is free belongs to nobody. *)
LEMMA FreeFd ==
    ASSUME CliServerInv, NEW fd \in FreeFds
    PROVE  /\ fd \in Descriptors /\ fd # NoDescriptor /\ fd # serverSd /\ fd \notin leaked
           /\ fd \notin openFds /\ \A c \in Elements(conns) : fdOf[c] # fd
<1>1. fd \in Descriptors /\ fd \notin openFds
  BY DEF FreeFds
<1>2. fd # NoDescriptor
  BY <1>1, DescriptorsAssumption DEF NoDescriptor
<1> QED BY <1>1, <1>2 DEF CliServerInv, ServerTyped, OwnersOpen

LEMMA ListensOrLeaks == CliServerInv /\ (StartServer \/ SensorReadFails) => CliServerInv'
<1> SUFFICES ASSUME CliServerInv, StartServer \/ SensorReadFails PROVE CliServerInv'
  OBVIOUS
<1>0. UNCHANGED <<backlog, fdOf, conns, intfs>>
  BY DEF StartServer, SensorReadFails
<1>1. CASE UNCHANGED <<serverSd, openFds, leaked>> /\ listening'
  BY <1>0, <1>1 DEF CliServerInv, ServerTyped, OneOwner, OwnersOpen
<1>2. ASSUME NEW fd \in FreeFds, serverSd = NoDescriptor, serverSd' = fd,
             openFds' = openFds \union {fd}, leaked' = leaked, listening'
      PROVE  CliServerInv'
  <2>1. ServerTyped'
    BY <1>0, <1>2, FreeFd DEF CliServerInv, ServerTyped
  <2>2. OneOwner'
    BY <1>0, <1>2, FreeFd DEF CliServerInv, OneOwner
  <2>3. OwnersOpen'
    BY <1>0, <1>2, FreeFd DEF CliServerInv, OwnersOpen
  <2> QED BY <1>0, <1>2, <2>1, <2>2, <2>3 DEF CliServerInv
<1>3. ASSUME NEW fd \in FreeFds, openFds' = openFds \union {fd}, leaked' = leaked \union {fd},
             UNCHANGED <<serverSd, listening>>
      PROVE  CliServerInv'
  <2>1. ServerTyped'
    BY <1>0, <1>3, FreeFd DEF CliServerInv, ServerTyped
  <2>2. OneOwner'
    BY <1>0, <1>3, FreeFd DEF CliServerInv, OneOwner
  <2>3. OwnersOpen'
    BY <1>0, <1>3 DEF CliServerInv, OwnersOpen
  <2>4. IsFiniteSet(leaked')
    BY <1>3, FS_AddElement DEF CliServerInv
  <2> QED BY <1>0, <1>3, <2>1, <2>2, <2>3, <2>4 DEF CliServerInv
<1>4. CASE StartServer
  <2>1. listening' /\ leaked' = leaked /\ serverSd = NoDescriptor
    BY <1>4 DEF StartServer, CliServerInv
  <2> QED BY <1>1, <1>2, <1>4, <2>1 DEF StartServer
<1>5. CASE SensorReadFails
  BY <1>3, <1>5 DEF SensorReadFails
<1> QED BY <1>4, <1>5

(* The queue of the kernel. *)
LEMMA WaitingKeeps ==
    ASSUME CliServerInv, NEW c \in Clients, ClientConnects(c) \/ ClientGivesUp(c)
    PROVE  CliServerInv'
<1>0. UNCHANGED <<openFds, serverSd, listening, fdOf, conns, intfs, leaked>>
  BY DEF ClientConnects, ClientGivesUp
<1>1. backlog \in Seq(Clients) /\ NoRepeat(backlog)
  BY DEF CliServerInv, ServerTyped, OneOwner
<1>2. /\ backlog' \in Seq(Clients) /\ NoRepeat(backlog')
      /\ Elements(backlog') \intersect Elements(conns) = {}
  <2>1. CASE ClientConnects(c)
    <3>1. c \notin Elements(backlog) /\ c \notin Elements(conns) /\ backlog' = Append(backlog, c)
      BY <2>1, SameElements DEF ClientConnects
    <3>2. /\ backlog' \in Seq(Clients) /\ NoRepeat(backlog')
          /\ Elements(backlog') = Elements(backlog) \union {c}
      BY <1>1, <3>1, AppendFacts
    <3> QED BY <3>1, <3>2 DEF CliServerInv, OneOwner
  <2>2. CASE ClientGivesUp(c)
    <3>1. c \in Elements(backlog) /\ backlog' = Unlisted(backlog, c)
      BY <2>2, SameElements DEF ClientGivesUp
    <3>2. /\ backlog' \in Seq(Clients) /\ NoRepeat(backlog')
          /\ Elements(backlog') = Elements(backlog) \ {c}
      BY <1>1, <3>1, UnlistedFacts
    <3> QED BY <3>2 DEF CliServerInv, OneOwner
  <2> QED BY <2>1, <2>2
<1>3. ServerTyped' /\ OneOwner' /\ OwnersOpen'
  BY <1>0, <1>2 DEF CliServerInv, ServerTyped, OneOwner, OwnersOpen
<1> QED BY <1>0, <1>3 DEF CliServerInv

(* A client accepted waits no longer; its connection has a new descriptor, *)
(* or, without memory, there is none.                                      *)
LEMMA AcceptKeeps == CliServerInv /\ AcceptClient => CliServerInv'
<1> SUFFICES ASSUME CliServerInv, AcceptClient PROVE CliServerInv'
  OBVIOUS
<1> DEFINE c == Head(backlog)
<1>0. backlog # <<>> /\ backlog' = Tail(backlog) /\ UNCHANGED <<serverSd, listening, leaked>>
  BY DEF AcceptClient
<1>1. /\ c \in Clients /\ backlog' \in Seq(Clients) /\ NoRepeat(backlog')
      /\ Elements(backlog) = Elements(backlog') \union {c} /\ c \notin Elements(backlog')
  <2>1. backlog \in Seq(Clients) /\ NoRepeat(backlog)
    BY DEF CliServerInv, ServerTyped, OneOwner
  <2> QED BY <1>0, <2>1, TailFacts
<1>2. c \notin Elements(conns) /\ Elements(backlog') \intersect Elements(conns) = {}
  BY <1>1 DEF CliServerInv, OneOwner
<1> HIDE DEF c
<1>3. CASE NoMemory
  <2>1. UNCHANGED <<openFds, fdOf, conns, intfs>>
    BY <1>3 DEF NoMemory
  <2>2. ServerTyped' /\ OneOwner' /\ OwnersOpen'
    BY <1>0, <1>1, <1>2, <2>1 DEF CliServerInv, ServerTyped, OneOwner, OwnersOpen
  <2> QED BY <1>0, <2>1, <2>2 DEF CliServerInv
<1>4. ASSUME NEW fd \in FreeFds, NewConnection(c, fd)
      PROVE  CliServerInv'
  <2>1. /\ openFds' = openFds \union {fd} /\ fdOf' = [fdOf EXCEPT ![c] = fd]
        /\ conns' = Append(conns, c) /\ intfs' = Append(intfs, c)
    BY <1>4 DEF NewConnection
  <2>2. /\ conns' \in Seq(Clients) /\ NoRepeat(conns')
        /\ Elements(conns') = Elements(conns) \union {c}
    <3>1. conns \in Seq(Clients) /\ NoRepeat(conns)
      BY DEF CliServerInv, ServerTyped, OneOwner
    <3> QED BY <1>1, <1>2, <2>1, <3>1, AppendFacts
  <2>3. Elements(conns) \subseteq Clients /\ fdOf \in [Clients -> Descriptors \union {NoDescriptor}]
    BY DEF CliServerInv, ServerTyped, Elements
  <2>4. fdOf'[c] = fd /\ \A d \in Elements(conns) : fdOf'[d] = fdOf[d]
    BY <1>1, <1>2, <2>1, <2>3
  <2>5. ServerTyped'
    BY <1>0, <1>1, <2>1, <2>2, FreeFd DEF CliServerInv, ServerTyped
  <2>6. OneOwner'
    <3>1. \A x, y \in Elements(conns') : fdOf'[x] = fdOf'[y] => x = y
      BY <2>2, <2>4, FreeFd DEF CliServerInv, OneOwner
    <3>2. \A x \in Elements(conns') : fdOf'[x] \notin leaked \union {serverSd}
      BY <2>2, <2>4, FreeFd DEF CliServerInv, OneOwner
    <3>3. Elements(backlog') \intersect Elements(conns') = {}
      BY <1>1, <1>2, <2>2
    <3> QED BY <1>0, <1>1, <2>2, <3>1, <3>2, <3>3 DEF CliServerInv, OneOwner
  <2>7. OwnersOpen'
    <3>1. {fdOf'[d] : d \in Elements(conns')} = {fdOf[d] : d \in Elements(conns)} \union {fd}
      BY <2>2, <2>4
    <3> QED BY <1>0, <2>1, <3>1 DEF CliServerInv, OwnersOpen
  <2> QED BY <1>0, <2>1, <2>5, <2>6, <2>7 DEF CliServerInv
<1> QED BY <1>3, <1>4 DEF AcceptClient, c

(* A connection closed takes its own descriptor with it and no other's. *)
LEMMA CloseKeeps == ASSUME CliServerInv, NEW c \in Clients, CloseConnection(c) PROVE CliServerInv'
<1>0. UNCHANGED <<serverSd, listening, backlog, leaked>>
  BY DEF CloseConnection
<1>1. /\ c \in Elements(conns) /\ openFds' = openFds \ {fdOf[c]}
      /\ fdOf' = [fdOf EXCEPT ![c] = NoDescriptor]
      /\ conns' = Unlisted(conns, c) /\ intfs' = Unlisted(intfs, c)
  BY SameElements DEF CloseConnection
<1>2. /\ conns' \in Seq(Clients) /\ NoRepeat(conns')
      /\ Elements(conns') = Elements(conns) \ {c}
  <2>1. conns \in Seq(Clients) /\ NoRepeat(conns)
    BY DEF CliServerInv, ServerTyped, OneOwner
  <2> QED BY <1>1, <2>1, UnlistedFacts
<1>3. Elements(conns) \subseteq Clients /\ fdOf \in [Clients -> Descriptors \union {NoDescriptor}]
  BY DEF CliServerInv, ServerTyped, Elements
<1>4. \A d \in Elements(conns') : d \in Elements(conns) /\ fdOf'[d] = fdOf[d] /\ fdOf[d] # fdOf[c]
  BY <1>1, <1>2, <1>3 DEF CliServerInv, OneOwner
<1>5. fdOf[c] \notin leaked /\ fdOf[c] # serverSd
  BY <1>1 DEF CliServerInv, OneOwner
<1>6. ServerTyped'
  BY <1>0, <1>1, <1>2, <1>5 DEF CliServerInv, ServerTyped
<1>7. OneOwner'
  <2>1. \A x, y \in Elements(conns') : fdOf'[x] = fdOf'[y] => x = y
    BY <1>4 DEF CliServerInv, OneOwner
  <2>2. \A x \in Elements(conns') : fdOf'[x] \notin leaked \union {serverSd}
    BY <1>4 DEF CliServerInv, OneOwner
  <2> QED BY <1>0, <1>2, <2>1, <2>2 DEF CliServerInv, OneOwner
<1>8. OwnersOpen'
  <2>1. {fdOf'[d] : d \in Elements(conns')} = {fdOf[d] : d \in Elements(conns)} \ {fdOf[c]}
    BY <1>2, <1>4
  <2> QED BY <1>0, <1>1, <1>5, <2>1 DEF CliServerInv, OwnersOpen
<1> QED BY <1>0, <1>1, <1>6, <1>7, <1>8 DEF CliServerInv

LEMMA ServerStep == CliServerInv /\ [ServerNext]_serverVars => CliServerInv'
<1> SUFFICES ASSUME CliServerInv, [ServerNext]_serverVars PROVE CliServerInv'
  OBVIOUS
<1>1. CASE UNCHANGED <<openFds, serverSd, listening, backlog, fdOf, conns, intfs, leaked>>
  BY <1>1 DEF CliServerInv, ServerTyped, OneOwner, OwnersOpen
<1>2. CASE ShowConnections \/ UNCHANGED serverVars
  BY <1>1, <1>2 DEF ShowConnections, serverVars
<1> QED BY <1>2, ListensOrLeaks, AcceptKeeps, WaitingKeeps, CloseKeeps DEF ServerNext

(* tcp_server_ipv4.c, cli_telnet.c: for every number of clients, every     *)
(* backlog and every limit on descriptors, whatever fails, each open       *)
(* descriptor has exactly one owner: the server, a listed connection, or   *)
(* the sensor thread, which forgot it.                                     *)
THEOREM DescriptorsStayAccounted == ServerSpec => []DescriptorsAccounted
<1>1. CliServerInv => DescriptorsAccounted
  BY OwnDescriptors
<1> QED BY <1>1, ServerInitially, ServerStep, PTL DEF ServerSpec

-----------------------------------------------------------------------------
(* JpegCodec *)

CodecPcs == {"idle", "feed", "decoding", "await decoder", "send", "encoding", "await encoder",
             "publish", "failed"}
Filled == [length : {0, 1}, eos : BOOLEAN]

DecoderTyped ==
    decoder \in [in : Nat, free : Nat, sent : Nat, got : BOOLEAN,
                 port : {"new", "announced", "formatted"}, full : Seq({"format", "picture"}),
                 lost : Nat, out : BOOLEAN]

EncoderTyped ==
    /\ encoder \in [in : BOOLEAN, free : Nat, sent : Seq(Nat), next : Nat, full : Seq(Filled),
                    loop : Nat, size : Nat, coded : Nat, failed : {"no", "space", "error"},
                    lost : Nat, pic : BOOLEAN]
    /\ output \in [1..Space -> Nat]

(* The queue of filled buffers during a frame: what the flush of the frame *)
(* before left, too little to be taken for a full output; then buffers of  *)
(* this frame, up to the last chunk coded; then empty ones, once the       *)
(* output is full.                                                         *)
QueueOfFrame(a, b) ==
    /\ a + b <= Len(encoder.full)
    /\ \A i \in DOMAIN encoder.full :
        encoder.full[i].length = IF a < i /\ i <= a + b THEN 1 ELSE 0
    /\ encoder.size + b = encoder.coded
    /\ a + b < Len(encoder.full) => encoder.coded = Space
    /\ a > 0 => encoder.loop + a < OutBuffers

(* The places sent are the ones after the last chunk coded. *)
PlacesInTurn ==
    /\ \A i \in DOMAIN encoder.sent : encoder.sent[i] = Lesser(encoder.coded + i, Space + 1)
    /\ encoder.next = Lesser(encoder.coded + Len(encoder.sent) + 1, Space + 1)

LastIsLast ==
    \A i \in DOMAIN encoder.full : encoder.full[i].eos =>
        i = Len(encoder.full) /\ encoder.full[i].length = 1 /\ ~encoder.in /\ encoder.coded > 0

InFrame ==
    /\ encoder.coded <= Space
    /\ \A i \in 1 .. encoder.coded : output[i] = i
    /\ PlacesInTurn /\ LastIsLast
    /\ \E a, b \in Nat : QueueOfFrame(a, b)
    /\ codecPc = "failed" <=> encoder.failed # "no"
    /\ encoder.failed = "space" => encoder.coded = Space

BetweenFrames ==
    /\ encoder.sent = <<>>
    /\ Len(encoder.full) < OutBuffers
    /\ \A i \in DOMAIN encoder.full : encoder.full[i] = [length |-> 0, eos |-> FALSE]

DecoderInv == DecoderTyped /\ decoder.free + decoder.sent + decoder.lost = InBuffers

EncoderInv ==
    /\ codecPc \in CodecPcs
    /\ EncoderTyped
    /\ encoder.free + Len(encoder.sent) + Len(encoder.full) + encoder.lost = OutBuffers
    /\ IF codecPc \in {"send", "encoding", "await encoder", "failed"} THEN InFrame ELSE BetweenFrames
    /\ EncodedInPlace

CodecInv == DecoderInv /\ EncoderInv

(* The decoder's input. *)
LEMMA DecoderKeeps == DecoderInv /\ [CodecNext]_codecVars => DecoderInv'
<1> SUFFICES ASSUME DecoderInv, [CodecNext]_codecVars PROVE DecoderInv'
  OBVIOUS
<1> DEFINE Queues == Seq({"format", "picture"})
<1>t. DecoderTyped
  BY DEF DecoderInv
<1>s. /\ decoder.free \in Nat /\ decoder.sent \in Nat /\ decoder.in \in Nat
      /\ decoder.full \in Queues /\ decoder.lost \in Nat /\ decoder.out \in BOOLEAN
  BY <1>t DEF DecoderTyped
<1>n. InBuffers \in Nat /\ decoder.free + decoder.sent + decoder.lost = InBuffers
  BY CodecAssumption DEF DecoderInv
<1>q. <<>> \in Queues
  OBVIOUS
<1>1. CASE UNCHANGED decoder
  BY <1>t, <1>n, <1>1 DEF DecoderInv, DecoderTyped
<1>2. CASE BeginDecode
  <2>1. PICK n \in 0..MaxInput :
            decoder' = [decoder EXCEPT !.in = n, !.got = FALSE, !.port = "new", !.full = <<>>]
    BY <1>2 DEF BeginDecode
  <2>2. n \in Nat
    BY CodecAssumption
  <2>3. DecoderTyped'
    BY <1>t, <1>q, <2>1, <2>2 DEF DecoderTyped
  <2>4. /\ decoder'.free = decoder.free /\ decoder'.sent = decoder.sent
        /\ decoder'.lost = decoder.lost
    BY <1>t, <2>1 DEF DecoderTyped
  <2> QED BY <1>n, <2>3, <2>4 DEF DecoderInv
<1>3. CASE FeedDecoder
  <2> DEFINE n == Lesser(decoder.in, decoder.free)
  <2>1. n \in Nat /\ decoder.in - n \in Nat /\ decoder.free - n \in Nat /\ decoder.sent + n \in Nat
    BY <1>s DEF Lesser
  <2>2. decoder' = [decoder EXCEPT !.in = @ - n, !.free = @ - n, !.sent = @ + n,
                                   !.got = @ \/ (n > 0 /\ n = decoder.in)]
    BY <1>3 DEF FeedDecoder
  <2> HIDE DEF n
  <2>3. DecoderTyped'
    BY <1>t, <2>1, <2>2 DEF DecoderTyped
  <2>4. /\ decoder'.free = decoder.free - n /\ decoder'.sent = decoder.sent + n
        /\ decoder'.lost = decoder.lost
    BY <1>t, <2>2 DEF DecoderTyped
  <2> QED BY SMTT(40), <1>s, <1>n, <2>1, <2>3, <2>4 DEF DecoderInv
<1>4. CASE FormatChanged
  <2>1. PICK port \in {"new", "announced", "formatted"} :
            decoder' = [decoder EXCEPT !.full = <<>>, !.port = port]
    <3>1. decoder' = [decoder EXCEPT !.full = <<>>,
                                     !.port = IF decoder.out THEN "formatted" ELSE decoder.port]
      BY <1>4, <1>t DEF FormatChanged, DecoderTyped
    <3>2. decoder.port \in {"new", "announced", "formatted"}
      BY <1>t DEF DecoderTyped
    <3> QED BY <3>1, <3>2
  <2>2. DecoderTyped'
    BY <1>t, <1>q, <2>1 DEF DecoderTyped
  <2>3. /\ decoder'.free = decoder.free /\ decoder'.sent = decoder.sent
        /\ decoder'.lost = decoder.lost
    BY <1>t, <2>1 DEF DecoderTyped
  <2> QED BY <1>n, <2>2, <2>3 DEF DecoderInv
<1>5. CASE Decoded \/ DecodeFails
  <2>1. ASSUME Decoded PROVE Tail(decoder.full) \in Queues
    BY <1>s, <2>1 DEF Decoded
  <2> DEFINE Restored(in, full, gone, out) ==
            decoder' = [decoder EXCEPT !.in = in, !.full = full, !.free = InBuffers - gone,
                                       !.sent = 0, !.lost = gone, !.out = out]
  <2>2. \E in \in Nat, full \in Queues, gone \in Nat, out \in BOOLEAN :
            gone <= InBuffers /\ Restored(in, full, gone, out)
    <3>1. CASE Decoded
      <4>1. Restored(decoder.in, Tail(decoder.full), decoder.lost, decoder.out)
        BY <1>t, <3>1 DEF Decoded, DecoderTyped
      <4>2. decoder.lost <= InBuffers
        BY <1>s, <1>n
      <4> QED BY <1>s, <2>1, <3>1, <4>1, <4>2
    <3>2. CASE DecodeFails
      <4>1. PICK gone \in {decoder.lost, decoder.lost + 1}, out \in {decoder.out, FALSE} :
                /\ gone # decoder.lost => decoder.free > 0
                /\ decoder' = [decoder EXCEPT !.in = 0, !.free = InBuffers - gone, !.sent = 0,
                                              !.lost = gone, !.out = out]
        BY <3>2 DEF DecodeFails
      <4>2. Restored(0, decoder.full, gone, out)
        BY <1>t, <4>1 DEF DecoderTyped
      <4>3. gone \in Nat /\ gone <= InBuffers
        BY <1>s, <1>n, <4>1
      <4>4. out \in BOOLEAN
        BY <1>s, <4>1
      <4> QED BY <1>s, <4>2, <4>3, <4>4
    <3> QED BY <1>5, <3>1, <3>2
  <2>3. PICK in \in Nat, full \in Queues, gone \in Nat, out \in BOOLEAN :
            gone <= InBuffers /\ Restored(in, full, gone, out)
    BY <2>2
  <2>4. InBuffers - gone \in Nat
    BY <1>n, <2>3
  <2>5. DecoderTyped'
    BY <1>t, <2>3, <2>4 DEF DecoderTyped
  <2>6. decoder'.free = InBuffers - gone /\ decoder'.sent = 0 /\ decoder'.lost = gone
    BY <1>t, <2>3 DEF DecoderTyped
  <2> QED BY <1>n, <2>3, <2>5, <2>6 DEF DecoderInv
<1>6. CASE DecoderRuns
  <2>1. CASE /\ decoder.sent > 0
             /\ decoder' = [decoder EXCEPT !.sent = @ - 1, !.free = @ + 1,
                    !.full = IF decoder.port = "new" THEN Append(@, "format") ELSE @,
                    !.port = IF @ = "new" THEN "announced" ELSE @]
    <3> DEFINE full == IF decoder.port = "new" THEN Append(decoder.full, "format") ELSE decoder.full
               port == IF decoder.port = "new" THEN "announced" ELSE decoder.port
    <3>1. full \in Queues
      BY <1>s
    <3>2. port \in {"new", "announced", "formatted"}
      BY <1>t DEF DecoderTyped
    <3>3. decoder' = [decoder EXCEPT !.sent = @ - 1, !.free = @ + 1, !.full = full, !.port = port]
      BY <2>1
    <3>4. decoder.sent - 1 \in Nat /\ decoder.free + 1 \in Nat
      BY <1>s, <2>1
    <3> HIDE DEF full, port
    <3>5. DecoderTyped'
      BY <1>t, <3>1, <3>2, <3>3, <3>4 DEF DecoderTyped
    <3>6. /\ decoder'.free = decoder.free + 1 /\ decoder'.sent = decoder.sent - 1
          /\ decoder'.lost = decoder.lost
      BY <1>t, <3>3 DEF DecoderTyped
    <3> QED BY SMTT(40), <1>s, <1>n, <3>5, <3>6 DEF DecoderInv
  <2>2. CASE decoder' = [decoder EXCEPT !.full = Append(@, "picture"), !.got = FALSE]
    <3>1. Append(decoder.full, "picture") \in Queues
      BY <1>s
    <3>2. DecoderTyped'
      BY <1>t, <2>2, <3>1 DEF DecoderTyped
    <3>3. /\ decoder'.free = decoder.free /\ decoder'.sent = decoder.sent
        /\ decoder'.lost = decoder.lost
      BY <1>t, <2>2 DEF DecoderTyped
    <3> QED BY <1>n, <3>2, <3>3 DEF DecoderInv
  <2> QED BY <1>6, <2>1, <2>2 DEF DecoderRuns
<1> QED BY <1>1, <1>2, <1>3, <1>4, <1>5, <1>6
        DEF CodecNext, Convert, CodecFails, Mmal, codecVars, NothingDecoded, AwaitDecoder,
            SendBuffers, NothingEncoded, AwaitEncoder, TakeEncoded, Encoded, EncodeFails,
            DisablePorts, PublishEncoded, EncoderRuns

(* The encoder's output. *)
LEMMA EncoderParts ==
    EncoderTyped =>
        /\ encoder.free \in Nat /\ encoder.sent \in Seq(Nat) /\ encoder.next \in Nat
        /\ encoder.full \in Seq(Filled) /\ encoder.loop \in Nat /\ encoder.size \in Nat
        /\ encoder.coded \in Nat /\ encoder.failed \in {"no", "space", "error"}
        /\ encoder.lost \in Nat /\ Len(encoder.sent) \in Nat /\ Len(encoder.full) \in Nat
        /\ output \in [1..Space -> Nat]
<1> SUFFICES ASSUME EncoderTyped
             PROVE  /\ encoder.free \in Nat /\ encoder.sent \in Seq(Nat) /\ encoder.next \in Nat
                    /\ encoder.full \in Seq(Filled) /\ encoder.loop \in Nat
                    /\ encoder.size \in Nat /\ encoder.coded \in Nat
                    /\ encoder.failed \in {"no", "space", "error"}
                    /\ encoder.lost \in Nat /\ Len(encoder.sent) \in Nat /\ Len(encoder.full) \in Nat
                    /\ output \in [1..Space -> Nat]
  OBVIOUS
<1>1. /\ encoder.free \in Nat /\ encoder.sent \in Seq(Nat) /\ encoder.next \in Nat
      /\ encoder.full \in Seq(Filled) /\ encoder.loop \in Nat /\ encoder.size \in Nat
      /\ encoder.coded \in Nat /\ encoder.failed \in {"no", "space", "error"}
      /\ encoder.lost \in Nat /\ output \in [1..Space -> Nat]
  BY DEF EncoderTyped
<1>2. \A S : \A s \in Seq(S) : Len(s) \in Nat
  OBVIOUS
<1> QED BY <1>1, <1>2

(* The oldest of the filled buffers, and the others. *)
LEMMA FilledFacts ==
    ASSUME NEW full \in Seq(Filled), full # <<>>
    PROVE  /\ Head(full) = full[1] /\ Head(full) \in Filled /\ full[1].length \in {0, 1}
           /\ Tail(full) \in Seq(Filled) /\ Len(Tail(full)) = Len(full) - 1
           /\ Len(full) \in Nat \ {0} /\ DOMAIN full = 1..Len(full)
           /\ DOMAIN Tail(full) = 1..Len(full) - 1
           /\ \A i \in 1..Len(full) - 1 : Tail(full)[i] = full[i + 1]
<1>1. /\ Head(full) = full[1] /\ Head(full) \in Filled
      /\ Tail(full) \in Seq(Filled) /\ Len(Tail(full)) = Len(full) - 1
      /\ Len(full) \in Nat \ {0} /\ DOMAIN full = 1..Len(full)
      /\ DOMAIN Tail(full) = 1..Len(full) - 1
      /\ \A i \in 1..Len(full) - 1 : Tail(full)[i] = full[i + 1]
  OBVIOUS
<1>2. \A f \in Filled : f.length \in {0, 1}
  BY DEF Filled
<1> QED BY <1>1, <1>2

LEMMA CodecInitially == CodecInit => CodecInv
<1> SUFFICES ASSUME CodecInit PROVE CodecInv
  OBVIOUS
<1> USE CodecAssumption
<1>1. /\ codecPc = "idle"
      /\ decoder = [in |-> 0, free |-> InBuffers, sent |-> 0, got |-> FALSE, port |-> "new",
                    full |-> <<>>, lost |-> 0, out |-> TRUE]
      /\ encoder = [in |-> FALSE, free |-> OutBuffers, sent |-> <<>>, next |-> 1, full |-> <<>>,
                    loop |-> 0, size |-> 0, coded |-> 0, failed |-> "no",
                    lost |-> 0, pic |-> TRUE]
      /\ output = [i \in 1..Space |-> 0]
  BY DEF CodecInit
<1>2. /\ <<>> \in Seq({"format", "picture"}) /\ <<>> \in Seq(Nat) /\ <<>> \in Seq(Filled)
  OBVIOUS
<1>3. DecoderInv
  <2>1. DecoderTyped
    BY <1>1, <1>2 DEF DecoderTyped
  <2> QED BY <1>1, <2>1 DEF DecoderInv
<1>4. EncoderTyped
  BY <1>1, <1>2 DEF EncoderTyped
<1>5. encoder.sent = <<>> /\ encoder.full = <<>> /\ encoder.free = OutBuffers /\ encoder.lost = 0
  BY <1>1
<1>6. BetweenFrames
  BY <1>5 DEF BetweenFrames
<1>7. codecPc \in CodecPcs /\ EncodedInPlace
  BY <1>1 DEF CodecPcs, EncodedInPlace
<1>8. encoder.free + Len(encoder.sent) + Len(encoder.full) + encoder.lost = OutBuffers
  BY <1>5
<1> QED BY <1>1, <1>3, <1>4, <1>6, <1>7, <1>8 DEF CodecInv, EncoderInv

(* What is left of the frame before is taken for an output that is full by *)
(* no turn of this frame.                                                  *)
LEMMA BeginEncodeKeeps ==
    EncoderInv /\ codecPc \in {"feed", "decoding"} /\ BeginEncode => EncoderInv'
<1> SUFFICES ASSUME EncoderInv, codecPc \in {"feed", "decoding"}, BeginEncode PROVE EncoderInv'
  OBVIOUS
<1>0. EncoderTyped /\ BetweenFrames
  BY DEF EncoderInv
<1>1. PICK failed \in {"no", "error"} :
        /\ codecPc' = IF failed = "no" THEN "send" ELSE "publish"
        /\ encoder' = [encoder EXCEPT !.in = FALSE, !.next = 1, !.loop = 0, !.size = 0, !.coded = 0,
                                      !.failed = failed]
        /\ output' = [i \in 1..Space |-> 0]
  BY DEF BeginEncode
<1>2. EncoderTyped'
  BY <1>0, <1>1 DEF EncoderTyped
<1>3. /\ encoder'.in = FALSE /\ encoder'.next = 1 /\ encoder'.loop = 0 /\ encoder'.size = 0
      /\ encoder'.coded = 0 /\ encoder'.failed = failed
      /\ encoder'.free = encoder.free /\ encoder'.sent = encoder.sent
      /\ encoder'.full = encoder.full /\ encoder'.lost = encoder.lost
  BY <1>0, <1>1 DEF EncoderTyped
<1>4. /\ encoder.sent = <<>> /\ Len(encoder.full) < OutBuffers
      /\ \A i \in DOMAIN encoder.full : encoder.full[i] = [length |-> 0, eos |-> FALSE]
  BY <1>0 DEF BetweenFrames
<1>5. BetweenFrames'
  BY <1>3, <1>4 DEF BetweenFrames
<1>6. ASSUME failed = "no"
      PROVE  InFrame'
  <2> DEFINE n == Len(encoder.full)
  <2>1. n \in Nat /\ DOMAIN encoder.full = 1..n
    BY <1>0, EncoderParts
  <2>2. QueueOfFrame(n, 0)'
    <3>1. \A i \in DOMAIN encoder.full : encoder.full[i].length = 0
      BY <1>4
    <3> QED BY <1>3, <1>4, <2>1, <3>1 DEF QueueOfFrame
  <2>3. PlacesInTurn'
    BY <1>3, <1>4, CodecAssumption DEF PlacesInTurn, Lesser
  <2>4. LastIsLast'
    BY <1>3, <1>4 DEF LastIsLast
  <2>5. \E a, b \in Nat : QueueOfFrame(a, b)'
    BY <2>1, <2>2
  <2> QED BY <1>1, <1>3, <1>6, <2>3, <2>4, <2>5, CodecAssumption DEF InFrame
<1>7. EncodedInPlace'
  BY <1>1, <1>3 DEF EncodedInPlace
<1>8. encoder'.free + Len(encoder'.sent) + Len(encoder'.full) + encoder'.lost = OutBuffers
  BY <1>3 DEF EncoderInv
<1>9. codecPc' \in CodecPcs /\ (codecPc' = "send" => failed = "no") /\ codecPc' \in {"send", "publish"}
  BY <1>1 DEF CodecPcs
<1> QED BY <1>2, <1>5, <1>6, <1>7, <1>8, <1>9 DEF EncoderInv

(* The places handed out, continued. *)
LEMMA PlacesContinue ==
    ASSUME NEW s \in Seq(Nat), NEW coded \in Nat, NEW next \in Nat, NEW k \in Nat,
           \A i \in DOMAIN s : s[i] = Lesser(coded + i, Space + 1),
           next = Lesser(coded + Len(s) + 1, Space + 1),
           NEW more, more = [i \in 1..k |-> Lesser(next + i - 1, Space + 1)]
    PROVE  /\ s \o more \in Seq(Nat) /\ Len(s \o more) = Len(s) + k
           /\ \A i \in DOMAIN (s \o more) : (s \o more)[i] = Lesser(coded + i, Space + 1)
           /\ Lesser(next + k, Space + 1) = Lesser(coded + Len(s \o more) + 1, Space + 1)
           /\ Lesser(next + k, Space + 1) \in Nat
<1>1. PICK n \in Nat : n = Len(s) /\ DOMAIN s = 1..n
  OBVIOUS
<1>2. Space \in Nat
  BY CodecAssumption
<1>3. \A i \in 1..k : Lesser(next + i - 1, Space + 1) \in Nat
  BY <1>2 DEF Lesser
<1>4. more \in [1..k -> Nat]
  BY <1>3
<1>5. more \in Seq(Nat) /\ Len(more) = k
  BY <1>4
<1>6. /\ s \o more \in Seq(Nat) /\ Len(s \o more) = n + k /\ DOMAIN (s \o more) = 1..n + k
      /\ \A i \in 1..n + k : (s \o more)[i] = IF i <= n THEN s[i] ELSE more[i - n]
  BY <1>1, <1>5, ConcatProperties
<1>7. ASSUME NEW i \in 1..n + k
      PROVE  (s \o more)[i] = Lesser(coded + i, Space + 1)
  <2>1. CASE i <= n
    <3>1. i \in DOMAIN s
      BY <1>1, <2>1
    <3>2. (s \o more)[i] = s[i]
      BY <1>6, <2>1
    <3> QED BY <3>1, <3>2
  <2>2. CASE ~(i <= n)
    <3>1. i - n \in 1..k
      BY <1>1, <2>2
    <3>2. (s \o more)[i] = Lesser(next + (i - n) - 1, Space + 1)
      BY <1>6, <2>2, <3>1
    <3>3. next = Lesser(coded + n + 1, Space + 1)
      BY <1>1
    <3> QED BY <1>1, <1>2, <3>1, <3>2, <3>3 DEF Lesser
  <2> QED BY <2>1, <2>2
<1>8. next = Lesser(coded + n + 1, Space + 1)
  BY <1>1
<1>9. /\ Lesser(next + k, Space + 1) = Lesser(coded + (n + k) + 1, Space + 1)
      /\ Lesser(next + k, Space + 1) \in Nat
  BY <1>1, <1>2, <1>8 DEF Lesser
<1> QED BY <1>1, <1>6, <1>7, <1>9

(* The buffers sent continue where the ones before end. *)
LEMMA SendKeeps == EncoderInv /\ SendBuffers => EncoderInv'
<1> SUFFICES ASSUME EncoderInv, SendBuffers PROVE EncoderInv'
  OBVIOUS
<1>0. EncoderTyped /\ InFrame /\ codecPc = "send"
  BY DEF EncoderInv, SendBuffers
<1> DEFINE k == encoder.free
           more == [i \in 1..k |-> Lesser(encoder.next + i - 1, Space + 1)]
           sent == encoder.sent \o more
           next == Lesser(encoder.next + k, Space + 1)
<1>1. /\ encoder' = [encoder EXCEPT !.sent = sent, !.next = next, !.free = 0,
                                    !.in = @ \/ (encoder.coded = 0 /\ encoder.pic)]
      /\ codecPc' = "encoding" /\ output' = output
  BY <1>0 DEF SendBuffers, EncoderTyped
<1>2. /\ sent \in Seq(Nat) /\ Len(sent) = Len(encoder.sent) + k
      /\ \A i \in DOMAIN sent : sent[i] = Lesser(encoder.coded + i, Space + 1)
      /\ next = Lesser(encoder.coded + Len(sent) + 1, Space + 1) /\ next \in Nat
  <2>1. /\ encoder.sent \in Seq(Nat) /\ encoder.coded \in Nat /\ encoder.next \in Nat /\ k \in Nat
        /\ \A i \in DOMAIN encoder.sent : encoder.sent[i] = Lesser(encoder.coded + i, Space + 1)
        /\ encoder.next = Lesser(encoder.coded + Len(encoder.sent) + 1, Space + 1)
    BY <1>0, EncoderParts DEF InFrame, PlacesInTurn
  <2> QED BY <2>1, PlacesContinue
<1> HIDE DEF sent, next
<1>3. EncoderTyped'
  BY <1>0, <1>1, <1>2 DEF EncoderTyped
<1>4. /\ encoder'.sent = sent /\ encoder'.next = next /\ encoder'.free = 0
      /\ encoder'.full = encoder.full /\ encoder'.loop = encoder.loop
      /\ encoder'.size = encoder.size /\ encoder'.coded = encoder.coded
      /\ encoder'.failed = encoder.failed /\ encoder'.lost = encoder.lost
      /\ encoder'.in => (encoder.in \/ encoder.coded = 0)
  BY <1>0, <1>1 DEF EncoderTyped
<1>5. PlacesInTurn'
  BY <1>2, <1>4 DEF PlacesInTurn
<1>6. LastIsLast'
  <2>1. encoder.coded \in Nat
    BY <1>0, EncoderParts
  <2> QED BY <1>0, <1>4, <2>1 DEF InFrame, LastIsLast
<1>7. \E a, b \in Nat : QueueOfFrame(a, b)'
  <2>1. PICK a, b \in Nat : QueueOfFrame(a, b)
    BY <1>0 DEF InFrame
  <2>2. QueueOfFrame(a, b)'
    BY <1>4, <2>1 DEF QueueOfFrame
  <2> QED BY <2>2
<1>8. InFrame'
  BY <1>0, <1>1, <1>4, <1>5, <1>6, <1>7 DEF InFrame
<1>9. encoder'.free + Len(encoder'.sent) + Len(encoder'.full) + encoder'.lost = OutBuffers
  <2> DEFINE n == Len(encoder.sent) m == Len(encoder.full)
  <2>1. n \in Nat /\ m \in Nat /\ k \in Nat /\ encoder.lost \in Nat /\ k + n + m + encoder.lost = OutBuffers
    BY <1>0, EncoderParts DEF EncoderInv
  <2>2. /\ encoder'.free = 0 /\ Len(encoder'.sent) = n + k /\ Len(encoder'.full) = m
        /\ encoder'.lost = encoder.lost
    BY <1>2, <1>4
  <2> HIDE DEF k, n, m
  <2> QED BY <2>1, <2>2
<1> QED BY <1>1, <1>3, <1>8, <1>9 DEF EncoderInv, CodecPcs, EncodedInPlace

(* An empty buffer counts as a sign of a full output only once those left  *)
(* from the frame before must have been received.                          *)
LEMMA TakeKeeps == EncoderInv /\ TakeEncoded => EncoderInv'
<1> SUFFICES ASSUME EncoderInv, TakeEncoded PROVE EncoderInv'
  OBVIOUS
<1>0. EncoderTyped /\ InFrame /\ codecPc = "encoding"
  BY DEF EncoderInv, TakeEncoded
<1> DEFINE full == encoder.full
           h == Head(full).length
           loop == Lesser(encoder.loop + 1, OutBuffers)
           failed == IF NoSpace THEN "space" ELSE encoder.failed
           m == Len(full)
<1>1. full # <<>> /\ ~Head(full).eos
  BY DEF TakeEncoded
<1>2. /\ encoder' = [encoder EXCEPT !.size = @ + h, !.full = Tail(@), !.free = @ + 1,
                                    !.loop = loop, !.failed = failed]
      /\ codecPc' = IF NoSpace THEN "failed" ELSE "send"
      /\ output' = output
  BY <1>0 DEF TakeEncoded, TakeFull, EncoderTyped
<1>3. /\ full \in Seq(Filled) /\ encoder.free \in Nat /\ encoder.loop \in Nat
      /\ encoder.size \in Nat /\ encoder.coded \in Nat /\ OutBuffers \in Nat /\ Space \in Nat
      /\ encoder.failed = "no"
  BY <1>0, EncoderParts, CodecAssumption DEF InFrame
<1>4. /\ h = full[1].length /\ h \in {0, 1} /\ Tail(full) \in Seq(Filled)
      /\ m \in Nat \ {0} /\ DOMAIN full = 1..m /\ Len(Tail(full)) = m - 1
      /\ DOMAIN Tail(full) = 1..m - 1 /\ \A i \in 1..m - 1 : Tail(full)[i] = full[i + 1]
  BY <1>1, <1>3, FilledFacts
<1>5. /\ loop \in Nat /\ loop <= encoder.loop + 1
  BY <1>3 DEF Lesser
<1>6. NoSpace <=> encoder.loop + 1 >= OutBuffers /\ h = 0
  BY DEF NoSpace
<1> HIDE DEF h, loop
<1>7. EncoderTyped'
  <2>1. encoder.size + h \in Nat /\ failed \in {"no", "space", "error"}
    BY <1>3, <1>4
  <2>2. Tail(encoder.full) \in Seq(Filled) /\ encoder.free + 1 \in Nat
    BY <1>3, <1>4
  <2>3. encoder' = [encoder EXCEPT !.size = @ + h, !.full = Tail(@), !.free = @ + 1,
                                  !.loop = loop, !.failed = failed]
    BY <1>2
  <2>4. output' = output /\ loop \in Nat /\ EncoderTyped
    BY <1>0, <1>2, <1>5
  <2> HIDE DEF full, failed
  <2> QED BY <2>1, <2>2, <2>3, <2>4 DEF EncoderTyped
<1>8. /\ encoder'.sent = encoder.sent /\ encoder'.next = encoder.next
      /\ encoder'.free = encoder.free + 1 /\ encoder'.full = Tail(full)
      /\ encoder'.loop = loop /\ encoder'.size = encoder.size + h
      /\ encoder'.coded = encoder.coded /\ encoder'.failed = failed
      /\ encoder'.in = encoder.in /\ encoder'.lost = encoder.lost
  BY <1>0, <1>2 DEF EncoderTyped
<1>9. PlacesInTurn'
  BY <1>0, <1>8 DEF InFrame, PlacesInTurn
<1>10. LastIsLast'
  <2>1. ASSUME NEW i \in 1..m - 1, Tail(full)[i].eos
        PROVE  i = m - 1 /\ Tail(full)[i].length = 1 /\ ~encoder.in /\ encoder.coded > 0
    <3>1. i + 1 \in DOMAIN full /\ full[i + 1].eos
      BY <1>4, <2>1
    <3>2. i + 1 = m /\ full[i + 1].length = 1 /\ ~encoder.in /\ encoder.coded > 0
      BY <1>0, <3>1 DEF InFrame, LastIsLast
    <3> QED BY <1>4, <3>2
  <2> QED BY <1>4, <1>8, <2>1 DEF LastIsLast
<1>11. PICK a, b \in Nat : QueueOfFrame(a, b)
  BY <1>0 DEF InFrame
<1>12. /\ a + b <= m /\ \A i \in 1..m : full[i].length = IF a < i /\ i <= a + b THEN 1 ELSE 0
       /\ encoder.size + b = encoder.coded
       /\ a + b < m => encoder.coded = Space
       /\ a > 0 => encoder.loop + a < OutBuffers
  BY <1>4, <1>11 DEF QueueOfFrame
<1>13. /\ NoSpace => encoder.coded = Space
       /\ \E c, d \in Nat :
            /\ c + d <= m - 1
            /\ \A i \in 1..m - 1 : Tail(full)[i].length = IF c < i /\ i <= c + d THEN 1 ELSE 0
            /\ encoder.size + h + d = encoder.coded
            /\ c + d < m - 1 => encoder.coded = Space
            /\ c > 0 => loop + c < OutBuffers
  <2>1. \A i \in 1..m - 1 :
            i + 1 \in 1..m
            /\ Tail(full)[i].length = IF a < i + 1 /\ i + 1 <= a + b THEN 1 ELSE 0
    BY <1>4, <1>12
  <2>2. 1 \in 1..m /\ h = IF a < 1 /\ 1 <= a + b THEN 1 ELSE 0
    BY <1>4, <1>12
  <2> HIDE DEF full, m
  <2>3. CASE a > 0
    <3>1. h = 0 /\ ~NoSpace
      BY <1>3, <1>6, <1>12, <2>2, <2>3
    <3>2. a - 1 \in Nat /\ (a - 1) + b <= m - 1 /\ encoder.size + h + b = encoder.coded
          /\ ((a - 1) + b < m - 1 => encoder.coded = Space)
          /\ (a - 1 > 0 => loop + (a - 1) < OutBuffers)
      BY <1>3, <1>4, <1>5, <1>12, <2>3, <3>1
    <3>3. \A i \in 1..m - 1 :
            Tail(full)[i].length = IF a - 1 < i /\ i <= (a - 1) + b THEN 1 ELSE 0
      BY <1>4, <2>1
    <3> QED BY <3>1, <3>2, <3>3
  <2>4. CASE a = 0 /\ b > 0
    <3>1. h = 1 /\ ~NoSpace
      BY <1>6, <2>2, <2>4
    <3>2. b - 1 \in Nat /\ 0 + (b - 1) <= m - 1 /\ encoder.size + h + (b - 1) = encoder.coded
          /\ (0 + (b - 1) < m - 1 => encoder.coded = Space)
      BY SMTT(60), <1>3, <1>4, <1>12, <2>4, <3>1
    <3>3. \A i \in 1..m - 1 : Tail(full)[i].length = IF 0 < i /\ i <= 0 + (b - 1) THEN 1 ELSE 0
      BY <1>4, <2>1, <2>4
    <3>4. 0 \in Nat /\ ~(0 > 0)
      OBVIOUS
    <3> QED BY <3>1, <3>2, <3>3, <3>4
  <2>5. CASE a = 0 /\ b = 0
    <3>1. h = 0 /\ encoder.coded = Space
      BY <1>4, <1>12, <2>2, <2>5
    <3>2. 0 + 0 <= m - 1 /\ encoder.size + h + 0 = encoder.coded
      BY <1>3, <1>4, <1>12, <2>5, <3>1
    <3>3. \A i \in 1..m - 1 : Tail(full)[i].length = IF 0 < i /\ i <= 0 + 0 THEN 1 ELSE 0
      BY <1>4, <2>1, <2>5
    <3>4. 0 \in Nat /\ ~(0 > 0)
      OBVIOUS
    <3> QED BY <3>1, <3>2, <3>3, <3>4
  <2>6. a > 0 \/ (a = 0 /\ b > 0) \/ (a = 0 /\ b = 0)
    OBVIOUS
  <2> QED BY <2>3, <2>4, <2>5, <2>6
<1>14. \E c, d \in Nat : QueueOfFrame(c, d)'
  <2>1. PICK c, d \in Nat :
            /\ c + d <= m - 1
            /\ \A i \in 1..m - 1 : Tail(full)[i].length = IF c < i /\ i <= c + d THEN 1 ELSE 0
            /\ encoder.size + h + d = encoder.coded
            /\ c + d < m - 1 => encoder.coded = Space
            /\ c > 0 => loop + c < OutBuffers
    BY <1>13
  <2>2. /\ Len(encoder'.full) = m - 1 /\ DOMAIN encoder'.full = 1..m - 1
        /\ \A i \in 1..m - 1 : encoder'.full[i] = Tail(full)[i]
        /\ encoder'.size = encoder.size + h /\ encoder'.coded = encoder.coded
        /\ encoder'.loop = loop
    BY <1>4, <1>8
  <2> HIDE DEF full, m
  <2>3. QueueOfFrame(c, d)'
    BY <2>1, <2>2 DEF QueueOfFrame
  <2> QED BY <2>3
<1>15. InFrame'
  <2>1. /\ encoder'.coded <= Space /\ \A i \in 1..encoder'.coded : output'[i] = i
    BY <1>0, <1>2, <1>8 DEF InFrame
  <2>2. codecPc' = "failed" <=> encoder'.failed # "no"
    BY <1>2, <1>3, <1>8
  <2>3. encoder'.failed = "space" => encoder'.coded = Space
    BY <1>3, <1>8, <1>13
  <2> QED BY <1>9, <1>10, <1>14, <2>1, <2>2, <2>3 DEF InFrame
<1>16. encoder'.free + Len(encoder'.sent) + Len(encoder'.full) + encoder'.lost = OutBuffers
  <2> DEFINE n == Len(encoder.sent)
  <2>1. n \in Nat /\ encoder.lost \in Nat /\ encoder.free + n + m + encoder.lost = OutBuffers
    BY <1>0, EncoderParts DEF EncoderInv
  <2>2. /\ encoder'.free = encoder.free + 1 /\ Len(encoder'.sent) = n /\ Len(encoder'.full) = m - 1
        /\ encoder'.lost = encoder.lost
    BY <1>4, <1>8
  <2> HIDE DEF n, m
  <2> QED BY <1>3, <1>4, <2>1, <2>2
<1>17. codecPc' \in {"failed", "send"}
  BY <1>2
<1> QED BY <1>7, <1>15, <1>16, <1>17 DEF EncoderInv, CodecPcs, EncodedInPlace

(* Empty buffers behind others. *)
LEMMA EmptyBuffers ==
    ASSUME NEW s \in Seq(Filled), NEW k \in Nat,
           NEW empty, empty = [i \in 1..k |-> [length |-> 0, eos |-> FALSE]]
    PROVE  /\ s \o empty \in Seq(Filled) /\ Len(s \o empty) = Len(s) + k
           /\ Len(s) = 0 => \A i \in DOMAIN (s \o empty) :
                (s \o empty)[i] = [length |-> 0, eos |-> FALSE]
<1>1. [length |-> 0, eos |-> FALSE] \in Filled
  BY DEF Filled
<1>2. empty \in [1..k -> Filled]
  BY <1>1
<1>3. empty \in Seq(Filled) /\ Len(empty) = k
  <2>1. \A S : \A f \in [1..k -> S] : f \in Seq(S) /\ Len(f) = k
    OBVIOUS
  <2> QED BY <1>2, <2>1
<1>4. PICK n \in Nat : n = Len(s)
  OBVIOUS
<1>5. /\ s \o empty \in Seq(Filled) /\ Len(s \o empty) = n + k /\ DOMAIN (s \o empty) = 1..n + k
      /\ \A i \in 1..n + k : (s \o empty)[i] = IF i <= n THEN s[i] ELSE empty[i - n]
  BY <1>3, <1>4, ConcatProperties
<1>6. ASSUME n = 0, NEW i \in 1..n + k
      PROVE  (s \o empty)[i] = [length |-> 0, eos |-> FALSE]
  <2>1. i \in 1..k /\ ~(i <= n) /\ i - n = i
    BY <1>6
  <2>2. (s \o empty)[i] = empty[i]
    BY <1>5, <2>1
  <2> QED BY <2>1, <2>2
<1> QED BY <1>4, <1>5, <1>6

(* With the last one all of the picture is counted, and nothing but empty  *)
(* buffers, fewer than there are, is left for the next frame.              *)
LEMMA EncodedKeeps == EncoderInv /\ Encoded => EncoderInv'
<1> SUFFICES ASSUME EncoderInv, Encoded PROVE EncoderInv'
  OBVIOUS
<1>0. EncoderTyped /\ InFrame /\ codecPc = "encoding"
  BY DEF EncoderInv, Encoded
<1> DEFINE full == encoder.full
           h == Head(full).length
           n == Len(encoder.sent)
<1>1. PICK emptied \in 0..n :
        encoder' = [TakeFull(encoder) EXCEPT
            !.full = @ \o [i \in 1..emptied |-> [length |-> 0, eos |-> FALSE]],
            !.free = @ + Len(encoder.sent) - emptied,
            !.sent = <<>>]
  BY DEF Encoded
<1> DEFINE empty == [i \in 1..emptied |-> [length |-> 0, eos |-> FALSE]]
           left == Tail(full) \o empty
<1>2. full # <<>> /\ Head(full).eos /\ codecPc' = "publish" /\ output' = output
  BY DEF Encoded
<1>3. encoder' = [encoder EXCEPT !.size = @ + h, !.full = left,
                                !.free = (@ + 1) + n - emptied, !.sent = <<>>]
  BY <1>0, <1>1 DEF TakeFull, EncoderTyped
<1>4. /\ full \in Seq(Filled) /\ encoder.free \in Nat /\ n \in Nat /\ emptied \in Nat /\ emptied <= n
      /\ encoder.size \in Nat /\ encoder.coded \in Nat /\ encoder.lost \in Nat
  BY <1>0, EncoderParts
<1>5. /\ h = full[1].length /\ h \in {0, 1} /\ Tail(full) \in Seq(Filled)
      /\ 1 \in DOMAIN full /\ full[1] = Head(full) /\ Len(Tail(full)) = Len(full) - 1
  BY <1>2, <1>4, FilledFacts
<1>6. Len(full) = 1 /\ h = 1
  BY <1>0, <1>2, <1>5 DEF InFrame, LastIsLast
<1>7. /\ left \in Seq(Filled) /\ Len(left) = emptied
      /\ \A i \in DOMAIN left : left[i] = [length |-> 0, eos |-> FALSE]
  <2>1. Len(Tail(full)) = 0
    BY <1>5, <1>6
  <2> DEFINE rest == Tail(full)
  <2>2. rest \in Seq(Filled) /\ Len(rest) = 0 /\ emptied \in Nat
    BY <1>4, <1>5, <2>1
  <2>3. empty = [i \in 1..emptied |-> [length |-> 0, eos |-> FALSE]] /\ left = rest \o empty
    OBVIOUS
  <2> HIDE DEF rest, empty, left, full
  <2>4. /\ rest \o empty \in Seq(Filled) /\ Len(rest \o empty) = Len(rest) + emptied
        /\ Len(rest) = 0 => \A i \in DOMAIN (rest \o empty) :
                (rest \o empty)[i] = [length |-> 0, eos |-> FALSE]
    BY <2>2, <2>3, EmptyBuffers
  <2>5. Len(rest) + emptied = emptied
    BY <2>2
  <2> QED BY <2>2, <2>3, <2>4, <2>5
<1>8. encoder.size + 1 = encoder.coded
  <2>1. PICK a, b \in Nat : QueueOfFrame(a, b)
    BY <1>0 DEF InFrame
  <2>2. /\ a + b <= 1 /\ 1 = IF a < 1 /\ 1 <= a + b THEN 1 ELSE 0
        /\ encoder.size + b = encoder.coded
    BY <1>5, <1>6, <2>1 DEF QueueOfFrame
  <2>3. b = 1
    BY <2>2
  <2> QED BY <2>2, <2>3
<1> HIDE DEF left, h
<1>9. EncoderTyped'
  <2>1. (encoder.free + 1) + n - emptied \in Nat /\ encoder.size + h \in Nat /\ <<>> \in Seq(Nat)
    BY SMTT(40), <1>4, <1>6
  <2>2. left \in Seq(Filled) /\ EncoderTyped /\ output' = output
    BY <1>0, <1>2, <1>7
  <2> HIDE DEF n
  <2> QED BY <1>3, <2>1, <2>2 DEF EncoderTyped
<1>10. /\ encoder'.sent = <<>> /\ encoder'.free = (encoder.free + 1) + n - emptied
       /\ encoder'.full = left /\ encoder'.size = encoder.size + h
       /\ encoder'.coded = encoder.coded /\ encoder'.failed = encoder.failed
       /\ encoder'.lost = encoder.lost
  BY <1>0, <1>3 DEF EncoderTyped
<1>11. encoder.free + n + 1 + encoder.lost = OutBuffers
  BY <1>6 DEF EncoderInv
<1>12. encoder'.free + Len(encoder'.sent) + Len(encoder'.full) + encoder'.lost = OutBuffers
  <2>1. /\ encoder'.free = (encoder.free + 1) + n - emptied /\ Len(encoder'.sent) = 0
        /\ Len(encoder'.full) = emptied /\ encoder'.lost = encoder.lost
    BY <1>7, <1>10
  <2> HIDE DEF n
  <2> QED BY <1>4, <1>11, <2>1
<1>13. BetweenFrames'
  <2>1. emptied < OutBuffers
    BY <1>4, <1>11
  <2> QED BY <1>7, <1>10, <2>1 DEF BetweenFrames
<1>14. EncodedInPlace'
  <2>1. encoder'.size = encoder.coded /\ encoder'.coded = encoder.coded
    BY <1>6, <1>8, <1>10
  <2>2. encoder.failed = "no" /\ encoder'.failed = "no"
    BY <1>0, <1>10 DEF InFrame
  <2>3. \A i \in 1..encoder.coded : output'[i] = i
    BY <1>0, <1>2 DEF InFrame
  <2> QED BY <2>1, <2>2, <2>3 DEF EncodedInPlace
<1> QED BY <1>2, <1>9, <1>12, <1>13, <1>14 DEF EncoderInv, CodecPcs

LEMMA EncodeFailsKeeps == EncoderInv /\ EncodeFails => EncoderInv'
<1> SUFFICES ASSUME EncoderInv, EncodeFails PROVE EncoderInv'
  OBVIOUS
<1>0. EncoderTyped /\ InFrame /\ codecPc' = "failed" /\ output' = output
  BY DEF EncoderInv, EncodeFails
<1>n. encoder.free \in Nat /\ encoder.lost \in Nat
  BY <1>0, EncoderParts
<1>p. encoder.pic \in BOOLEAN
  BY <1>0 DEF EncoderTyped
<1> DEFINE Failing(free, gone, pic) ==
        encoder' = [encoder EXCEPT !.failed = "error", !.free = free, !.lost = gone, !.pic = pic]
<1>f. PICK free \in Nat, gone \in Nat, pic \in BOOLEAN :
        Failing(free, gone, pic) /\ free + gone = encoder.free + encoder.lost
  <2>1. CASE encoder' = [encoder EXCEPT !.failed = "error"]
    <3>1. Failing(encoder.free, encoder.lost, encoder.pic)
      BY <1>0, <2>1 DEF EncoderTyped
    <3> QED BY <1>n, <1>p, <3>1
  <2>2. CASE /\ encoder.free > 0
             /\ encoder' = [encoder EXCEPT !.failed = "error", !.free = @ - 1, !.lost = @ + 1]
    <3>1. Failing(encoder.free - 1, encoder.lost + 1, encoder.pic)
      BY <1>0, <2>2 DEF EncoderTyped
    <3>2. /\ encoder.free - 1 \in Nat /\ encoder.lost + 1 \in Nat
          /\ (encoder.free - 1) + (encoder.lost + 1) = encoder.free + encoder.lost
      BY <1>n, <2>2
    <3> QED BY <1>p, <3>1, <3>2
  <2>3. CASE encoder' = [encoder EXCEPT !.failed = "error", !.pic = FALSE]
    <3>1. Failing(encoder.free, encoder.lost, FALSE)
      BY <1>0, <2>3 DEF EncoderTyped
    <3> QED BY <1>n, <3>1
  <2> QED BY <2>1, <2>2, <2>3 DEF EncodeFails
<1>1. EncoderTyped'
  BY <1>0, <1>f DEF EncoderTyped
<1>2. /\ encoder'.sent = encoder.sent /\ encoder'.next = encoder.next
      /\ encoder'.free = free /\ encoder'.lost = gone /\ encoder'.full = encoder.full
      /\ encoder'.loop = encoder.loop /\ encoder'.size = encoder.size
      /\ encoder'.coded = encoder.coded /\ encoder'.in = encoder.in
      /\ encoder'.failed = "error"
  BY <1>0, <1>f DEF EncoderTyped
<1>3. PlacesInTurn' /\ LastIsLast'
  BY <1>0, <1>2 DEF InFrame, PlacesInTurn, LastIsLast
<1>4. \E a, b \in Nat : QueueOfFrame(a, b)'
  <2>1. PICK a, b \in Nat : QueueOfFrame(a, b)
    BY <1>0 DEF InFrame
  <2>2. QueueOfFrame(a, b)'
    BY <1>2, <2>1 DEF QueueOfFrame
  <2> QED BY <2>2
<1>5. InFrame'
  BY <1>0, <1>2, <1>3, <1>4 DEF InFrame
<1>6. encoder'.free + Len(encoder'.sent) + Len(encoder'.full) + encoder'.lost = OutBuffers
  <2> DEFINE n == Len(encoder.sent) m == Len(encoder.full)
  <2>1. n \in Nat /\ m \in Nat /\ encoder.free + n + m + encoder.lost = OutBuffers
    BY <1>0, EncoderParts DEF EncoderInv
  <2>2. /\ encoder'.free = free /\ Len(encoder'.sent) = n /\ Len(encoder'.full) = m
        /\ encoder'.lost = gone
    BY <1>2
  <2> HIDE DEF n, m
  <2>3. free + n + m + gone = encoder.free + n + m + encoder.lost
    BY <1>n, <1>f, <2>1
  <2> QED BY <2>1, <2>2, <2>3
<1> QED BY <1>0, <1>1, <1>5, <1>6 DEF EncoderInv, CodecPcs, EncodedInPlace

LEMMA DisableKeeps == EncoderInv /\ DisablePorts => EncoderInv'
<1> SUFFICES ASSUME EncoderInv, DisablePorts PROVE EncoderInv'
  OBVIOUS
<1>0. /\ EncoderTyped /\ InFrame /\ codecPc = "failed"
      /\ encoder' = [encoder EXCEPT !.in = FALSE, !.free = OutBuffers - encoder.lost,
                                    !.sent = <<>>, !.full = <<>>]
      /\ codecPc' = "publish" /\ output' = output
  BY DEF EncoderInv, DisablePorts
<1>n. /\ encoder.lost \in Nat /\ OutBuffers - encoder.lost \in Nat
      /\ OutBuffers \in Nat \ {0}
  <2> DEFINE n == Len(encoder.sent) m == Len(encoder.full)
  <2>1. /\ n \in Nat /\ m \in Nat /\ encoder.free \in Nat /\ encoder.lost \in Nat
        /\ encoder.free + n + m + encoder.lost = OutBuffers
    BY <1>0, EncoderParts DEF EncoderInv
  <2> HIDE DEF n, m
  <2> QED BY <2>1, CodecAssumption
<1>1. <<>> \in Seq(Nat) /\ <<>> \in Seq(Filled) /\ Len(<<>>) = 0
  OBVIOUS
<1>2. EncoderTyped'
  BY <1>0, <1>1, <1>n DEF EncoderTyped
<1>3. /\ encoder'.sent = <<>> /\ encoder'.free = OutBuffers - encoder.lost
      /\ encoder'.full = <<>> /\ encoder'.lost = encoder.lost
      /\ encoder'.size = encoder.size /\ encoder'.coded = encoder.coded
      /\ encoder'.failed = encoder.failed
  BY <1>0 DEF EncoderTyped
<1>4. BetweenFrames'
  BY <1>1, <1>n, <1>3 DEF BetweenFrames
<1>5. EncodedInPlace'
  <2>1. encoder.size \in Nat /\ encoder.coded \in Nat /\ encoder.size <= encoder.coded
    BY <1>0, EncoderParts DEF InFrame, QueueOfFrame
  <2>2. \A i \in 1..encoder.size : output[i] = i
    BY <1>0, <2>1 DEF InFrame
  <2>3. encoder.failed # "no" /\ (encoder.failed = "space" => encoder.coded = Space)
    BY <1>0 DEF InFrame
  <2> QED BY <1>0, <1>3, <2>2, <2>3 DEF EncodedInPlace
<1>6. encoder'.free + Len(encoder'.sent) + Len(encoder'.full) + encoder'.lost = OutBuffers
  BY <1>1, <1>n, <1>3
<1> QED BY <1>0, <1>2, <1>4, <1>5, <1>6 DEF EncoderInv, CodecPcs

(* A buffer behind the filled ones. *)
LEMMA OneMoreFilled ==
    ASSUME NEW s \in Seq(Filled), NEW f \in Filled
    PROVE  /\ Append(s, f) \in Seq(Filled) /\ Len(Append(s, f)) = Len(s) + 1
           /\ Len(s) \in Nat /\ DOMAIN s = 1..Len(s) /\ DOMAIN Append(s, f) = 1..Len(s) + 1
           /\ \A i \in 1..Len(s) : Append(s, f)[i] = s[i]
           /\ Append(s, f)[Len(s) + 1] = f
  OBVIOUS

(* The place a chunk goes to is the one after the last chunk's, or there   *)
(* is none left.                                                           *)
LEMMA PlaceAfterLast ==
    ASSUME EncoderTyped, InFrame, encoder.sent # <<>>
    PROVE  /\ Head(encoder.sent) = Lesser(encoder.coded + 1, Space + 1)
           /\ Tail(encoder.sent) \in Seq(Nat)
           /\ Len(encoder.sent) \in Nat \ {0} /\ Len(Tail(encoder.sent)) = Len(encoder.sent) - 1
           /\ \A i \in DOMAIN Tail(encoder.sent) :
                i \in Nat \ {0}
                /\ Tail(encoder.sent)[i] = Lesser(encoder.coded + (i + 1), Space + 1)
           /\ encoder.next = Lesser(encoder.coded + Len(encoder.sent) + 1, Space + 1)
<1> DEFINE sent == encoder.sent
<1>1. /\ \A i \in DOMAIN sent : sent[i] = Lesser(encoder.coded + i, Space + 1)
      /\ encoder.next = Lesser(encoder.coded + Len(sent) + 1, Space + 1)
      /\ sent \in Seq(Nat) /\ sent # <<>>
  BY EncoderParts DEF InFrame, PlacesInTurn
<1> HIDE DEF sent
<1>2. /\ Len(sent) \in Nat \ {0} /\ DOMAIN sent = 1..Len(sent) /\ Head(sent) = sent[1]
      /\ Tail(sent) \in Seq(Nat) /\ Len(Tail(sent)) = Len(sent) - 1
      /\ DOMAIN Tail(sent) = 1..Len(sent) - 1
      /\ \A i \in 1..Len(sent) - 1 : Tail(sent)[i] = sent[i + 1]
  BY <1>1
<1>3. Head(sent) = Lesser(encoder.coded + 1, Space + 1)
  BY <1>1, <1>2
<1>4. ASSUME NEW i \in DOMAIN Tail(sent)
      PROVE  i \in Nat \ {0} /\ Tail(sent)[i] = Lesser(encoder.coded + (i + 1), Space + 1)
  <2>1. i \in 1..Len(sent) - 1 /\ i + 1 \in DOMAIN sent
    BY <1>2
  <2> QED BY <1>1, <1>2, <2>1
<1> QED BY <1>1, <1>2, <1>3, <1>4 DEF sent

(* A chunk goes to the next place, or, the output being full, nothing to   *)
(* a buffer of no length.                                                  *)
LEMMA EncoderRunsKeeps == EncoderInv /\ EncoderRuns => EncoderInv'
<1> SUFFICES ASSUME EncoderInv, EncoderRuns PROVE EncoderInv'
  OBVIOUS
<1> DEFINE place == Head(encoder.sent)
           full == encoder.full
           m == Len(full)
           n == Len(encoder.sent)
           empty == [length |-> 0, eos |-> FALSE]
<1>0. encoder.in /\ encoder.sent # <<>> /\ codecPc' = codecPc
  BY DEF EncoderRuns
<1>1. EncoderTyped /\ InFrame /\ codecPc \in {"send", "encoding", "await encoder", "failed"}
  BY <1>0 DEF EncoderInv, BetweenFrames
<1>q. full \in Seq(Filled) /\ DOMAIN full = 1..m /\ output \in [1..Space -> Nat]
  <2>1. full \in Seq(Filled) /\ output \in [1..Space -> Nat]
    BY <1>1, EncoderParts
  <2> HIDE DEF full
  <2> QED BY <2>1
<1>2. /\ m \in Nat /\ encoder.coded \in Nat /\ encoder.size \in Nat /\ encoder.loop \in Nat
      /\ Space \in Nat /\ OutBuffers \in Nat /\ encoder.free \in Nat /\ encoder.coded <= Space
  <2>1. /\ encoder.coded \in Nat /\ encoder.size \in Nat /\ encoder.loop \in Nat
        /\ encoder.free \in Nat /\ m \in Nat
    BY <1>1, EncoderParts
  <2>2. encoder.coded <= Space
    BY <1>1 DEF InFrame
  <2> QED BY <2>1, <2>2, CodecAssumption
<1>3. /\ place = Lesser(encoder.coded + 1, Space + 1) /\ Tail(encoder.sent) \in Seq(Nat)
      /\ n \in Nat \ {0} /\ Len(Tail(encoder.sent)) = n - 1
      /\ \A i \in DOMAIN Tail(encoder.sent) :
            i \in Nat \ {0}
            /\ Tail(encoder.sent)[i] = Lesser(encoder.coded + (i + 1), Space + 1)
      /\ encoder.next = Lesser(encoder.coded + n + 1, Space + 1)
  BY <1>0, <1>1, PlaceAfterLast
<1>4. \A i \in 1..m : ~full[i].eos
  BY <1>0, <1>1, <1>q DEF InFrame, LastIsLast
<1>5. PICK a, b \in Nat : QueueOfFrame(a, b)
  BY <1>1 DEF InFrame
<1>6. /\ a + b <= m /\ \A i \in 1..m : full[i].length = IF a < i /\ i <= a + b THEN 1 ELSE 0
      /\ encoder.size + b = encoder.coded
      /\ a + b < m => encoder.coded = Space
      /\ a > 0 => encoder.loop + a < OutBuffers
  BY <1>q, <1>5 DEF QueueOfFrame
<1>7. encoder.free + n + m + encoder.lost = OutBuffers /\ encoder.lost \in Nat
  BY <1>1, EncoderParts DEF EncoderInv
<1>8. CASE place > Space
  <2>1. /\ encoder' = [encoder EXCEPT !.sent = Tail(@), !.full = Append(@, empty)]
        /\ output' = output
    BY <1>8 DEF EncoderRuns
  <2>2. encoder.coded = Space
    <3>1. place = Lesser(encoder.coded + 1, Space + 1)
      BY <1>3
    <3> HIDE DEF place
    <3> QED BY <1>2, <1>8, <3>1 DEF Lesser
  <2>3. empty \in Filled /\ empty.length = 0 /\ ~empty.eos
    BY DEF Filled
  <2> HIDE DEF empty, place
  <2>4. /\ Append(full, empty) \in Seq(Filled) /\ Len(Append(full, empty)) = m + 1
        /\ DOMAIN Append(full, empty) = 1..m + 1
        /\ \A i \in 1..m : Append(full, empty)[i] = full[i]
        /\ Append(full, empty)[m + 1] = empty
    BY <1>q, <2>3, OneMoreFilled
  <2>5. EncoderTyped'
    BY <1>1, <1>3, <2>1, <2>4 DEF EncoderTyped
  <2>6. /\ encoder'.sent = Tail(encoder.sent) /\ encoder'.next = encoder.next
        /\ encoder'.free = encoder.free /\ encoder'.full = Append(full, empty)
        /\ encoder'.loop = encoder.loop /\ encoder'.size = encoder.size
        /\ encoder'.coded = encoder.coded /\ encoder'.failed = encoder.failed
        /\ encoder'.in = encoder.in /\ encoder'.lost = encoder.lost
    BY <1>1, <2>1 DEF EncoderTyped
  <2>7. PlacesInTurn'
    <3>1. ASSUME NEW i \in DOMAIN Tail(encoder.sent)
          PROVE  Tail(encoder.sent)[i] = Lesser(encoder.coded + i, Space + 1)
      BY <1>2, <1>3, <2>2 DEF Lesser
    <3>2. encoder.next = Lesser(encoder.coded + (n - 1) + 1, Space + 1)
      BY <1>2, <1>3, <2>2 DEF Lesser
    <3> QED BY <1>3, <2>6, <3>1, <3>2 DEF PlacesInTurn
  <2>8. \A i \in 1..m + 1 : ~Append(full, empty)[i].eos
    <3>1. ASSUME NEW i \in 1..m + 1
          PROVE  i \in 1..m \/ i = m + 1
      BY <1>2
    <3> QED BY <1>4, <2>3, <2>4, <3>1
  <2>9. LastIsLast'
    BY <2>4, <2>6, <2>8 DEF LastIsLast
  <2>10. QueueOfFrame(a, b)'
    <3>1. ASSUME NEW i \in 1..m + 1
          PROVE  Append(full, empty)[i].length = IF a < i /\ i <= a + b THEN 1 ELSE 0
      <4>1. CASE i \in 1..m
        BY <1>6, <2>4, <4>1
      <4>2. CASE i = m + 1
        <5>1. Append(full, empty)[i].length = 0
          BY <2>3, <2>4, <4>2
        <5>2. ~(i <= a + b)
          BY <1>2, <1>6, <4>2
        <5> QED BY <5>1, <5>2
      <4>3. i \in 1..m \/ i = m + 1
        BY <1>2
      <4> QED BY <4>1, <4>2, <4>3
    <3>2. a + b <= m + 1
      BY <1>2, <1>6
    <3> HIDE DEF m, full
    <3> QED BY <1>6, <2>2, <2>4, <2>6, <3>1, <3>2 DEF QueueOfFrame
  <2>11. InFrame'
    <3>1. \E c, d \in Nat : QueueOfFrame(c, d)'
      BY <2>10
    <3> QED BY <1>0, <1>1, <2>1, <2>6, <2>7, <2>9, <3>1 DEF InFrame
  <2>12. encoder'.free + Len(encoder'.sent) + Len(encoder'.full) + encoder'.lost = OutBuffers
    <3>1. /\ encoder'.free = encoder.free /\ Len(encoder'.sent) = n - 1
          /\ Len(encoder'.full) = m + 1 /\ n \in Nat /\ encoder'.lost = encoder.lost
      BY <1>3, <2>4, <2>6
    <3> HIDE DEF n, m
    <3>2. encoder.free \in Nat /\ m \in Nat /\ n \in Nat
      BY <1>2, <3>1
    <3>3. encoder.free + (n - 1) + (m + 1) + encoder.lost = encoder.free + n + m + encoder.lost
      BY <1>7, <3>2
    <3> QED BY <1>7, <3>1, <3>3
  <2> QED BY <1>0, <1>1, <2>5, <2>11, <2>12 DEF EncoderInv, CodecPcs, EncodedInPlace
<1>9. CASE ~(place > Space)
  <2>1. PICK last \in BOOLEAN :
        /\ output' = [output EXCEPT ![place] = encoder.coded + 1]
        /\ encoder' = [encoder EXCEPT !.sent = Tail(@), !.coded = @ + 1, !.in = ~last,
                    !.full = Append(@, [length |-> 1, eos |-> last])]
    BY <1>9 DEF EncoderRuns
  <2> DEFINE chunk == [length |-> 1, eos |-> last]
             c == encoder.coded + 1
  <2>2. place = c /\ c \in 1..Space
    <3>1. place = Lesser(encoder.coded + 1, Space + 1)
      BY <1>3
    <3> HIDE DEF place
    <3> QED BY <1>2, <1>9, <3>1 DEF Lesser
  <2>3. chunk \in Filled /\ chunk.length = 1 /\ chunk.eos = last
    BY DEF Filled
  <2>4. /\ encoder' = [encoder EXCEPT !.sent = Tail(@), !.coded = c, !.in = ~last,
                                      !.full = Append(@, chunk)]
        /\ output' = [output EXCEPT ![c] = c]
    BY <1>1, <2>1, <2>2 DEF EncoderTyped
  <2> HIDE DEF chunk, place
  <2>5. /\ Append(full, chunk) \in Seq(Filled) /\ Len(Append(full, chunk)) = m + 1
        /\ DOMAIN Append(full, chunk) = 1..m + 1
        /\ \A i \in 1..m : Append(full, chunk)[i] = full[i]
        /\ Append(full, chunk)[m + 1] = chunk
    BY <1>q, <2>3, OneMoreFilled
  <2>6. EncoderTyped'
    <3>1. c \in Nat /\ output' \in [1..Space -> Nat]
      BY <1>q, <1>2, <2>2, <2>4
    <3> HIDE DEF c
    <3> QED BY <1>1, <1>3, <2>4, <2>5, <3>1 DEF EncoderTyped
  <2>7. /\ encoder'.sent = Tail(encoder.sent) /\ encoder'.next = encoder.next
        /\ encoder'.free = encoder.free /\ encoder'.full = Append(full, chunk)
        /\ encoder'.loop = encoder.loop /\ encoder'.size = encoder.size
        /\ encoder'.coded = c /\ encoder'.failed = encoder.failed
        /\ (encoder'.in <=> ~last) /\ encoder'.lost = encoder.lost
    BY <1>1, <2>4 DEF EncoderTyped
  <2>8. PlacesInTurn'
    <3>1. ASSUME NEW i \in DOMAIN Tail(encoder.sent)
          PROVE  Tail(encoder.sent)[i] = Lesser(c + i, Space + 1)
      <4>1. i \in Nat /\ Tail(encoder.sent)[i] = Lesser(encoder.coded + (i + 1), Space + 1)
        BY <1>3
      <4>2. encoder.coded + (i + 1) = c + i
        <5>1. i \in Nat
          BY <4>1
        <5> QED BY SMTT(40), <1>2, <5>1
      <4> QED BY <4>1, <4>2
    <3>2. c + (n - 1) + 1 = encoder.coded + n + 1
      BY <1>2, <1>3
    <3>3. encoder.next = Lesser(c + (n - 1) + 1, Space + 1)
      BY <1>3, <3>2
    <3> HIDE DEF c
    <3> QED BY <1>3, <2>7, <3>1, <3>3 DEF PlacesInTurn
  <2>9. LastIsLast'
    <3>1. ASSUME NEW i \in 1..m + 1, Append(full, chunk)[i].eos
          PROVE  i = m + 1 /\ Append(full, chunk)[i].length = 1 /\ last /\ c > 0
      <4>1. i \in 1..m \/ i = m + 1
        BY <1>2
      <4>2. i = m + 1
        BY <1>4, <2>5, <3>1, <4>1
      <4> QED BY <2>2, <2>3, <2>5, <3>1, <4>2
    <3> QED BY <2>5, <2>7, <3>1 DEF LastIsLast
  <2>10. QueueOfFrame(a, b + 1)'
    <3>0. a + b <= m /\ encoder.size + b = encoder.coded /\ (a + b < m => encoder.coded = Space)
      BY <1>6
    <3>1. a + b = m
      <4>1. c <= Space
        BY <2>2
      <4> HIDE DEF m
      <4> QED BY <1>2, <3>0, <4>1
    <3>2. ASSUME NEW i \in 1..m + 1
          PROVE  Append(full, chunk)[i].length = IF a < i /\ i <= a + (b + 1) THEN 1 ELSE 0
      <4>1. CASE i \in 1..m
        <5>1. Append(full, chunk)[i].length = IF a < i /\ i <= a + b THEN 1 ELSE 0
          BY <1>6, <2>5, <4>1
        <5>2. i <= a + b /\ i <= a + (b + 1)
          BY <1>2, <3>1, <4>1
        <5> QED BY <5>1, <5>2
      <4>2. CASE i = m + 1
        <5>1. Append(full, chunk)[i].length = 1
          BY <2>3, <2>5, <4>2
        <5>2. a < i /\ i <= a + (b + 1)
          BY <1>2, <3>1, <4>2
        <5> QED BY <5>1, <5>2
      <4>3. i \in 1..m \/ i = m + 1
        BY <1>2
      <4> QED BY <4>1, <4>2, <4>3
    <3>3. /\ a + (b + 1) <= m + 1 /\ ~(a + (b + 1) < m + 1)
          /\ encoder.size + (b + 1) = c
      <4> HIDE DEF m
      <4> QED BY <1>2, <3>0, <3>1
    <3> HIDE DEF m, full, c
    <3> QED BY <1>6, <2>5, <2>7, <3>2, <3>3 DEF QueueOfFrame
  <2>11. InFrame'
    <3>1. \E x, y \in Nat : QueueOfFrame(x, y)'
      <4>1. b + 1 \in Nat
        OBVIOUS
      <4> QED BY <2>10, <4>1
    <3>2. c <= Space /\ \A i \in 1..c : output'[i] = i
      <4>1. \A i \in 1..encoder.coded : output[i] = i
        BY <1>1 DEF InFrame
      <4>2. output'[c] = c /\ \A i \in 1..encoder.coded : output'[i] = output[i]
        BY <1>q, <1>2, <2>2, <2>4
      <4>3. c <= Space /\ \A i \in 1..c : i \in 1..encoder.coded \/ i = c
        BY <1>2, <2>2
      <4> HIDE DEF c
      <4> QED BY <4>1, <4>2, <4>3
    <3>3. ~(encoder.failed = "space")
      <4>1. encoder.coded # Space
        BY <1>2, <2>2
      <4> QED BY <1>1, <4>1 DEF InFrame
    <3>4. codecPc' = "failed" <=> encoder'.failed # "no"
      BY <1>0, <1>1, <2>7 DEF InFrame
    <3> QED BY <2>7, <2>8, <2>9, <3>1, <3>2, <3>3, <3>4 DEF InFrame
  <2>12. encoder'.free + Len(encoder'.sent) + Len(encoder'.full) + encoder'.lost = OutBuffers
    <3>1. /\ encoder'.free = encoder.free /\ Len(encoder'.sent) = n - 1
          /\ Len(encoder'.full) = m + 1 /\ n \in Nat /\ encoder'.lost = encoder.lost
      BY <1>3, <2>5, <2>7
    <3> HIDE DEF n, m
    <3>2. encoder.free \in Nat /\ m \in Nat /\ n \in Nat
      BY <1>2, <3>1
    <3>3. encoder.free + (n - 1) + (m + 1) + encoder.lost = encoder.free + n + m + encoder.lost
      BY <1>7, <3>2
    <3> QED BY <1>7, <3>1, <3>3
  <2> QED BY <1>0, <1>1, <2>6, <2>11, <2>12 DEF EncoderInv, CodecPcs, EncodedInPlace
<1> QED BY <1>8, <1>9

(* Steps that leave the encoder alone. *)
LEMMA SameEncoder ==
    ASSUME EncoderInv, encoder' = encoder, output' = output, codecPc' \in CodecPcs,
           codecPc \in {"send", "encoding", "await encoder", "failed"} =>
                /\ codecPc' \in {"send", "encoding", "await encoder", "failed"}
                /\ (codecPc = "failed" <=> codecPc' = "failed"),
           codecPc' \in {"send", "encoding", "await encoder", "failed"} =>
                codecPc \in {"send", "encoding", "await encoder", "failed"},
           codecPc' = "publish" => codecPc = "publish"
    PROVE  EncoderInv'
<1>1. InFrame /\ (codecPc' = "failed" <=> codecPc = "failed") => InFrame'
  BY DEF InFrame, PlacesInTurn, LastIsLast, QueueOfFrame
<1>2. BetweenFrames => BetweenFrames'
  BY DEF BetweenFrames
<1>3. EncoderTyped' /\ EncodedInPlace'
  BY DEF EncoderInv, EncoderTyped, EncodedInPlace
<1>4. encoder'.free + Len(encoder'.sent) + Len(encoder'.full) + encoder'.lost = OutBuffers
  BY DEF EncoderInv
<1>5. CASE codecPc \in {"send", "encoding", "await encoder", "failed"}
  BY <1>1, <1>3, <1>4, <1>5 DEF EncoderInv
<1>6. CASE codecPc \notin {"send", "encoding", "await encoder", "failed"}
  BY <1>2, <1>3, <1>4, <1>6 DEF EncoderInv
<1> QED BY <1>5, <1>6

LEMMA EncoderKeeps == EncoderInv /\ [CodecNext]_codecVars => EncoderInv'
<1> SUFFICES ASSUME EncoderInv, [CodecNext]_codecVars PROVE EncoderInv'
  OBVIOUS
<1>1. CASE Decoded \/ DecodeFails
  BY <1>1, BeginEncodeKeeps DEF Decoded, DecodeFails
<1>2. CASE /\ UNCHANGED <<encoder, output>>
           /\ [BeginDecode \/ FeedDecoder \/ NothingDecoded \/ AwaitDecoder \/ FormatChanged
               \/ NothingEncoded \/ AwaitEncoder \/ PublishEncoded \/ DecoderRuns]_codecVars
  <2>1. codecPc \in CodecPcs
    BY DEF EncoderInv
  <2>2. /\ codecPc' \in CodecPcs
        /\ \/ codecPc' = codecPc
           \/ {codecPc, codecPc'} \subseteq {"idle", "feed", "decoding", "await decoder"}
           \/ {codecPc, codecPc'} \subseteq {"send", "encoding", "await encoder"}
           \/ codecPc = "publish" /\ codecPc' = "idle"
    BY <1>2, <2>1
       DEF BeginDecode, FeedDecoder, NothingDecoded, AwaitDecoder, FormatChanged, NothingEncoded,
           AwaitEncoder, PublishEncoded, DecoderRuns, codecVars, CodecPcs
  <2> QED BY <1>2, <2>2, SameEncoder
<1> QED BY <1>1, <1>2, SendKeeps, TakeKeeps, EncodedKeeps, EncodeFailsKeeps, DisableKeeps,
           EncoderRunsKeeps
        DEF CodecNext, Convert, CodecFails, Mmal, codecVars, BeginDecode, FeedDecoder,
            NothingDecoded, AwaitDecoder, FormatChanged, NothingEncoded, AwaitEncoder,
            PublishEncoded, DecoderRuns

(* brcmjpeg_encode and brcmjpeg_decode: for every number of buffers, of    *)
(* chunks in a frame and of chunks the output holds, and whatever fails,   *)
(* each buffer of the two ports is in one place, or lost to a failed       *)
(* mmal_port_send_buffer: no other exit costs a pool one, nor gives it one *)
(* twice.                                                                  *)
THEOREM BuffersStayAccounted == CodecSpec => []PortBuffersAccounted
<1>1. CodecInv => PortBuffersAccounted
  BY DEF CodecInv, DecoderInv, EncoderInv, PortBuffersAccounted
<1>2. CodecInv /\ [CodecNext]_codecVars => CodecInv'
  BY DecoderKeeps, EncoderKeeps DEF CodecInv
<1> QED BY <1>1, <1>2, CodecInitially, PTL DEF CodecSpec

(* brcmjpeg_encode: what is published is a gapless beginning of the        *)
(* frame's encoding, all of it unless something failed, and the output is  *)
(* said to be full only when it is.                                        *)
THEOREM EncodedWithoutGap == CodecSpec => []EncodedInPlace
<1>1. CodecInv => EncodedInPlace
  BY DEF CodecInv, EncoderInv
<1>2. CodecInv /\ [CodecNext]_codecVars => CodecInv'
  BY DecoderKeeps, EncoderKeeps DEF CodecInv
<1> QED BY <1>1, <1>2, CodecInitially, PTL DEF CodecSpec

-----------------------------------------------------------------------------
(* Startup *)

(* How far the main thread is. *)
Past(functions) == mainPc \notin functions \union {"exited"}

MainOrder ==
    /\ Past({"camera_driver_init"}) => {"_cam", "_listeners"} \subseteq ready
    /\ build = "rpi" /\ Past({"camera_driver_init", "am2320_task_init"}) => "_data_lock" \in ready
    /\ sensor => "_data_lock" \in ready
    /\ build = "rpi" /\ Past({"camera_driver_init", "am2320_task_init", "frame_converter_init"})
        => "converter" \in ready
    /\ mainPc = "completion_wait" => "bootup_complete" \in ready
    /\ mainPc \in {"cli_init", "camera_driver_start", "running"} => "_io_driver" \in ready

(* The web thread runs only while or after the main thread waits for it. *)
WebOrder ==
    /\ mainPc \in {"camera_driver_init", "am2320_task_init", "frame_converter_init", "webserver_init"}
        => webPc = "none"
    /\ webPc \in {"init", "bind", "protocol", "signal", "never"}
        => mainPc \in {"completion_wait", "exited"} /\ (mainPc = "completion_wait" => posts = 0)
    /\ mainPc = "completion_wait" =>
        webPc \in {"init", "bind", "protocol", "signal", "never", "poll"}
    /\ posts \in Nat
    /\ webPc \in {"bind", "protocol", "signal", "poll"} => "_mongoose_mgr" \in ready
    /\ webPc \in {"signal", "poll"} => "protocol" \in ready
    /\ mainPc \in {"io_driver_init", "cli_init", "camera_driver_start", "running"} => webPc = "poll"

StartupInv == build \in {"rpi", "desktop"} /\ MainOrder /\ WebOrder /\ NothingUsedUnready

LEMMA StartupInitially == StartupInit => StartupInv
<1> SUFFICES ASSUME StartupInit PROVE StartupInv
  OBVIOUS
<1>1. /\ mainPc = "camera_driver_init" /\ webPc = "none" /\ ~sensor /\ posts = 0 /\ astray = {}
      /\ build \in {"rpi", "desktop"}
  BY BuildsAssumption DEF StartupInit
<1>2. MainOrder
  BY <1>1 DEF MainOrder, Past
<1>3. WebOrder
  BY <1>1 DEF WebOrder
<1>4. NothingUsedUnready
  BY <1>1 DEF NothingUsedUnready
<1> QED BY <1>1, <1>2, <1>3, <1>4 DEF StartupInv

LEMMA MainThreadKeeps == StartupInv /\ MainThread => StartupInv'
<1> SUFFICES ASSUME StartupInv, MainThread PROVE StartupInv'
  OBVIOUS
<1> USE DEF StartupInv, MainOrder, WebOrder, NothingUsedUnready, Past, MainTo, Uses
<1>1. CASE CameraDriverInit
  BY <1>1 DEF CameraDriverInit
<1>2. CASE Am2320TaskInit
  BY <1>2 DEF Am2320TaskInit
<1>3. CASE FrameConverterInit
  BY <1>3 DEF FrameConverterInit
<1>4. CASE WebserverInit
  BY <1>4 DEF WebserverInit
<1>5. CASE WaitForWeb
  <2>1. webPc = "poll" /\ mainPc = "completion_wait"
    BY <1>5 DEF WaitForWeb
  <2>2. posts' \in Nat
    BY <1>5 DEF WaitForWeb
  <2> QED BY <1>5, <2>1, <2>2 DEF WaitForWeb
<1>6. CASE IoDriverInit
  BY <1>6 DEF IoDriverInit
<1>7. CASE CliInit
  BY <1>7 DEF CliInit
<1>8. CASE CameraDriverStart
  BY <1>8 DEF CameraDriverStart
<1>9. CASE FrameCaptured
  BY <1>9 DEF FrameCaptured
<1> QED BY <1>1, <1>2, <1>3, <1>4, <1>5, <1>6, <1>7, <1>8, <1>9 DEF MainThread

LEMMA WebThreadKeeps == StartupInv /\ WebThread => StartupInv'
<1> SUFFICES ASSUME StartupInv, WebThread PROVE StartupInv'
  OBVIOUS
<1> USE DEF StartupInv, MainOrder, WebOrder, NothingUsedUnready, Past, WebTo, Uses
<1>1. CASE MgrInit
  BY <1>1 DEF MgrInit
<1>2. CASE Bind
  BY <1>2 DEF Bind
<1>3. CASE SetProtocol
  BY <1>3 DEF SetProtocol
<1>4. CASE SignalMain
  <2>1. mainPc = "completion_wait" /\ posts' \in Nat
    BY <1>4 DEF SignalMain
  <2> QED BY <1>4, <2>1 DEF SignalMain
<1>5. CASE MgrPoll
  BY <1>5 DEF MgrPoll
<1> QED BY <1>1, <1>2, <1>3, <1>4, <1>5 DEF WebThread

LEMMA StartupStep == StartupInv /\ [StartupNext]_startVars => StartupInv'
<1> SUFFICES ASSUME StartupInv, [StartupNext]_startVars PROVE StartupInv'
  OBVIOUS
<1>1. CASE MainThread
  BY <1>1, MainThreadKeeps
<1>2. CASE WebThread
  BY <1>2, WebThreadKeeps
<1>3. CASE SensorPublishes
  BY <1>3 DEF SensorPublishes, Uses, StartupInv, MainOrder, WebOrder, NothingUsedUnready, Past
<1>4. CASE UNCHANGED startVars
  BY <1>4 DEF startVars, StartupInv, MainOrder, WebOrder, NothingUsedUnready, Past
<1> QED BY <1>1, <1>2, <1>3, <1>4 DEF StartupNext

(* main: whatever order the three threads run in and whichever init call   *)
(* fails, each step finds what it uses initialised (a codec apart): the    *)
(* main thread waits at completion_wait until the manager is there, and    *)
(* the web thread signals before the completion is gone from the stack.    *)
THEOREM StartedInOrder == StartupSpec => []NothingUsedUnready
<1>1. StartupInv => NothingUsedUnready
  BY DEF StartupInv
<1> QED BY <1>1, StartupInitially, StartupStep, PTL DEF StartupSpec

-----------------------------------------------------------------------------
(* CameraControls *)

Own == {"brightness", "saturation", "hflip"}

ControlsInv ==
    /\ register \in [Registers -> Values]
    /\ wanted \in [Controls -> Values \union {NoValue}]
    /\ \A c \in Own : wanted[c] # NoValue => register[SetRegister(c)] = wanted[c]
    /\ ControlsReadBack

LEMMA NumberIsAValue == ASSUME NEW w PROVE Number(w) \in Values
  BY ControlsAssumption DEF Number

LEMMA ControlsInitially == ControlsInit => ControlsInv
<1> SUFFICES ASSUME ControlsInit PROVE ControlsInv
  OBVIOUS
<1>1. \A c \in Controls : wanted[c] = NoValue
  BY DEF ControlsInit
<1>2. wanted \in [Controls -> Values \union {NoValue}] /\ register \in [Registers -> Values]
  BY DEF ControlsInit
<1>3. \A c \in Own : wanted[c] # NoValue => register[SetRegister(c)] = wanted[c]
  BY <1>1 DEF Own, Controls
<1>4. reply.kind # "value"
  BY DEF ControlsInit
<1>5. ControlsReadBack
  BY <1>4 DEF ControlsReadBack
<1> QED BY <1>2, <1>3, <1>5 DEF ControlsInv

(* Setting a control changes the register of no other one of the three.    *)
LEMMA SettingKeeps ==
    ASSUME ControlsInv, NEW c \in Controls, NEW v \in Values, SetControl(c, v)
    PROVE  /\ register' \in [Registers -> Values]
           /\ wanted' \in [Controls -> Values \union {NoValue}]
           /\ \A d \in Own : wanted'[d] # NoValue => register'[SetRegister(d)] = wanted'[d]
<1>1. CASE UNCHANGED <<register, wanted>>
  BY <1>1 DEF ControlsInv
<1>2. CASE /\ SetRegister(c) # NoRegister
           /\ register' = [register EXCEPT ![SetRegister(c)] = v]
           /\ wanted' = [wanted EXCEPT ![c] = v]
  <2>1. SetRegister(c) \in Registers
    BY <1>2 DEF SetRegister, Controls, Registers, NoRegister
  <2>2. /\ register' \in [Registers -> Values]
        /\ wanted' \in [Controls -> Values \union {NoValue}]
    BY <1>2, <2>1 DEF ControlsInv
  <2>3. ASSUME NEW d \in Own, wanted'[d] # NoValue
        PROVE  register'[SetRegister(d)] = wanted'[d]
    <3>1. d \in Controls /\ SetRegister(d) \in Registers
      BY DEF Own, Controls, SetRegister, Registers
    <3>2. CASE d = c
      BY <1>2, <2>1, <3>1, <3>2 DEF ControlsInv
    <3>3. CASE d # c
      <4>1. SetRegister(d) # SetRegister(c)
        BY <1>2, <3>3 DEF Own, Controls, SetRegister, NoRegister
      <4>2. wanted'[d] = wanted[d] /\ register'[SetRegister(d)] = register[SetRegister(d)]
        BY <1>2, <2>1, <3>1, <3>3, <4>1 DEF ControlsInv
      <4> QED BY <2>3, <4>2 DEF ControlsInv
    <3> QED BY <3>2, <3>3
  <2> QED BY <2>2, <2>3
<1> QED BY <1>1, <1>2 DEF SetControl

LEMMA ControlsStep == ControlsInv /\ [ControlsNext]_controlVars => ControlsInv'
<1> SUFFICES ASSUME ControlsInv, [ControlsNext]_controlVars PROVE ControlsInv'
  OBVIOUS
<1>1. CASE UNCHANGED controlVars
  BY <1>1 DEF ControlsInv, controlVars, ControlsReadBack
<1>2. ASSUME NEW argv \in Lines, Execute(argv)
      PROVE  ControlsInv'
  <2>1. CASE reply'.kind # "value" /\ UNCHANGED <<register, wanted>>
    BY <2>1 DEF ControlsInv, ControlsReadBack
  <2>2. CASE /\ Valid(argv)
             /\ \E v \in GetControl(argv[3]) :
                    reply' = [kind |-> "value", control |-> argv[3], value |-> v]
             /\ UNCHANGED <<register, wanted>>
    <3> DEFINE c == argv[3]
    <3>1. PICK v \in GetControl(c) : reply' = [kind |-> "value", control |-> c, value |-> v]
      BY <2>2
    <3>2. reply'.control = c /\ reply'.value = v
      BY <3>1
    <3>3. ASSUME c \in Own, wanted[c] # NoValue
          PROVE  v \in {-1, wanted[c]}
      <4>1. GetRegister(c) = SetRegister(c) /\ GetRegister(c) # NoRegister
        BY <3>3 DEF Own, GetRegister, SetRegister, NoRegister
      <4> QED BY <3>1, <3>3, <4>1 DEF GetControl, ControlsInv
    <3>4. ControlsReadBack'
      BY <2>2, <3>2, <3>3 DEF ControlsReadBack, Own
    <3> QED BY <2>2, <3>4 DEF ControlsInv
  <2>3. CASE /\ Valid(argv) /\ SetControl(argv[3], Number(argv[4]))
             /\ reply' = [kind |-> "set", control |-> argv[3]]
    <3>1. reply'.kind = "set"
      BY <2>3
    <3>2. ControlsReadBack'
      BY <3>1 DEF ControlsReadBack
    <3> QED BY <2>3, <3>2, NumberIsAValue, SettingKeeps DEF ControlsInv, Valid
  <2>4. /\ reply' = [kind |-> "too many arguments"] => reply'.kind # "value"
        /\ reply' = [kind |-> "unknown command"] => reply'.kind # "value"
        /\ reply' = [kind |-> "invalid syntax"] => reply'.kind # "value"
    <3>1. ASSUME NEW k, reply' = [kind |-> k]
          PROVE  reply'.kind = k
      BY <3>1
    <3> QED BY <3>1
  <2>5. \/ reply'.kind # "value" /\ UNCHANGED <<register, wanted>>
        \/ Valid(argv) /\ argv[2] = "get" /\ Execute(argv)
        \/ Valid(argv) /\ argv[2] # "get" /\ Execute(argv)
    BY <1>2, <2>4 DEF Execute
  <2>6. CASE Valid(argv) /\ argv[2] = "get" /\ Execute(argv)
    BY <2>1, <2>2, <2>4, <2>6 DEF Execute
  <2>7. CASE Valid(argv) /\ argv[2] # "get" /\ Execute(argv)
    BY <2>1, <2>3, <2>4, <2>7 DEF Execute
  <2> QED BY <2>1, <2>5, <2>6, <2>7
<1> QED BY <1>1, <1>2 DEF ControlsNext

(* camera_driver_set_control, _get_control: for the three controls with a  *)
(* register of their own, `control get` prints what `control set` last     *)
(* set, or -1, whatever numbers the command line may hold and however many *)
(* words it takes.                                                         *)
THEOREM ControlReadsBack == ControlsSpec => []ControlsReadBack
<1>1. ControlsInv => ControlsReadBack
  BY DEF ControlsInv
<1> QED BY <1>1, ControlsInitially, ControlsStep, PTL DEF ControlsSpec

-----------------------------------------------------------------------------
(* SensorData, for whatever am2321 may return. *)

SensorTypes ==
    /\ sensorPc \in {"sleep", "opened", "got", "locked", "stored"}
    /\ tempPc \in {"no", "locked", "half", "print"}
    /\ lockedBy \in {"nobody", "sensor", "main"}

(* _data_lock is held by the thread that is between its lock and unlock. *)
LockHeld ==
    /\ lockedBy = "sensor" <=> sensorPc \in {"locked", "stored"}
    /\ lockedBy = "main" <=> tempPc \in {"locked", "half"}

AnyReading == Outcomes \union {<<0, 0>>}

(* A reading is whole in the sensor thread's own variables, in the shared  *)
(* ones unless that thread is between its two stores, and in those of the  *)
(* command once it has copied both.                                        *)
SensorInv ==
    /\ SensorTypes
    /\ LockHeld
    /\ sensorPc \in {"got", "locked", "stored"} => <<readTemp, readHumi>> \in AnyReading
    /\ sensorPc # "stored" => <<temp, humi>> \in AnyReading
    /\ sensorPc = "stored" => temp = readTemp
    /\ tempPc = "half" => shownTemp = temp
    /\ tempPc = "print" => <<shownTemp, shownHumi>> \in AnyReading

LEMMA SensorInitially == Am2320Init => SensorInv
BY DEF Am2320Init, SensorInv, SensorTypes, LockHeld, AnyReading

LEMMA OutcomesArePairs ==
  ASSUME NEW pair \in Outcomes
  PROVE  pair = <<pair[1], pair[2]>>
BY OutcomesAssumption

LEMMA SensorStep == SensorInv /\ [Am2320Next]_sensorVars => SensorInv'
<1> SUFFICES ASSUME SensorInv, [Am2320Next]_sensorVars PROVE SensorInv'
  OBVIOUS
<1>0. AnyReading' = AnyReading
  BY DEF AnyReading
<1> USE DEF SensorInv, SensorTypes, LockHeld
<1>1. CASE UNCHANGED sensorVars
  BY <1>0, <1>1 DEF sensorVars
<1>2. CASE OpenDevice
  BY <1>0, <1>2 DEF OpenDevice
<1>3. CASE ReadFails
  BY <1>0, <1>3 DEF ReadFails
<1>4. CASE ReadSensor
  <2>1. PICK pair \in Outcomes : readTemp' = pair[1] /\ readHumi' = pair[2]
    BY <1>4 DEF ReadSensor
  <2>2. pair = <<pair[1], pair[2]>>
    BY OutcomesArePairs
  <2>3. <<readTemp', readHumi'>> \in AnyReading
    <3>1. <<readTemp', readHumi'>> = pair
      BY <2>1, <2>2
    <3> QED BY <3>1 DEF AnyReading
  <2> QED BY <1>4, <2>3, <1>0 DEF ReadSensor
<1>5. CASE LockData
  BY <1>0, <1>5 DEF LockData
<1>6. CASE StoreTemp
  BY <1>0, <1>6 DEF StoreTemp
<1>7. CASE StoreHumi
  BY <1>0, <1>7 DEF StoreHumi
<1>8. CASE TempCommand
  BY <1>0, <1>8 DEF TempCommand
<1>9. CASE CopyTemp
  BY <1>0, <1>9 DEF CopyTemp
<1>10. CASE CopyHumi
  BY <1>0, <1>10 DEF CopyHumi
<1>11. CASE PrintTemp
  BY <1>0, <1>11 DEF PrintTemp
<1> QED BY <1>1, <1>2, <1>3, <1>4, <1>5, <1>6, <1>7, <1>8, <1>9, <1>10, <1>11
           DEF Am2320Next, SensorThread, TempThread

(* am2320_task, am2320_task_get_data: what the command prints is one       *)
(* return of am2321, or the zeros that are there before the first: never   *)
(* the temperature of one and the humidity of another.  Whether a return   *)
(* is a measurement is a matter of the checksum alone; that it has the     *)
(* measurement's sign is not claimed.                                      *)
THEOREM OneReadingPrinted ==
    /\ Am2320Spec => [](tempPc = "print" => <<shownTemp, shownHumi>> \in AnyReading)
    /\ (\A out \in Outcomes : \E r \in Measured : PrintedFor(out[1], out[2], r))
         => (Am2320Spec => []PrintsOneReading)
<1>1. SensorInv => (tempPc = "print" => <<shownTemp, shownHumi>> \in AnyReading)
  BY DEF SensorInv
<1>2. Am2320Spec => []SensorInv
  BY SensorInitially, SensorStep, PTL DEF Am2320Spec
<1>3. Am2320Spec => [](tempPc = "print" => <<shownTemp, shownHumi>> \in AnyReading)
  BY <1>1, <1>2, PTL
<1>4. ASSUME \A out \in Outcomes : \E r \in Measured : PrintedFor(out[1], out[2], r)
      PROVE  Am2320Spec => []PrintsOneReading
  <2>1. \A out \in AnyReading : \E r \in Measured : PrintedFor(out[1], out[2], r)
    <3>1. <<0, 0>> \in Measured /\ PrintedFor(0, 0, <<0, 0>>)
      BY DEF Measured, PrintedFor
    <3> QED BY <1>4, <3>1 DEF AnyReading
  <2>2. SensorInv => PrintsOneReading
    <3> SUFFICES ASSUME SensorInv, tempPc = "print"
                 PROVE  \E r \in Measured : PrintedFor(shownTemp, shownHumi, r)
      BY DEF PrintsOneReading
    <3>1. PICK out \in AnyReading : out = <<shownTemp, shownHumi>>
      BY <1>1
    <3>2. out[1] = shownTemp /\ out[2] = shownHumi
      BY <3>1
    <3> QED BY <2>1, <3>2
  <2> QED BY <2>2, <1>2, PTL
<1> QED BY <1>3, <1>4
=============================================================================

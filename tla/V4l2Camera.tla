----------------------------- MODULE V4l2Camera -----------------------------
(***************************************************************************)
(* Capture from a V4L2 device (main/v4l2_camera.c).                        *)
(*                                                                         *)
(* The program asks for BufferCount buffers, maps them, queues all and     *)
(* turns the stream on.  The kernel fills queued buffers; each capture     *)
(* takes the oldest filled one (VIDIOC_DQBUF), copies it to cam->head and  *)
(* queues it again (VIDIOC_QBUF).  The kernel goes on filling the other    *)
(* buffers meanwhile.  Any ioctl may fail; failures after start-up are     *)
(* counted and bounded by MaxFaults.                                       *)
(***************************************************************************)
EXTENDS Integers, Sequences, FiniteSets

CONSTANTS
    BufferCount,    \* cam->buffer_count
    MaxGranted,     \* bound: req.count as VIDIOC_REQBUFS returns it
    BufferSizes,    \* buf.length as VIDIOC_QUERYBUF returns it
    FrameIds,       \* bound: frames are numbered 1..FrameIds, over and over
    MaxFaults       \* bound: ioctls that fail once the stream was started

ASSUME CameraAssumption ==
    /\ BufferCount \in Nat \ {0} /\ MaxGranted \in Nat
    /\ BufferSizes \subseteq Nat
    /\ FrameIds \in Nat \ {0} /\ MaxFaults \in Nat

Buffers == 0..BufferCount - 1   \* the indices the program uses
Frames == 1..FrameIds
NoFrame == 0
NoBuffer == -1

VARIABLES
    camPhase,   \* "closed", "mapping", "open", "running", "exited", "crashed";
                \* "overrun": the heap is overwritten, anything may follow
    lens,       \* lens[b]: the length of the buffer mapped at index b
    headSize,   \* buf_max, then the size of the block at cam->head.start
    queued,     \* the kernel's: buffers it may fill
    done,       \* the kernel's: filled buffers, oldest first
    content,    \* content[b]: the frame in the memory of buffer b
    streaming,  \* VIDIOC_STREAMON has succeeded
    nextFrame,  \* the frame the sensor takes next
    held,       \* the buffer v4l2_camera_capture has dequeued
    headFrame,  \* the frame in cam->head
    lost,       \* history: dequeued buffers VIDIOC_QBUF did not take back
    newest,     \* history: the frame of the buffer last dequeued
    faults      \* bound: the failures so far

deviceVars == <<queued, done, content, streaming, nextFrame>>
openVars == <<lens, headSize>>
v4l2Vars == <<camPhase, lens, headSize, queued, done, content, streaming,
              nextFrame, held, headFrame, lost, newest, faults>>

V4l2Init ==
    /\ camPhase = "closed"
    /\ lens = <<>> /\ headSize = 0
    /\ queued = {} /\ done = <<>> /\ streaming = FALSE
    /\ content = [b \in Buffers |-> NoFrame]
    /\ nextFrame = 1
    /\ held = NoBuffer /\ headFrame = NoFrame
    /\ lost = {} /\ newest = NoFrame /\ faults = 0

Elements(seq) == {seq[i] : i \in DOMAIN seq}

(* An ioctl fails. *)
Fault == faults < MaxFaults /\ faults' = faults + 1

-----------------------------------------------------------------------------
(* v4l2_camera_open *)

(* v4l2_camera_init up to the first loop over cam->buffers.  The driver    *)
(* may grant another number of buffers than it was asked for: the array    *)
(* has that many elements, the loop writes MAP_FAILED to buffer_count.     *)
(* With fewer granted it writes past the block.  What the program does     *)
(* then is undefined (v4l2_camera_close reads past the block too, unmaps   *)
(* what it finds there and frees it): no step is given and nothing claimed.*)
RequestBuffers ==
    /\ camPhase = "closed"
    /\ \E granted \in 0..MaxGranted :
         camPhase' = IF granted < BufferCount THEN "overrun" ELSE "mapping"
    /\ UNCHANGED <<held, headFrame, lost, newest, faults>>
    /\ UNCHANGED openVars /\ UNCHANGED deviceVars

(* One turn of the loop over cam->buffer_count: VIDIOC_QUERYBUF and mmap.  *)
(* The loop done, cam->head.start is allocated with the longest length.    *)
MapBuffer ==
    /\ camPhase = "mapping"
    /\ LET i == Cardinality(DOMAIN lens) IN
        /\ \E size \in BufferSizes :
            /\ lens' = [b \in 0..i |-> IF b = i THEN size ELSE lens[b]]
            /\ headSize' = IF size > headSize THEN size ELSE headSize
        /\ camPhase' = IF i + 1 = BufferCount THEN "open" ELSE "mapping"
    /\ UNCHANGED <<held, headFrame, lost, newest, faults>>
    /\ UNCHANGED deviceVars

(* An ioctl or mmap fails, the array having room for every buffer:         *)
(* v4l2_camera_close unmaps what was mapped and camera_driver_init exits.  *)
OpenFails ==
    /\ camPhase \in {"closed", "mapping"}
    /\ camPhase' = "exited"
    /\ lens' = <<>> /\ headSize' = 0
    /\ UNCHANGED <<held, headFrame, lost, newest, faults>>
    /\ UNCHANGED deviceVars

-----------------------------------------------------------------------------
(* The kernel: the stream is on and a buffer queued; it is filled. *)
Fill ==
    /\ streaming
    /\ \E b \in queued :
        /\ queued' = queued \ {b}
        /\ done' = Append(done, b)
        /\ content' = [content EXCEPT ![b] = nextFrame]
    /\ nextFrame' = IF nextFrame = FrameIds THEN 1 ELSE nextFrame + 1
    /\ UNCHANGED <<streaming, camPhase, held, headFrame, lost, newest, faults>>
    /\ UNCHANGED openVars

(* What select reports: a filled buffer, or an error (POLLERR counts as    *)
(* readable) while the stream is off.                                      *)
Readable == done # <<>> \/ ~streaming

-----------------------------------------------------------------------------
(* v4l2_camera_start: queue the buffers in turn, then VIDIOC_STREAMON; the *)
(* first failure ends it, the n buffers before it being queued.  A buffer  *)
(* the driver still has is refused.                                        *)
StartStream ==
    LET had == queued \union Elements(done) IN
    \/ /\ had = {}
       /\ queued' = Buffers
       /\ streaming' = TRUE
       /\ lost' = {}
       /\ UNCHANGED <<done, faults>>
    \/ /\ \E n \in 0..BufferCount :
            /\ (0..n - 1) \intersect had = {}
            /\ IF n \in had THEN UNCHANGED faults ELSE Fault
            /\ queued' = queued \union (0..n - 1)
            /\ lost' = lost \ (0..n - 1)
       /\ UNCHANGED <<done, streaming>>

(* v4l2_camera_stop: VIDIOC_STREAMOFF takes every buffer from the driver.  *)
StopStream ==
    \/ queued' = {} /\ done' = <<>> /\ streaming' = FALSE /\ UNCHANGED faults
    \/ Fault /\ UNCHANGED <<queued, done, streaming>>

(* v4l2_camera_capture *)

Dequeue ==
    /\ done # <<>>
    /\ held' = Head(done)
    /\ done' = Tail(done)
    /\ newest' = content[Head(done)]
    /\ UNCHANGED <<queued, content, streaming, nextFrame, camPhase, headFrame, lost, faults>>
    /\ UNCHANGED openVars

(* VIDIOC_DQBUF fails: with no filled buffer for certain. *)
DequeueFails ==
    /\ IF streaming THEN Fault ELSE UNCHANGED faults
    /\ UNCHANGED <<camPhase, held, headFrame, lost, newest>>
    /\ UNCHANGED openVars
    /\ UNCHANGED deviceVars

Copy ==
    /\ headFrame' = content[held]
    /\ UNCHANGED <<camPhase, held, lost, newest, faults>>
    /\ UNCHANGED openVars
    /\ UNCHANGED deviceVars

Requeue ==
    /\ held' = NoBuffer
    /\ \/ queued' = queued \union {held} /\ UNCHANGED <<lost, faults>>
       \/ Fault /\ lost' = lost \union {held} /\ UNCHANGED queued
    /\ UNCHANGED <<done, content, streaming, nextFrame, camPhase, headFrame, newest>>
    /\ UNCHANGED openVars
=============================================================================

---------------------------- MODULE CameraDriver ----------------------------
(***************************************************************************)
(* The camera driver (main/camera_driver.c) above V4l2Camera: the          *)
(* callback of the camera's watcher, run by the main thread's select loop, *)
(* and the listeners a frame goes to.  Of the one-second timer only its    *)
(* set-up is here: the frames it counts are shown and used for nothing.    *)
(*                                                                         *)
(* camera_capture_callback ignores what v4l2_camera_capture returns, and   *)
(* camera_driver_start what v4l2_camera_start returns: after a failure     *)
(* listeners are given the frame cam->head held before.                    *)
(***************************************************************************)
EXTENDS V4l2Camera

VARIABLES
    capturing,  \* camera_capture_callback: "no", "dequeued", "copied", "deliver"
    watched,    \* _cam_watcher listens
    timer,      \* _timerfd_watcher: "unset", "set", or "stdin": descriptor 0
                \* and no callback, what init_timerfd leaves when it fails
    seen        \* the frame listeners were given last

driverVars == <<capturing, watched, timer, seen>>
cameraVars == <<v4l2Vars, driverVars>>

CameraInit ==
    /\ V4l2Init
    /\ capturing = "no" /\ watched = FALSE /\ timer = "unset"
    /\ seen = NoFrame

-----------------------------------------------------------------------------
(* camera_driver_init *)
OpenCamera ==
    /\ RequestBuffers \/ MapBuffer \/ OpenFails
    /\ UNCHANGED driverVars

(* init_timerfd, the camera being open. *)
InitTimer ==
    /\ camPhase = "open"
    /\ timer = "unset"
    /\ timer' \in {"set", "stdin"}
    /\ UNCHANGED <<capturing, watched, seen>>
    /\ UNCHANGED v4l2Vars

(* camera_driver_start: both watchers are listed before the stream is on,  *)
(* and stay so when v4l2_camera_start fails.                               *)
StartCamera ==
    /\ camPhase \in {"open", "running"}
    /\ timer # "unset"
    /\ capturing = "no" /\ ~watched
    /\ watched' = TRUE
    /\ camPhase' = "running"
    /\ StartStream
    /\ UNCHANGED <<content, nextFrame, held, headFrame, newest>>
    /\ UNCHANGED openVars
    /\ UNCHANGED <<capturing, timer, seen>>

(* camera_driver_stop; nothing in the program calls it.  The timer's       *)
(* watcher stays listed.                                                   *)
StopCamera ==
    /\ camPhase = "running"
    /\ capturing = "no" /\ watched
    /\ watched' = FALSE
    /\ StopStream
    /\ UNCHANGED <<content, nextFrame, camPhase, held, headFrame, lost, newest>>
    /\ UNCHANGED openVars
    /\ UNCHANGED <<capturing, timer, seen>>

-----------------------------------------------------------------------------
(* camera_capture_callback: v4l2_camera_capture in its steps, then the     *)
(* listeners are called.                                                   *)

BeginCapture ==
    /\ camPhase = "running" /\ watched /\ capturing = "no" /\ Readable
    /\ \/ Dequeue /\ capturing' = "dequeued"
       \/ DequeueFails /\ capturing' = "deliver"
    /\ UNCHANGED <<watched, timer, seen>>

CopyHeadLate ==     \* mutant: the buffer is queued again before it is copied
    /\ capturing = "dequeued"
    /\ held \in Buffers
    /\ \/ /\ held \notin queued \union Elements(done)
          /\ queued' = queued \union {held}
          /\ capturing' = "dequeued"
          /\ UNCHANGED <<done, content, streaming, nextFrame>>
          /\ UNCHANGED <<camPhase, held, headFrame, lost, newest, faults, lens, headSize>>
       \/ /\ held \in queued \union Elements(done)
          /\ headFrame' = content[held]
          /\ held' = NoBuffer
          /\ capturing' = "deliver"
          /\ UNCHANGED <<camPhase, lost, newest, faults, lens, headSize>>
          /\ UNCHANGED deviceVars
    /\ UNCHANGED <<watched, timer, seen>>

CopyHead ==
    /\ capturing = "dequeued"
    /\ Copy
    /\ capturing' = "copied"
    /\ UNCHANGED <<watched, timer, seen>>

RequeueForgotten == \* mutant: the frame copied, the buffer is not queued
    /\ capturing = "copied"
    /\ held' = NoBuffer
    /\ capturing' = "deliver"
    /\ UNCHANGED <<headFrame, camPhase, lost, newest, faults, lens, headSize>>
    /\ UNCHANGED deviceVars
    /\ UNCHANGED <<watched, timer, seen>>

RequeueBuffer ==
    /\ capturing = "copied"
    /\ Requeue
    /\ capturing' = "deliver"
    /\ UNCHANGED <<watched, timer, seen>>

Deliver ==
    /\ capturing = "deliver"
    /\ capturing' = "no"
    /\ seen' = headFrame
    /\ UNCHANGED <<watched, timer>>
    /\ UNCHANGED v4l2Vars

(* The watcher of a timer that could not be set up has descriptor 0: when  *)
(* there is input on it the select loop calls a null pointer.              *)
StdinReadable ==
    /\ camPhase = "running" /\ timer = "stdin" /\ capturing = "no"
    /\ camPhase' = "crashed"
    /\ UNCHANGED <<lens, headSize, held, headFrame, lost, newest, faults>>
    /\ UNCHANGED deviceVars /\ UNCHANGED driverVars

KernelFills ==
    /\ camPhase # "crashed"
    /\ Fill
    /\ UNCHANGED driverVars

CaptureCallback == BeginCapture \/ CopyHead \/ RequeueBuffer \/ Deliver

CameraNext ==
    \/ OpenCamera \/ InitTimer \/ StartCamera \/ StopCamera
    \/ CaptureCallback \/ StdinReadable
    \/ KernelFills

(* The sensor goes on as long as it has a buffer, and the select loop      *)
(* calls the watcher of a readable descriptor.                             *)
CameraFairness == WF_cameraVars(KernelFills) /\ WF_cameraVars(CaptureCallback)

CameraSpec == CameraInit /\ [][CameraNext]_cameraVars /\ CameraFairness
-----------------------------------------------------------------------------
(* Properties. *)

(* Every variable has its type. *)
CameraTypeOK ==
    /\ camPhase \in {"closed", "mapping", "open", "running", "exited", "crashed", "overrun"}
    /\ headSize \in Nat
    /\ \E n \in 0..BufferCount : lens \in [0..n - 1 -> BufferSizes]
    /\ queued \subseteq Buffers /\ done \in Seq(Buffers)
    /\ content \in [Buffers -> Frames \union {NoFrame}]
    /\ streaming \in BOOLEAN /\ nextFrame \in Frames
    /\ held \in Buffers \union {NoBuffer}
    /\ {headFrame, newest, seen} \subseteq Frames \union {NoFrame}
    /\ lost \subseteq Buffers /\ faults \in 0..MaxFaults
    /\ capturing \in {"no", "dequeued", "copied", "deliver"}
    /\ watched \in BOOLEAN /\ timer \in {"unset", "set", "stdin"}

(* While the stream is on every buffer is in one place: queued, filled, in *)
(* the hands of v4l2_camera_capture, or lost because VIDIOC_QBUF refused   *)
(* it; none is forgotten by the program and none queued twice.             *)
BuffersAccounted ==
    streaming =>
        /\ queued \union Elements(done) \union lost \union ({held} \ {NoBuffer}) = Buffers
        /\ Cardinality(queued) + Len(done) + Cardinality(lost)
             + Cardinality({held} \ {NoBuffer}) = BufferCount

(* Once at least as many buffers are granted as were asked for (with fewer *)
(* v4l2_camera_open overruns the heap): cam->head holds the frame of the   *)
(* buffer dequeued last, whole, although the kernel fills buffers while it *)
(* is copied and buffers may have different lengths; and listeners have    *)
(* been given it before the next is dequeued.  After a failed capture they *)
(* are given the same frame again.                                         *)
HeadIsNewest ==
    /\ capturing = "dequeued" => held \in DOMAIN lens /\ lens[held] <= headSize
    /\ capturing \in {"copied", "deliver"} => headFrame = newest
    /\ capturing = "no" => seen = newest

(* As long as one buffer is not lost and the timer was set up, listeners   *)
(* are given another frame.                                                *)
CaptureGoesOn ==
    \A f \in Frames \union {NoFrame} :
        (camPhase = "running" /\ timer = "set" /\ watched /\ streaming /\ seen = f)
            ~> (seen # f \/ ~watched \/ lost = Buffers)
=============================================================================

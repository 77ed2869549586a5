------------------------------ MODULE Startup ------------------------------
(***************************************************************************)
(* The program's start (main in main/main.c and the init functions it      *)
(* calls): the main thread, the web thread it waits for by a completion on *)
(* its own stack, and on a Raspberry Pi the sensor thread, which nobody    *)
(* waits for.                                                              *)
(*                                                                         *)
(* ready is what has been initialised.  A step that uses something that is *)
(* not leaves it in astray.                                                *)
(***************************************************************************)
EXTENDS Integers

CONSTANTS Builds    \* "rpi", "desktop": with RPI and USE_FRAME_CONVERTER, or not

ASSUME BuildsAssumption == Builds \subseteq {"rpi", "desktop"}

VARIABLES
    build,
    mainPc,     \* the function the main thread calls next, "running", "exited"
    webPc,      \* the web thread: "none", "never", "init", "bind", "protocol",
                \* "signal", "poll"
    sensor,     \* the sensor thread runs
    ready,
    posts,      \* bootup_complete.wait
    astray      \* history

startVars == <<build, mainPc, webPc, sensor, ready, posts, astray>>

StartupInit ==
    /\ build \in Builds
    /\ mainPc = "camera_driver_init" /\ webPc = "none" /\ sensor = FALSE
    /\ ready = {} /\ posts = 0 /\ astray = {}

Uses(things) == astray' = astray \union (things \ ready)

MainTo(here, there) == mainPc = here /\ mainPc' = there

CameraDriverInit ==
    /\ \/ /\ MainTo("camera_driver_init", "am2320_task_init")
          /\ ready' = ready \union {"_cam", "_listeners"}
       \/ MainTo("camera_driver_init", "exited") /\ UNCHANGED ready
    /\ UNCHANGED <<build, webPc, sensor, posts, astray>>

(* pthread_create may fail; nobody looks. *)
Am2320TaskInit ==
    /\ MainTo("am2320_task_init", "frame_converter_init")
    /\ IF build = "rpi" THEN ready' = ready \union {"_data_lock"} /\ sensor' \in BOOLEAN
                        ELSE UNCHANGED <<ready, sensor>>
    /\ UNCHANGED <<build, webPc, posts, astray>>

(* camera_driver_listen, brcmjpeg_encode_init: a codec that could not be   *)
(* set up is released again, and _encoder or _decoder stays null.          *)
FrameConverterInit ==
    /\ MainTo("frame_converter_init", "webserver_init")
    /\ IF build = "rpi"
       THEN /\ Uses({"_listeners"})
            /\ \E codec \in {{}, {"codec"}} : ready' = ready \union {"converter"} \union codec
       ELSE UNCHANGED <<ready, astray>>
    /\ UNCHANGED <<build, webPc, sensor, posts>>

WebserverInit ==
    /\ MainTo("webserver_init", "completion_wait")
    /\ Uses({IF build = "rpi" THEN "converter" ELSE "_listeners"})
    /\ ready' = ready \union {"bootup_complete"}
    /\ posts' = 0
    /\ webPc' \in {"init", "never"}
    /\ UNCHANGED <<build, sensor>>

WaitNot ==  \* mutant: the main thread does not wait for the web thread
    /\ MainTo("completion_wait", "io_driver_init")
    /\ Uses({"bootup_complete"})
    /\ ready' = ready \ {"bootup_complete"}
    /\ UNCHANGED <<build, webPc, sensor, posts>>

(* completion_wait and completion_deinit; the stack frame goes with it. *)
WaitForWeb ==
    /\ posts > 0
    /\ MainTo("completion_wait", "io_driver_init")
    /\ Uses({"bootup_complete"})
    /\ posts' = posts - 1
    /\ ready' = ready \ {"bootup_complete"}
    /\ UNCHANGED <<build, webPc, sensor>>

IoDriverInit ==
    /\ MainTo("io_driver_init", "cli_init")
    /\ ready' = ready \union {"_io_driver"}
    /\ UNCHANGED <<build, webPc, sensor, posts, astray>>

CliInit ==
    /\ MainTo("cli_init", "camera_driver_start")
    /\ Uses({"_io_driver"})
    /\ ready' = ready \union {"cli"}
    /\ UNCHANGED <<build, webPc, sensor, posts>>

CameraDriverStart ==
    /\ MainTo("camera_driver_start", "running")
    /\ Uses({"_io_driver", "_cam"})
    /\ UNCHANGED <<build, webPc, sensor, ready, posts>>

(* io_driver_run: a frame is captured, converted on a Raspberry Pi, with   *)
(* the sensor's data in the overlay, and broadcast.                        *)
FrameCaptured ==
    /\ MainTo("running", "running")
    /\ Uses({"_cam", "_listeners", "_mongoose_mgr"}
            \union (IF build = "rpi" THEN {"converter", "codec", "_data_lock"} ELSE {}))
    /\ UNCHANGED <<build, webPc, sensor, ready, posts>>

MainThread ==
    \/ CameraDriverInit \/ Am2320TaskInit \/ FrameConverterInit \/ WebserverInit \/ WaitForWeb
    \/ IoDriverInit \/ CliInit \/ CameraDriverStart \/ FrameCaptured

(* __webserver_thread *)
WebTo(here, there) == mainPc # "exited" /\ webPc = here /\ webPc' = there

MgrInit ==
    /\ WebTo("init", "bind")
    /\ ready' = ready \union {"_mongoose_mgr"}
    /\ UNCHANGED <<build, mainPc, sensor, posts, astray>>

Bind ==
    /\ WebTo("bind", "protocol")
    /\ mainPc' \in {mainPc, "exited"}   \* exit(-1) when the port is taken
    /\ Uses({"_mongoose_mgr"})
    /\ UNCHANGED <<build, sensor, ready, posts>>

SetProtocol ==
    /\ WebTo("protocol", "signal")
    /\ ready' = ready \union {"protocol"}
    /\ UNCHANGED <<build, mainPc, sensor, posts, astray>>

SignalMain ==
    /\ WebTo("signal", "poll")
    /\ Uses({"bootup_complete"})
    /\ posts' = posts + 1
    /\ UNCHANGED <<build, mainPc, sensor, ready>>

(* A request is answered. *)
MgrPoll ==
    /\ WebTo("poll", "poll")
    /\ Uses({"_mongoose_mgr", "protocol"})
    /\ UNCHANGED <<build, mainPc, sensor, ready, posts>>

WebThread == MgrInit \/ Bind \/ SetProtocol \/ SignalMain \/ MgrPoll

SensorPublishes ==
    /\ mainPc # "exited" /\ sensor
    /\ Uses({"_data_lock"})
    /\ UNCHANGED <<build, mainPc, webPc, sensor, ready, posts>>

StartupNext == MainThread \/ WebThread \/ SensorPublishes

(* Both threads are scheduled. *)
StartupFairness == WF_startVars(MainThread) /\ WF_startVars(WebThread)

StartupSpec == StartupInit /\ [][StartupNext]_startVars /\ StartupFairness

-----------------------------------------------------------------------------
(* Properties. *)

(* Whatever order the threads run in, nothing is used before it is         *)
(* initialised nor after it is gone: not the manager the main thread       *)
(* broadcasts with, nor the completion on its stack.  (The exception is a  *)
(* codec that failed to initialise: the first frame crashes then.)         *)
NothingUsedUnready == astray \subseteq {"codec"}
=============================================================================

----------------------------- MODULE MCDevices ------------------------------
(***************************************************************************)
(* The components that share nothing with one another, side by side in one *)
(* run: a behaviour is one of the component named by part, and the others  *)
(* stay as they were initialised.                                          *)
(***************************************************************************)
EXTENDS CameraDriver, CameraControls, MCSensor, CliServer, JpegCodec, Startup, HttpServe

VARIABLE part

(* Every kind of request, for files longer than the send window. *)
MCRequestKinds ==
    {Whole(what, 0) : what \in Named} \cup
    {Whole("file", 5),
     [Whole("file", 5) EXCEPT !.range = [from |-> 2, to |-> 3]],
     [Whole("file", 5) EXCEPT !.range = [from |-> 1, to |-> ToEnd], !.keep = FALSE],
     [Whole("file", 5) EXCEPT !.range = [from |-> 2, to |-> 7]],
     [Whole("file", 5) EXCEPT !.fresh = TRUE],
     [Whole("file", 5) EXCEPT !.method = "OPTIONS"],
     [Whole("file", 2) EXCEPT !.method = "POST", !.body = 2],
     [Whole("file", 2) EXCEPT !.method = "POST", !.chunks = <<2, 1, 0>>]}

Parts == {"camera", "controls", "sensor", "server", "codec", "startup", "http"}

allVars == <<part, cameraVars, controlVars, sensorVars, serverVars, codecVars, startVars,
             httpVars>>

AllInit ==
    /\ part \in Parts
    /\ CameraInit /\ ControlsInit /\ Am2320Init /\ ServerInit /\ CodecInit /\ StartupInit /\ HttpInit
    /\ \A r \in Registers : register[r] = 0
    /\ part # "startup" => build = "rpi"

Only(p) ==
    /\ part = p /\ part' = p
    /\ p # "camera" => UNCHANGED cameraVars
    /\ p # "controls" => UNCHANGED controlVars
    /\ p # "sensor" => UNCHANGED sensorVars
    /\ p # "server" => UNCHANGED serverVars
    /\ p # "codec" => UNCHANGED codecVars
    /\ p # "startup" => UNCHANGED startVars
    /\ p # "http" => UNCHANGED httpVars

AllNext ==
    \/ Only("camera") /\ CameraNext
    \/ Only("controls") /\ ControlsNext
    \/ Only("sensor") /\ Am2320Next
    \/ Only("server") /\ ServerNext
    \/ Only("codec") /\ CodecNext
    \/ Only("startup") /\ StartupNext
    \/ Only("http") /\ HttpNext

(* What each component's specification assumes of its scheduling. *)
AllFairness ==
    /\ WF_allVars(Only("camera") /\ KernelFills) /\ WF_allVars(Only("camera") /\ CaptureCallback)
    /\ WF_allVars(Only("server") /\ AcceptClient)
    /\ WF_allVars(Only("codec") /\ Convert)
    /\ WF_allVars(Only("codec") /\ DecoderRuns) /\ WF_allVars(Only("codec") /\ EncoderRuns)
    /\ WF_allVars(Only("http") /\ ConnTurn)

AllSpec == AllInit /\ [][AllNext]_allVars /\ AllFairness
=============================================================================

--------------------------- MODULE CameraControls ---------------------------
(***************************************************************************)
(* The `control` command of the telnet command line, from the words of the *)
(* line (utils/cli.c, main/main.c) through camera_driver_set_control and   *)
(* camera_driver_get_control to the ioctls of main/v4l2_camera.c.          *)
(*                                                                         *)
(* Two of the six controls do not do what they are named for:              *)
(* v4l2_camera_set_exposure sets the hue, and the JPEG quality calls pass  *)
(* one v4l2_ext_control where the kernel reads a v4l2_ext_controls, which  *)
(* then holds no control at all: nothing is set, and 0 is read.            *)
(***************************************************************************)
EXTENDS Integers, Sequences

CONSTANTS
    Values,     \* numbers on a command line
    MaxArgs     \* CLI_COMMAND_MAX_ARGS

ASSUME ControlsAssumption == Values \subseteq Nat /\ 0 \in Values /\ MaxArgs \in Nat

Controls == {"brightness", "saturation", "hue", "exposure", "hflip", "jpg_quality"}
Registers == {"BRIGHTNESS", "SATURATION", "HUE", "EXPOSURE", "HFLIP"}
NoRegister == "none"
NoValue == -1

VARIABLES
    register,   \* register[r]: what the camera has for control id r
    reply,      \* what the last command printed
    wanted      \* history: the value last set for a control, if any

controlVars == <<register, reply, wanted>>

ControlsInit ==
    /\ register \in [Registers -> Values]
    /\ reply = [kind |-> "none"]
    /\ wanted = [c \in Controls |-> NoValue]

SetRegisterCopied(c) == \* mutant: all copied from the first
    IF c = "jpg_quality" THEN NoRegister ELSE "BRIGHTNESS"

(* V4L2_CID_... of the set functions and of the get functions. *)
SetRegister(c) ==
    CASE c = "brightness"  -> "BRIGHTNESS"
      [] c = "saturation"  -> "SATURATION"
      [] c = "hue"         -> "HUE"
      [] c = "exposure"    -> "HUE"
      [] c = "hflip"       -> "HFLIP"
      [] c = "jpg_quality" -> NoRegister

GetRegister(c) ==
    CASE c = "brightness"  -> "BRIGHTNESS"
      [] c = "saturation"  -> "SATURATION"
      [] c = "hue"         -> "HUE"
      [] c = "exposure"    -> "EXPOSURE"
      [] c = "hflip"       -> "HFLIP"
      [] c = "jpg_quality" -> NoRegister

(* camera_driver_set_control; its result is ignored.  The ioctl may fail.  *)
SetControl(c, v) ==
    \/ /\ SetRegister(c) # NoRegister
       /\ register' = [register EXCEPT ![SetRegister(c)] = v]
       /\ wanted' = [wanted EXCEPT ![c] = v]
    \/ UNCHANGED <<register, wanted>>

(* camera_driver_get_control: -1 when the ioctl fails. *)
GetControl(c) == {-1, IF GetRegister(c) = NoRegister THEN 0 ELSE register[GetRegister(c)]}

-----------------------------------------------------------------------------
(* The words of a line that starts with `control`, and one that does not. *)
Number(w) == IF w \in Values THEN w ELSE 0       \* atoi

Lines ==
    LET Verbs == {"get", "set", "other"}
        Names == Controls \union {"other"}
    IN  {<<"other">>, <<"control">>, <<"control", "set">>}
        \union {<<"control", v, n>> : v \in Verbs, n \in Names}
        \union {<<"control", "set", n, x>> : n \in Names, x \in Values \union {-2}}   \* -2: no number
        \union {<<"control", v, "hue", 1, 0>> : v \in Verbs}
        \union {<<"control", v, "hue", 1, 0, 0>> : v \in Verbs}

(* What cli_command_cam_control takes for good syntax. *)
Valid(argv) ==
    /\ Len(argv) >= 3
    /\ argv[2] = "get" \/ (argv[2] = "set" /\ Len(argv) = 4)
    /\ argv[3] \in Controls

(* cli_execute_command and cli_command_cam_control.  A word too many is    *)
(* refused before anything is looked up; an error changes no register.     *)
Execute(argv) ==
    \/ /\ Len(argv) > MaxArgs
       /\ reply' = [kind |-> "too many arguments"]
       /\ UNCHANGED <<register, wanted>>
    \/ /\ Len(argv) <= MaxArgs /\ argv[1] # "control"
       /\ reply' = [kind |-> "unknown command"]
       /\ UNCHANGED <<register, wanted>>
    \/ /\ Len(argv) <= MaxArgs /\ argv[1] = "control" /\ ~Valid(argv)
       /\ reply' = [kind |-> "invalid syntax"]
       /\ UNCHANGED <<register, wanted>>
    \/ /\ Len(argv) <= MaxArgs /\ argv[1] = "control" /\ Valid(argv)
       /\ IF argv[2] = "get"
          THEN /\ \E v \in GetControl(argv[3]) :
                    reply' = [kind |-> "value", control |-> argv[3], value |-> v]
               /\ UNCHANGED <<register, wanted>>
          ELSE /\ SetControl(argv[3], Number(argv[4]))
               /\ reply' = [kind |-> "set", control |-> argv[3]]

ControlsNext == \E argv \in Lines : Execute(argv)

ControlsSpec == ControlsInit /\ [][ControlsNext]_controlVars

-----------------------------------------------------------------------------
(* A control that was set reads back as it was last set, or as -1 if the   *)
(* ioctl fails, whatever else was set in between, for the three controls   *)
(* that have a register of their own.                                      *)
ControlsReadBack ==
    reply.kind = "value" /\ reply.control \in {"brightness", "saturation", "hflip"} =>
        reply.value \in {-1, wanted[reply.control]} \/ wanted[reply.control] = NoValue
=============================================================================

---------------------------- MODULE MCStructures ----------------------------
(***************************************************************************)
(* The data structures of utils/, side by side in one run: a behaviour is  *)
(* one of the structure named by part, and the others stay as they were    *)
(* initialised.                                                            *)
(*                                                                         *)
(* Arrays of 1 and 3 bytes; calls of up to one byte more than they hold,   *)
(* so that a copy can wrap, fill the array exactly, and not fit.  A wheel  *)
(* of two buckets and a tick that wraps after two turns, timeouts of none, *)
(* one, two and minus one tick.  Two lists and three entries.              *)
(***************************************************************************)
EXTENDS CircBuffer, SoftTimer, GenericList

CONSTANTS a, b
MCData == {a, b}
MCSizes == {1, 3}
MCRequests == 1..4
MCTimeouts == {0, 1, 4, -2}

VARIABLE part

Parts == {"circ_buffer", "soft_timer", "generic_list"}

allVars == <<part, vars, timerVars, pointerVars>>

AllInit ==
    /\ part \in Parts
    /\ Init /\ TimerInit /\ ListInit
    /\ part # "circ_buffer" => size = 0

Only(p) ==
    /\ part = p /\ part' = p
    /\ p # "circ_buffer" => UNCHANGED vars
    /\ p # "soft_timer" => UNCHANGED timerVars
    /\ p # "generic_list" => UNCHANGED pointerVars

AllNext ==
    \/ Only("circ_buffer") /\ Next
    \/ Only("soft_timer") /\ TimerNext
    \/ Only("generic_list") /\ ListNext

AllSpec == AllInit /\ [][AllNext]_allVars /\ WF_allVars(Only("soft_timer") /\ TimerDrive)
=============================================================================

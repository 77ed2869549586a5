----------------------------- MODULE MCIoDriver -----------------------------
(***************************************************************************)
(* The select loop and a stream on it, side by side in one run: a behaviour*)
(* is one of the component named by part, and the other stays as it was    *)
(* initialised.                                                            *)
(*                                                                         *)
(* Three watchers: the one being called, one it removes and one behind     *)
(* that.  Three descriptors let all three be listed at once, and a new     *)
(* watcher take a removed one's descriptor.  The stream is MCStream's.     *)
(***************************************************************************)
EXTENDS IoDriver, MCStream, TLC

CONSTANTS w1, w2, w3

MCWatchers == {w1, w2, w3}

(* A stream's watcher, which may wait for room to write too, and two that  *)
(* only ever wait for input.                                               *)
MCListenable == w1 :> {"RX", "TX"} @@ [w \in {w2, w3} |-> {"RX"}]

VARIABLE part

allVars == <<part, ioVars, vars>>

AllInit == part \in {"io_driver", "stream"} /\ IoInit /\ Init

Only(p) ==
    /\ part = p /\ part' = p
    /\ p # "io_driver" => UNCHANGED ioVars
    /\ p # "stream" => UNCHANGED vars

AllNext ==
    \/ Only("io_driver") /\ IoNext
    \/ Only("stream") /\ Next

(* What each component's specification assumes of its scheduling. *)
AllSpec ==
    /\ AllInit /\ [][AllNext]_allVars
    /\ WF_allVars(Only("io_driver") /\ Round)
    /\ WF_allVars(Only("stream") /\ StreamTurn)
=============================================================================

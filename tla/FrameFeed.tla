----------------------------- MODULE FrameFeed -----------------------------
(***************************************************************************)
(* What the live camera feed promises its HTTP clients, with no threads,   *)
(* buffers or sockets in it.  Frames are published one after the other;    *)
(* from the moment a client subscribes until it leaves it is handed every  *)
(* published frame exactly once, in order, and each one whole.             *)
(* CamFeed is shown to implement this specification.                       *)
(***************************************************************************)
EXTENDS Naturals, Sequences

CONSTANTS
    Conns,      \* the client connections
    Frames,     \* the captured frames
    Parts       \* the pieces a frame is copied in

VARIABLES
    log,        \* the frames published so far, oldest first
    subs,       \* the connections subscribed to the feed
    next,       \* next[c]: how many entries of log are behind c's cursor
    stream      \* stream[c]: what c was handed since it subscribed

feedVars == <<log, subs, next, stream>>

(* A frame every part of which comes from the same capture. *)
Whole(f) == [frame |-> f, data |-> [p \in Parts |-> f]]

Init ==
    /\ log = <<>>
    /\ subs = {}
    /\ next = [c \in Conns |-> 0]
    /\ stream = [c \in Conns |-> <<>>]

Publish ==
    /\ \E f \in Frames : log' = Append(log, f)
    /\ UNCHANGED <<subs, next, stream>>

(* A new client starts at the newest frame, or one behind it when that     *)
(* frame is still on its way.                                              *)
Subscribe(c) ==
    /\ c \notin subs
    /\ subs' = subs \union {c}
    /\ \E n \in {Len(log) - 1, Len(log)} :
            n \in Nat /\ next' = [next EXCEPT ![c] = n]
    /\ stream' = [stream EXCEPT ![c] = <<>>]
    /\ UNCHANGED log

Leave(c) ==
    /\ c \in subs
    /\ subs' = subs \ {c}
    /\ next' = [next EXCEPT ![c] = 0]
    /\ stream' = [stream EXCEPT ![c] = <<>>]
    /\ UNCHANGED log

Deliver(c) ==
    /\ c \in subs
    /\ next[c] < Len(log)
    /\ next' = [next EXCEPT ![c] = @ + 1]
    /\ stream' = [stream EXCEPT ![c] = Append(@, Whole(log[next[c] + 1]))]
    /\ UNCHANGED <<log, subs>>

Next ==
    \/ Publish
    \/ \E c \in Conns : Subscribe(c) \/ Leave(c) \/ Deliver(c)

(* A subscribed client that is behind is served, unless it leaves. *)
Fairness == \A c \in Conns : WF_feedVars(Deliver(c))

Spec == Init /\ [][Next]_feedVars /\ Fairness
=============================================================================

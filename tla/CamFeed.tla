------------------------------ MODULE CamFeed ------------------------------
(***************************************************************************)
(* The path of a frame through the two threads of cam_server.              *)
(*                                                                         *)
(* The main thread runs io_driver_run: when the camera is readable it      *)
(* captures a frame (camera_driver.c, v4l2_camera.c), in the Raspberry Pi  *)
(* build re-encodes it into a ring of frame buffers                        *)
(* (frame_converter_rpi.c), and broadcasts a POINTER to the result         *)
(* (webserver.c, mg_broadcast): it writes a control message and blocks     *)
(* until one byte comes back.                                              *)
(*                                                                         *)
(* The web thread runs mg_mgr_poll: mg_mgr_handle_ctl_sock answers the     *)
(* byte FIRST and only then runs cam_feed_handler on every connection,     *)
(* which copies the frame the pointer names into the connection's send     *)
(* buffer.  So the main thread may be capturing again while the web        *)
(* thread still reads: what keeps the two apart is the ring.               *)
(*                                                                         *)
(* A frame is named by the number of the capture it came from (0 is the    *)
(* empty buffer before the first one); its length stands for the same      *)
(* number.  A copy takes one step per part, in any order; the empty        *)
(* buffer, published as it is, has no part to copy.                        *)
(***************************************************************************)
EXTENDS Integers, Sequences

CONSTANTS
    Conns,          \* HTTP connections that may ask for /cam_feed.mjpg
    NoConn,         \* "no connection is being served"
    Parts,          \* the pieces a frame is copied in
    UseConverter,   \* USE_FRAME_CONVERTER: TRUE in the Raspberry Pi build
    NBuf,           \* MAX_FRAME_CONVERTER_BUFFERS
    MaxFrames       \* bound: the number of frames published

ASSUME ConnsAssumption == NoConn \notin Conns
ASSUME BuildAssumption == UseConverter \in BOOLEAN
ASSUME NBufAssumption == NBuf \in Nat /\ NBuf >= 2
ASSUME PartsAssumption == Parts # {}
ASSUME MaxFramesAssumption == MaxFrames \in Nat

(* Without the converter the one frame buffer is _cam.head. *)
Slots == IF UseConverter THEN 0..NBuf - 1 ELSE {0}

(* The buffer used after buffer s. *)
NextSlot(s) == IF UseConverter THEN (s + 1) % NBuf ELSE s

Message == [slot : Slots, frame : Nat]
Copy == [frame : Nat, data : [Parts -> Nat]]

VARIABLES
    mpc,        \* main thread: "select", "write", "send" or "ack"
    seq,        \* number of the frame in _cam.head
    ndx,        \* _buffers_ndx
    buf,        \* contents of the frame buffers
    wleft,      \* parts of buf[ndx] still to be written
    log,        \* history: the frames published so far
    ctlq,       \* ctl[0] -> ctl[1]: the broadcast not yet received
    ackq,       \* ctl[1] -> ctl[0]: bytes not yet received
    wpc,        \* web thread: "poll" or "copy"
    msg,        \* the ctl_msg the callbacks run on
    todo,       \* connections the callback loop has still to visit
    cur,        \* the connection being served, or NoConn
    got,        \* parts of the frame copied so far for cur
    gleft,      \* parts still to be copied for cur
    feed,       \* connections with MG_F_USER_6 set
    sent        \* sent[c]: the frames queued to c since it asked for the feed

mainVars == <<mpc, seq, ndx, buf, wleft, log>>
webVars == <<wpc, msg, todo, cur, got, gleft, feed, sent>>
vars == <<mpc, seq, ndx, buf, wleft, log, ctlq, ackq,
          wpc, msg, todo, cur, got, gleft, feed, sent>>

Blank == [p \in Parts |-> 0]

(* The parts mg_send copies of the frame of capture f.  Before the first   *)
(* capture _cam.head.length is 0; the converter makes a picture even of    *)
(* that.                                                                   *)
PartsOf(f) == IF f = 0 /\ ~UseConverter THEN {} ELSE Parts

Init ==
    /\ mpc = "select"
    /\ seq = 0
    /\ ndx = 0
    /\ buf = [s \in Slots |-> Blank]
    /\ wleft = {}
    /\ log = <<>>
    /\ ctlq = <<>>
    /\ ackq = 0
    /\ wpc = "poll"
    /\ msg = [slot |-> 0, frame |-> 0]
    /\ todo = {}
    /\ cur = NoConn
    /\ got = Blank
    /\ gleft = {}
    /\ feed = {}
    /\ sent = [c \in Conns |-> <<>>]

-----------------------------------------------------------------------------
(* The main thread. *)

(* The camera delivered: the frame goes to _cam.head, which is the buffer  *)
(* the web thread reads unless the converter re-encodes it into the ring.  *)
CaptureOk ==
    /\ mpc = "select"
    /\ Len(log) < MaxFrames
    /\ seq' = seq + 1
    /\ mpc' = "write"
    /\ wleft' = Parts
    /\ UNCHANGED <<ndx, buf, log, ctlq, ackq>>
    /\ UNCHANGED webVars

(* VIDIOC_DQBUF failed.  The result of v4l2_camera_capture is ignored: the *)
(* old frame is re-encoded, or without the converter published as it is.   *)
CaptureFail ==
    /\ mpc = "select"
    /\ Len(log) < MaxFrames
    /\ \/ UseConverter /\ mpc' = "write" /\ wleft' = Parts
       \/ ~UseConverter /\ mpc' = "send" /\ wleft' = {}
    /\ UNCHANGED <<seq, ndx, buf, log, ctlq, ackq>>
    /\ UNCHANGED webVars

WritePart(p) ==
    /\ mpc = "write"
    /\ p \in wleft
    /\ buf' = [buf EXCEPT ![ndx][p] = seq]
    /\ wleft' = wleft \ {p}
    /\ mpc' = IF wleft' = {} THEN "send" ELSE "write"
    /\ UNCHANGED <<seq, ndx, log, ctlq, ackq>>
    /\ UNCHANGED webVars

SendNoWait ==       \* mutant: the answer is not waited for
    /\ mpc = "send"
    /\ ctlq' = Append(ctlq, [slot |-> ndx, frame |-> seq])
    /\ log' = Append(log, seq)
    /\ mpc' = "select"
    /\ ndx' = NextSlot(ndx)
    /\ UNCHANGED <<seq, buf, wleft, ackq>>
    /\ UNCHANGED webVars

SendNextSlot ==     \* mutant: _buffers_ndx is advanced before the listeners
    /\ mpc = "send"
    /\ ctlq' = Append(ctlq, [slot |-> NextSlot(ndx), frame |-> seq])
    /\ log' = Append(log, seq)
    /\ mpc' = "ack"
    /\ UNCHANGED <<seq, ndx, buf, wleft, ackq>>
    /\ UNCHANGED webVars

(* camera_frame_event and the first half of mg_broadcast: the message is   *)
(* the pointer and the length, not the bytes.                              *)
Send ==
    /\ mpc = "send"
    /\ ctlq' = Append(ctlq, [slot |-> ndx, frame |-> seq])
    /\ log' = Append(log, seq)
    /\ mpc' = "ack"
    /\ UNCHANGED <<seq, ndx, buf, wleft, ackq>>
    /\ UNCHANGED webVars

(* The second half of mg_broadcast; the converter then takes the next      *)
(* buffer and the main thread is back in its loop.                         *)
RecvAck ==
    /\ mpc = "ack"
    /\ ackq > 0
    /\ ackq' = ackq - 1
    /\ mpc' = "select"
    /\ ndx' = NextSlot(ndx)
    /\ UNCHANGED <<seq, buf, wleft, log, ctlq>>
    /\ UNCHANGED webVars

-----------------------------------------------------------------------------
(* The web thread. *)

HandleCtlNoAck ==   \* mutant: the answering byte is not sent
    /\ wpc = "poll"
    /\ ctlq # <<>>
    /\ msg' = Head(ctlq)
    /\ ctlq' = Tail(ctlq)
    /\ wpc' = "copy"
    /\ todo' = feed
    /\ UNCHANGED <<cur, got, gleft, feed, sent, ackq>>
    /\ UNCHANGED mainVars

HandleCtlOne ==     \* mutant: the loop stops after the first connection
    /\ wpc = "poll"
    /\ ctlq # <<>>
    /\ msg' = Head(ctlq)
    /\ ctlq' = Tail(ctlq)
    /\ ackq' = ackq + 1
    /\ wpc' = "copy"
    /\ todo' = IF feed = {} THEN {} ELSE {CHOOSE c \in feed : TRUE}
    /\ UNCHANGED <<cur, got, gleft, feed, sent>>
    /\ UNCHANGED mainVars

(* mg_mgr_handle_ctl_sock: receive, answer, then start the callback loop;  *)
(* cam_feed_handler does nothing on the listening connection and on those  *)
(* without MG_F_USER_6, so the loop is over feed.                          *)
HandleCtl ==
    /\ wpc = "poll"
    /\ ctlq # <<>>
    /\ msg' = Head(ctlq)
    /\ ctlq' = Tail(ctlq)
    /\ ackq' = ackq + 1
    /\ wpc' = "copy"
    /\ todo' = feed
    /\ UNCHANGED <<cur, got, gleft, feed, sent>>
    /\ UNCHANGED mainVars

(* cam_feed_response_frame announces frame->len and starts to copy that    *)
(* many bytes.  The flow control on MG_F_USER_5 is compiled out: every     *)
(* connection is served.                                                   *)
BeginCopy(c) ==
    /\ wpc = "copy"
    /\ cur = NoConn
    /\ c \in todo
    /\ cur' = c
    /\ got' = Blank
    /\ gleft' = PartsOf(msg.frame)
    /\ UNCHANGED <<wpc, msg, todo, feed, sent, ctlq, ackq>>
    /\ UNCHANGED mainVars

CopyPart(p) ==
    /\ cur # NoConn
    /\ p \in gleft
    /\ got' = [got EXCEPT ![p] = buf[msg.slot][p]]
    /\ gleft' = gleft \ {p}
    /\ UNCHANGED <<wpc, msg, todo, cur, feed, sent, ctlq, ackq>>
    /\ UNCHANGED mainVars

EndCopyTwice ==     \* mutant: the loop does not step past the connection
    /\ cur # NoConn
    /\ gleft = {}
    /\ sent' = [sent EXCEPT ![cur] = Append(@, [frame |-> msg.frame, data |-> got])]
    /\ cur' = NoConn
    /\ UNCHANGED <<wpc, msg, todo, got, gleft, feed, ctlq, ackq>>
    /\ UNCHANGED mainVars

EndCopyPushFront == \* mutant: the frame is put before the ones that wait
    /\ cur # NoConn
    /\ gleft = {}
    /\ sent' = [sent EXCEPT ![cur] = <<[frame |-> msg.frame, data |-> got]>> \o @]
    /\ todo' = todo \ {cur}
    /\ cur' = NoConn
    /\ UNCHANGED <<wpc, msg, got, gleft, feed, ctlq, ackq>>
    /\ UNCHANGED mainVars

EndCopy ==
    /\ cur # NoConn
    /\ gleft = {}
    /\ sent' = [sent EXCEPT ![cur] = Append(@, [frame |-> msg.frame, data |-> got])]
    /\ todo' = todo \ {cur}
    /\ cur' = NoConn
    /\ UNCHANGED <<wpc, msg, got, gleft, feed, ctlq, ackq>>
    /\ UNCHANGED mainVars

EndBroadcast ==
    /\ wpc = "copy"
    /\ cur = NoConn
    /\ todo = {}
    /\ wpc' = "poll"
    /\ UNCHANGED <<msg, todo, cur, got, gleft, feed, sent, ctlq, ackq>>
    /\ UNCHANGED mainVars

(* GET /cam_feed.mjpg, handled between two broadcasts. *)
Subscribe(c) ==
    /\ wpc = "poll"
    /\ c \notin feed
    /\ feed' = feed \union {c}
    /\ sent' = [sent EXCEPT ![c] = <<>>]
    /\ UNCHANGED <<wpc, msg, todo, cur, got, gleft, ctlq, ackq>>
    /\ UNCHANGED mainVars

(* The connection is closed in the last pass of mg_socket_if_poll; c may   *)
(* then stand for a new connection.                                        *)
Close(c) ==
    /\ wpc = "poll"
    /\ c \in feed
    /\ feed' = feed \ {c}
    /\ sent' = [sent EXCEPT ![c] = <<>>]
    /\ UNCHANGED <<wpc, msg, todo, cur, got, gleft, ctlq, ackq>>
    /\ UNCHANGED mainVars

-----------------------------------------------------------------------------
Main == CaptureOk \/ CaptureFail \/ Send \/ RecvAck \/ \E p \in Parts : WritePart(p)

(* What the web thread does on its own once a broadcast is there. *)
Serve ==
    \/ HandleCtl
    \/ EndCopy
    \/ EndBroadcast
    \/ \E c \in Conns : BeginCopy(c)
    \/ \E p \in Parts : CopyPart(p)

Next == Main \/ Serve \/ \E c \in Conns : Subscribe(c) \/ Close(c)

(* Threads that are not blocked keep running: the main thread finishes the *)
(* callback it is in (a new capture is never owed), and the web thread     *)
(* polls for ever, handling the control socket in every round.             *)
Fairness ==
    /\ WF_vars(Send \/ RecvAck \/ \E p \in Parts : WritePart(p))
    /\ WF_vars(Serve)

Spec == Init /\ [][Next]_vars /\ Fairness

-----------------------------------------------------------------------------
(* Properties. *)

(* Every variable has its type, in particular the ring index stays inside  *)
(* _buffers.                                                               *)
TypeOK ==
    /\ mpc \in {"select", "write", "send", "ack"}
    /\ seq \in Nat
    /\ ndx \in Slots
    /\ buf \in [Slots -> [Parts -> Nat]]
    /\ wleft \subseteq Parts
    /\ log \in Seq(Nat)
    /\ ctlq \in Seq(Message)
    /\ ackq \in Nat
    /\ wpc \in {"poll", "copy"}
    /\ msg \in Message
    /\ todo \subseteq Conns
    /\ cur \in Conns \union {NoConn}
    /\ got \in [Parts -> Nat]
    /\ gleft \subseteq Parts
    /\ feed \subseteq Conns
    /\ sent \in [Conns -> Seq(Copy)]

(* The main thread never writes into the frame buffer the web thread is    *)
(* copying from, although mg_broadcast returns before the copies are made. *)
WriteReadExclusion ==
    ~(mpc = "write" /\ wpc = "copy" /\ msg.slot = ndx)

(* Every part of every frame queued to a client comes from the one capture *)
(* whose length was announced in Content-Length.                           *)
NoTornFrame ==
    \A c \in Conns : \A i \in DOMAIN sent[c] :
        sent[c][i].data = [p \in Parts |-> sent[c][i].frame]

(* Where two captures do share a buffer (the build without the converter)  *)
(* the damage is bounded: a copy can mix in the next capture, never a      *)
(* later one, because the main thread is at most one broadcast ahead.      *)
AtMostNextCapture ==
    \A c \in Conns : \A i \in DOMAIN sent[c] : \A p \in Parts :
        sent[c][i].data[p] - sent[c][i].frame \in {0, 1}

(* One broadcast at a time: while the main thread waits exactly one of the *)
(* message and its answer is on the way, otherwise none, so an answer is   *)
(* never taken for that of another broadcast.                              *)
OneBroadcast ==
    Len(ctlq) + ackq = IF mpc = "ack" THEN 1 ELSE 0

(* Number of broadcasts the web thread has taken from the control socket. *)
Handled == Len(log) - Len(ctlq)

(* Frames reach a client in capture order, however captures fail: no       *)
(* client ever sees the picture go back in time.                           *)
InOrder ==
    \A c \in Conns : \A i, j \in DOMAIN sent[c] :
        i < j => sent[c][i].frame <= sent[c][j].frame

(* The inductive strengthening behind NoTornFrame in the ring build: what  *)
(* each buffer holds at each point of the two threads, and that the ring   *)
(* index is one past the frame being copied until that frame's successor   *)
(* is acknowledged.                                                        *)
Written ==
    /\ mpc = "write" => \A p \in Parts \ wleft : buf[ndx][p] = seq
    /\ mpc \in {"send", "ack"} => \A p \in Parts : buf[ndx][p] = seq

InFlight ==
    ctlq # <<>> => ctlq = <<[slot |-> ndx, frame |-> seq]>>

OneAhead ==
    wpc = "copy" =>
        IF mpc = "ack" /\ ctlq = <<>>
        THEN msg = [slot |-> ndx, frame |-> seq]
        ELSE ndx = NextSlot(msg.slot)

CopiedSoFar ==
    /\ wpc = "copy" => \A p \in Parts : buf[msg.slot][p] = msg.frame
    /\ cur # NoConn =>
        wpc = "copy" /\ \A p \in Parts \ gleft : got[p] = msg.frame

FeedInv ==
    /\ TypeOK
    /\ OneBroadcast
    /\ InFlight
    /\ OneAhead
    /\ Written
    /\ CopiedSoFar
    /\ NoTornFrame

(* The strengthening behind InOrder, in either build. *)
OrderInv ==
    /\ TypeOK
    /\ InFlight
    /\ msg.frame <= seq
    /\ \A c \in Conns : \A i \in DOMAIN sent[c] : sent[c][i].frame <= msg.frame
    /\ InOrder

(* mg_broadcast returns: the main thread, which also runs the CLI and the  *)
(* timers, is never blocked for good by the web thread.                    *)
MainNotBlocked == mpc = "ack" ~> mpc = "select"

(* Each captured frame is queued to every client of the feed that stays.   *)
EveryFrameServed ==
    \A c \in Conns, f \in 1..MaxFrames :
        (mpc = "send" /\ seq = f /\ c \in feed)
            ~> (c \notin feed \/ \E i \in DOMAIN sent[c] : sent[c][i].frame = f)

(* A client's place in the log: the number of broadcasts handled, less one *)
(* while it has still to be visited.                                       *)
Cursor == [c \in Conns |->
              IF c \notin feed THEN 0
              ELSE IF c \in todo THEN Handled - 1 ELSE Handled]

(* The feed implements its promise.                                        *)
Feed == INSTANCE FrameFeed WITH
    Frames <- 0..MaxFrames, subs <- feed, next <- Cursor, stream <- sent

(* Every subscribed client is handed every published frame exactly once,   *)
(* whole and in order, and is eventually served.                           *)
ImplementsFeed == Feed!Spec
=============================================================================

----------------------------- MODULE WebServer -----------------------------
(***************************************************************************)
(* The connections of the web thread (main/webserver.c on mongoose): one   *)
(* turn of mg_socket_if_poll after the other, from accept to close, with   *)
(* the count of feed clients and the LED of the Raspberry Pi build.        *)
(*                                                                         *)
(* What the two threads do to hand a frame over is CamFeed's subject: here *)
(* a broadcast is one step.  A response or a frame in a send buffer is one *)
(* item; MG_F_USER_5 is left out, the test that read it being compiled out *)
(* (webserver.c:138-144).                                                  *)
(***************************************************************************)
EXTENDS Integers, Sequences, FiniteSets
LOCAL INSTANCE FiniteSetsExt

CONSTANTS
    Conns,          \* client connections
    MaxFrames,      \* bound: frames broadcast
    MaxRequests,    \* bound: requests sent in all
    MaxQueued       \* bound: requests of a client the server has not read

ASSUME BoundsAssumption == MaxFrames \in Nat /\ MaxRequests \in Nat /\ MaxQueued \in Nat

Request == {"feed", "page", "invalid"}
Flag == {"USER_6", "SEND_AND_CLOSE", "CLOSE_IMMEDIATELY"}
(* What is sent: the header of the feed, a page, or a frame by its number. *)
Item == [kind : {"header", "page", "frame"}, n : 0 .. MaxFrames]
HeaderItem == [kind |-> "header", n |-> 0]
PageItem == [kind |-> "page", n |-> 0]
FrameItem(k) == [kind |-> "frame", n |-> k]

VARIABLES
    open,       \* mgr->active_connections, without the listening one
    flags,      \* nc->flags
    recvBuf,    \* nc->recv_mbuf: requests read and not handled
    sendBuf,    \* nc->send_mbuf
    camConns,   \* _cam_conns
    led,        \* LED_PIN is HIGH
    phase,      \* of mg_socket_if_poll: "select", "handle" or "sweep"
    due,        \* what the sets of the last select hold: [ctl, accept, read, write]
    peer,       \* the client: "none", "wait" (not accepted), "up", "fin", "gone"
    inq,        \* requests in the socket
    got,        \* what the client has of this connection: [header, last] frame
    frame,      \* frames broadcast so far
    pending,    \* a frame is on the control socket
    requests,   \* requests sent so far
    repeats     \* history: feed requests on a connection that had the feed

connVars == <<flags, recvBuf, sendBuf>>
ledVars == <<camConns, led, repeats>>
clientVars == <<peer, inq, got, requests>>
vars == <<open, flags, recvBuf, sendBuf, camConns, led, phase, due,
          peer, inq, got, frame, pending, requests, repeats>>

None == [header |-> FALSE, last |-> 0]
Nothing == [ctl |-> FALSE, accept |-> FALSE, read |-> {}, write |-> {}]

Init ==
    /\ open = {}
    /\ flags = [c \in Conns |-> {}]
    /\ recvBuf = [c \in Conns |-> <<>>]
    /\ sendBuf = [c \in Conns |-> <<>>]
    /\ camConns = 0 /\ led = FALSE /\ repeats = 0
    /\ phase = "select" /\ due = Nothing
    /\ peer = [c \in Conns |-> "none"]
    /\ inq = [c \in Conns |-> <<>>]
    /\ got = [c \in Conns |-> None]
    /\ frame = 0 /\ pending = FALSE /\ requests = 0

-----------------------------------------------------------------------------
(* mg_socket_if_poll *)

Waiting == {c \in Conns : peer[c] = "wait"}
Readable == {c \in open : inq[c] # <<>> \/ peer[c] \in {"fin", "gone"}}
WantsWrite == {c \in open : sendBuf[c] # <<>>}

(* Data to send is put in write_set; the socket of a client that reads may *)
(* or may not have room, that of one that is gone reports its error.       *)
Select ==
    /\ phase = "select"
    /\ \E w \in SUBSET WantsWrite :
        /\ {c \in WantsWrite : peer[c] = "gone"} \subseteq w
        /\ due' = [ctl |-> pending, accept |-> Waiting # {},
                   read |-> Readable, write |-> w]
    /\ due' # Nothing
    /\ phase' = "handle"
    /\ UNCHANGED <<open, frame, pending>>
    /\ UNCHANGED connVars /\ UNCHANGED ledVars /\ UNCHANGED clientVars

CastToAll ==        \* mutant: the flag is not tested
    /\ phase = "handle" /\ due.ctl
    /\ due' = [due EXCEPT !.ctl = FALSE]
    /\ pending' = FALSE
    /\ sendBuf' = [c \in Conns |-> IF c \in open THEN Append(sendBuf[c], FrameItem(frame))
                                                 ELSE sendBuf[c]]
    /\ UNCHANGED <<open, phase, frame, flags, recvBuf>>
    /\ UNCHANGED ledVars /\ UNCHANGED clientVars

(* mg_mgr_handle_ctl_sock: cam_feed_handler on every connection. *)
Cast ==
    /\ phase = "handle" /\ due.ctl
    /\ due' = [due EXCEPT !.ctl = FALSE]
    /\ pending' = FALSE
    /\ sendBuf' = [c \in Conns |-> IF c \in open /\ "USER_6" \in flags[c]
                                   THEN Append(sendBuf[c], FrameItem(frame)) ELSE sendBuf[c]]
    /\ UNCHANGED <<open, phase, frame, flags, recvBuf>>
    /\ UNCHANGED ledVars /\ UNCHANGED clientVars

(* mg_accept_conn: one a turn; the connection joins the next turn. *)
Accept(c) ==
    /\ phase = "handle" /\ ~due.ctl /\ due.accept
    /\ c \in Waiting
    /\ due' = [due EXCEPT !.accept = FALSE]
    /\ open' = open \union {c}
    /\ peer' = [peer EXCEPT ![c] = "up"]
    /\ UNCHANGED <<phase, frame, pending, inq, got, requests>>
    /\ UNCHANGED connVars /\ UNCHANGED ledVars

Count(f) ==
    /\ camConns' = camConns + 1
    /\ led' = TRUE
    /\ repeats' = repeats + (IF "USER_6" \in f THEN 1 ELSE 0)

(* ev_handler, MG_EV_HTTP_REQUEST.  A page closes the connection behind    *)
(* it unless the client asked to keep it.                                  *)
Serve(c, r) ==
    \/ /\ r = "feed"
       /\ flags' = [flags EXCEPT ![c] = @ \union {"USER_6"}]
       /\ sendBuf' = [sendBuf EXCEPT ![c] = Append(@, HeaderItem)]
       /\ Count(flags[c])
    \/ /\ r = "page"
       /\ \E f \in {{}, {"SEND_AND_CLOSE"}} : flags' = [flags EXCEPT ![c] = @ \union f]
       /\ sendBuf' = [sendBuf EXCEPT ![c] = Append(@, PageItem)]
       /\ UNCHANGED ledVars
    \/ /\ r = "invalid"
       /\ flags' = [flags EXCEPT ![c] = @ \union {"CLOSE_IMMEDIATELY"}]
       /\ UNCHANGED sendBuf /\ UNCHANGED ledVars

EofIgnored(c) ==    \* mutant: recv returning 0 is not acted upon
    UNCHANGED flags

(* recv returns 0, or an error. *)
Eof(c) ==
    \E f \in {"SEND_AND_CLOSE"} \union (IF peer[c] = "gone" THEN {"CLOSE_IMMEDIATELY"} ELSE {}) :
        flags' = [flags EXCEPT ![c] = @ \union {f}]

(* mg_handle_tcp_read: all that is there is read, and one request handled. *)
(* An invalid one stays in recv_mbuf.  When an earlier request was left    *)
(* there, pd->rcvd counts the new bytes only and may be less than its      *)
(* length: then it stays there until more arrives.                         *)
Read(c) ==
    /\ phase = "handle" /\ ~due.ctl
    /\ c \in due.read
    /\ due' = [due EXCEPT !.read = @ \ {c}]
    /\ \/ /\ inq[c] # <<>>
          /\ LET all == recvBuf[c] \o inq[c]  r == Head(all) IN
                \/ /\ Serve(c, r)
                   /\ recvBuf' = [recvBuf EXCEPT ![c] = IF r = "invalid" THEN all ELSE Tail(all)]
                \/ /\ recvBuf[c] # <<>> /\ r # "invalid"
                   /\ recvBuf' = [recvBuf EXCEPT ![c] = all]
                   /\ UNCHANGED <<flags, sendBuf>> /\ UNCHANGED ledVars
          /\ inq' = [inq EXCEPT ![c] = <<>>]
       \/ /\ inq[c] = <<>> \/ peer[c] = "gone"
          /\ Eof(c)
          /\ UNCHANGED <<recvBuf, sendBuf, inq>>
          /\ UNCHANGED ledVars
    /\ UNCHANGED <<open, phase, frame, pending, peer, got, requests>>

(* What a client has after receiving some items. *)
After(g, items) ==
    LET frames == {items[i].n : i \in {j \in DOMAIN items : items[j].kind = "frame"}} IN
    [header |-> g.header \/ HeaderItem \in {items[i] : i \in DOMAIN items},
     last   |-> IF frames = {} THEN g.last ELSE Max(frames)]

(* mg_write_to_socket and mg_if_sent_cb: some of the data, or an error. *)
Write(c) ==
    /\ phase = "handle" /\ ~due.ctl
    /\ c \in due.write \ due.read
    /\ due' = [due EXCEPT !.write = @ \ {c}]
    /\ IF "CLOSE_IMMEDIATELY" \in flags[c] THEN UNCHANGED <<flags, sendBuf, got>>
       ELSE IF peer[c] = "gone"
       THEN /\ flags' = [flags EXCEPT ![c] = @ \union {"CLOSE_IMMEDIATELY"}]
            /\ UNCHANGED <<sendBuf, got>>
       ELSE /\ \E n \in 1 .. Len(sendBuf[c]) :
                /\ got' = [got EXCEPT ![c] = After(@, SubSeq(sendBuf[c], 1, n))]
                /\ sendBuf' = [sendBuf EXCEPT ![c] = SubSeq(@, n + 1, Len(@))]
            /\ UNCHANGED flags
    /\ UNCHANGED <<open, phase, recvBuf, frame, pending, peer, inq, requests>>
    /\ UNCHANGED ledVars

EndHandle ==
    /\ phase = "handle"
    /\ due = Nothing
    /\ phase' = "sweep"
    /\ UNCHANGED <<open, due, frame, pending>>
    /\ UNCHANGED connVars /\ UNCHANGED ledVars /\ UNCHANGED clientVars

Doomed == {c \in open : \/ "CLOSE_IMMEDIATELY" \in flags[c]
                        \/ "SEND_AND_CLOSE" \in flags[c] /\ sendBuf[c] = <<>>}

UncountAll(f, n, lit) ==     \* mutant: every connection that closes is counted off
    /\ camConns' = n - 1
    /\ led' = (lit /\ n - 1 # 0)

(* ev_handler, MG_EV_CLOSE, with flags f when the count is n. *)
Uncount(f, n, lit) ==
    IF "USER_6" \in f
    THEN camConns' = n - 1 /\ led' = (lit /\ n - 1 # 0)
    ELSE camConns' = n /\ led' = lit

(* mg_close_conn.  mg_http_handler first runs the request left in          *)
(* recv_mbuf, a feed request too.                                          *)
Close(c) ==
    LET late == recvBuf[c] # <<>> /\ Head(recvBuf[c]) = "feed"
        f == flags[c] \union (IF late THEN {"USER_6"} ELSE {})
    IN
    /\ phase = "sweep"
    /\ c \in Doomed
    /\ open' = open \ {c}
    /\ Uncount(f, IF late THEN camConns + 1 ELSE camConns, led \/ late)
    /\ repeats' = repeats + (IF late /\ "USER_6" \in flags[c] THEN 1 ELSE 0)
    /\ flags' = [flags EXCEPT ![c] = {}]
    /\ recvBuf' = [recvBuf EXCEPT ![c] = <<>>]
    /\ sendBuf' = [sendBuf EXCEPT ![c] = <<>>]
    /\ peer' = [peer EXCEPT ![c] = "none"]
    /\ inq' = [inq EXCEPT ![c] = <<>>]
    /\ got' = [got EXCEPT ![c] = None]
    /\ UNCHANGED <<phase, due, frame, pending, requests>>

EndSweep ==
    /\ phase = "sweep"
    /\ Doomed = {}
    /\ phase' = "select"
    /\ UNCHANGED <<open, due, frame, pending>>
    /\ UNCHANGED connVars /\ UNCHANGED ledVars /\ UNCHANGED clientVars

-----------------------------------------------------------------------------
(* The main thread and the clients. *)

(* mg_broadcast: one frame at a time. *)
Publish ==
    /\ ~pending /\ frame < MaxFrames
    /\ frame' = frame + 1
    /\ pending' = TRUE
    /\ UNCHANGED <<open, phase, due>>
    /\ UNCHANGED connVars /\ UNCHANGED ledVars /\ UNCHANGED clientVars

Connect(c) ==
    /\ peer[c] = "none"
    /\ peer' = [peer EXCEPT ![c] = "wait"]
    /\ UNCHANGED <<open, phase, due, frame, pending, inq, got, requests>>
    /\ UNCHANGED connVars /\ UNCHANGED ledVars

Ask(c, r) ==
    /\ peer[c] = "up"
    /\ Len(inq[c]) < MaxQueued /\ requests < MaxRequests
    /\ inq' = [inq EXCEPT ![c] = Append(@, r)]
    /\ requests' = requests + 1
    /\ UNCHANGED <<open, phase, due, frame, pending, peer, got>>
    /\ UNCHANGED connVars /\ UNCHANGED ledVars

(* The client shuts its side, or is gone altogether. *)
Leave(c) ==
    /\ \/ peer[c] = "up" /\ peer' = [peer EXCEPT ![c] = "fin"]
       \/ peer[c] \in {"up", "fin"} /\ peer' = [peer EXCEPT ![c] = "gone"]
    /\ UNCHANGED <<open, phase, due, frame, pending, inq, got, requests>>
    /\ UNCHANGED connVars /\ UNCHANGED ledVars

Poll ==
    \/ Select \/ Cast \/ EndHandle \/ EndSweep
    \/ \E c \in Conns : Accept(c) \/ Read(c) \/ Write(c) \/ Close(c)

Next ==
    \/ Poll
    \/ Publish
    \/ \E c \in Conns :
        \/ Connect(c) \/ Leave(c)
        \/ \E r \in Request : Ask(c, r)

(* The web thread runs on: the while (1) of __webserver_thread. *)
Spec == Init /\ [][Next]_vars /\ WF_vars(Poll)

-----------------------------------------------------------------------------
(* Properties. *)

(* Every variable has its type. *)
TypeOK ==
    /\ open \subseteq Conns
    /\ flags \in [Conns -> SUBSET Flag]
    /\ recvBuf \in [Conns -> Seq(Request)]
    /\ sendBuf \in [Conns -> Seq(Item)]
    /\ camConns \in Nat /\ led \in BOOLEAN /\ repeats \in Nat
    /\ phase \in {"select", "handle", "sweep"}
    /\ due \in [ctl : BOOLEAN, accept : BOOLEAN, read : SUBSET open, write : SUBSET open]
    /\ peer \in [Conns -> {"none", "wait", "up", "fin", "gone"}]
    /\ inq \in [Conns -> Seq(Request)]
    /\ got \in [Conns -> [header : BOOLEAN, last : 0 .. MaxFrames]]
    /\ frame \in 0 .. MaxFrames /\ pending \in BOOLEAN
    /\ requests \in 0 .. MaxRequests

Feeding == {c \in open : "USER_6" \in flags[c]}

(* _cam_conns is the number of connections with the feed plus the feed     *)
(* requests that were repeated on a connection, which nothing ever takes   *)
(* off again; it never wraps below 0.  And the LED is on while anybody     *)
(* watches: no close of another connection, in whatever order, puts it out *)
(* early.                                                                  *)
CountExplained ==
    /\ camConns = Cardinality(Feeding) + repeats
    /\ Feeding # {} => led

(* A client that is sent frames was sent the header of the multipart       *)
(* response before them, and they come in order.                           *)
FeedWellFormed ==
    \A c \in open : \A j \in DOMAIN sendBuf[c] :
        LET item == sendBuf[c][j] IN item.kind = "frame" =>
            /\ got[c].header \/ \E i \in 1 .. j - 1 : sendBuf[c][i] = HeaderItem
            /\ got[c].last < item.n
            /\ \A i \in 1 .. j - 1 : sendBuf[c][i].kind = "frame" => sendBuf[c][i].n < item.n

(* A client that is gone is noticed and its connection released, whether   *)
(* it left data unread or the feed keeps filling its send buffer.          *)
GoneIsReleased == \A c \in Conns : peer[c] = "gone" ~> c \notin open

(* README.md:14: "to use GPIO LED indication for connection status": between two  *)
(* turns the LED is on exactly while a client has the feed.                *)
LedShowsFeed == phase = "select" => (led <=> Feeding # {})
=============================================================================

----------------------------- MODULE WebSocket -----------------------------
(***************************************************************************)
(* A connection of the web thread that a browser has turned into a web     *)
(* socket (mg_set_protocol_http_websocket lets it): the bytes of its       *)
(* frames arrive cut anywhere, mg_deliver_websocket_data takes the frames  *)
(* out of recv_mbuf, puts fragmented messages together in place and calls  *)
(* the handler.                                                            *)
(*                                                                         *)
(* Bytes.  A frame is its flags, its length byte, the 2 or 8 bytes of a    *)
(* longer length, 4 bytes of mask, and its payload.  A byte of payload is  *)
(* named by its frame and place and knows whether it is masked.  In        *)
(* recv_mbuf a message being put together is the flags of its first frame  *)
(* and the payload so far: reass_len bytes in front of what came after.    *)
(***************************************************************************)
EXTENDS Integers, Sequences, Sublists
LOCAL INSTANCE SequencesExt
LOCAL INSTANCE FiniteSetsExt

CONSTANTS
    Payloads,       \* sizes of a frame's payload
    LengthBytes,    \* forms of its length: bytes after the first one, of 0, 2 and 8;
                    \* a control frame has the short form
    MaxSent,        \* bound: frames of the client
    MaxPings        \* bound: pings of the server

ASSUME FramesAssumption == Payloads \subseteq Nat /\ LengthBytes \subseteq Nat

VARIABLES
    upgraded,   \* MG_F_IS_WEBSOCKET, and the handshake answered
    stream,     \* bytes on their way to the server
    recvMbuf,   \* nc->recv_mbuf
    reassLen,   \* ws_data.reass_len
    looping,    \* in the do-while of mg_ws_handler
    delivered,  \* history: the messages the handler was called with
    replies,    \* history: the frames sent to the client
    closing,    \* MG_F_SEND_AND_CLOSE
    sentFrames, \* the frames the client has sent
    mistaken,   \* the last of them breaks the protocol
    meant       \* history: whether the client is in the middle of a message, the
                \* payload of that so far, and the messages it has completed

wsVars == <<upgraded, stream, recvMbuf, reassLen, looping, delivered, replies,
            closing, sentFrames, mistaken, meant>>

Control == {"close", "ping", "pong"}

PayloadOf(f, n, masked) == [i \in 1 .. n |-> [part |-> "byte", f |-> f, i |-> i, masked |-> masked]]
Unmasked(bytes) == [i \in DOMAIN bytes |-> [bytes[i] EXCEPT !.masked = ~@]]

(* Frame f of the client as bytes.                                         *)
FrameBytes(f, frame) ==
    <<[part |-> "flags", op |-> frame.op, fin |-> frame.fin],
      [part |-> "len", n |-> frame.n, ext |-> frame.ext]>>
        \o [i \in 1 .. frame.ext + 4 |-> [part |-> "mask"]]
        \o PayloadOf(f, frame.n, TRUE)

NothingMeant == [open |-> FALSE, data |-> <<>>, messages |-> <<>>]

WsInit ==
    /\ upgraded = FALSE /\ stream = <<>> /\ recvMbuf = <<>> /\ reassLen = 0
    /\ looping = FALSE /\ delivered = <<>> /\ replies = <<>> /\ closing = FALSE
    /\ sentFrames = <<>> /\ mistaken = FALSE
    /\ meant = NothingMeant

-----------------------------------------------------------------------------
(* The server *)

(* The request with Sec-WebSocket-Key: the handshake is answered, unless   *)
(* something else is still to be sent, and the protocol handler changes.   *)
Upgrade ==
    /\ ~upgraded
    /\ upgraded' = TRUE
    /\ UNCHANGED <<stream, recvMbuf, reassLen, looping, delivered, replies,
                   closing, sentFrames, mistaken, meant>>

(* mg_ws_handler on MG_EV_RECV: n bytes more, then the loop.               *)
ReadStream(n) ==
    /\ upgraded /\ ~looping
    /\ recvMbuf' = recvMbuf \o SubSeq(stream, 1, n)
    /\ stream' = SubSeq(stream, n + 1, Len(stream))
    /\ looping' = TRUE
    /\ UNCHANGED <<upgraded, reassLen, delivered, replies, closing, sentFrames, mistaken, meant>>

(* On MG_EV_POLL, five seconds after the last byte.                        *)
PingIdle ==
    /\ upgraded /\ ~looping
    /\ Cardinality({i \in DOMAIN replies : replies[i].op = "ping"}) < MaxPings
    /\ replies' = Append(replies, [op |-> "ping", data |-> <<>>])
    /\ UNCHANGED <<upgraded, stream, recvMbuf, reassLen, looping, delivered,
                   closing, sentFrames, mistaken, meant>>

(* What has come and is not part of a message being put together.          *)
Unread == SubSeq(recvMbuf, reassLen + 1, Len(recvMbuf))
IsFragment(flags) == ~flags.fin \/ flags.op = "continue"
IsFirstFragment(flags) == ~flags.fin /\ flags.op # "continue"
(* The header with its mask, once as much of it is there as is looked at.  *)
HeaderLen(new) ==
    IF Len(new) < 2 THEN 0
    ELSE LET whole == 2 + new[2].ext + 4
         IN IF Len(new) >= (IF new[2].ext = 0 THEN 4 ELSE whole) THEN whole ELSE 0

MisplacedAnyFrame ==    \* mutant: no control frame between fragments either
    /\ Unread # <<>>
    /\ \/ IsFragment(Unread[1]) /\ Unread[1].op \in Control
       \/ ~IsFragment(Unread[1]) /\ reassLen > 0
    /\ replies' = Append(replies, [op |-> "refuse", data |-> <<>>])
    /\ closing' = TRUE /\ looping' = FALSE
    /\ UNCHANGED <<recvMbuf, reassLen, delivered>>

(* A frame that has no place here: the server closes, with a reason, and   *)
(* the loop ends.  The frame stays where it is, and every byte that comes  *)
(* after it is refused again.                                              *)
Misplaced ==
    /\ Unread # <<>>
    /\ \/ IsFragment(Unread[1]) /\ Unread[1].op \in Control
       \/ ~IsFragment(Unread[1]) /\ Unread[1].op \notin Control /\ reassLen > 0
    /\ replies' = Append(replies, [op |-> "refuse", data |-> <<>>])
    /\ closing' = TRUE /\ looping' = FALSE
    /\ UNCHANGED <<recvMbuf, reassLen, delivered>>

WholeFrame(header) == header > 0 /\ Len(Unread) >= header + Unread[2].n

Incomplete ==
    /\ ~WholeFrame(HeaderLen(Unread))
    /\ looping' = FALSE
    /\ UNCHANGED <<recvMbuf, reassLen, delivered, replies, closing>>

(* A whole frame that is part of a message: its payload is moved up to the *)
(* rest of the message, and the last one delivers it.                      *)
Fragment ==
    LET flags == Unread[1]
        header == HeaderLen(Unread)
        n == Unread[2].n
        data == Unmasked(SubSeq(Unread, header + 1, header + n))
        first == IsFirstFragment(flags)
        kept == SubSeq(recvMbuf, 1, IF first THEN reassLen + 1 ELSE reassLen)
        buf == kept \o data \o SubSeq(Unread, header + n + 1, Len(Unread))
        len == (IF first THEN 1 ELSE reassLen) + n
    IN /\ Unread # <<>> /\ IsFragment(flags) /\ flags.op \notin Control
       /\ WholeFrame(header)
       /\ IF flags.fin
          THEN /\ delivered' = Append(delivered, [op |-> buf[1].op,
                                                  data |-> SubSeq(buf, 2, len)])
               /\ recvMbuf' = SubSeq(buf, len + 1, Len(buf))
               /\ reassLen' = 0
          ELSE recvMbuf' = buf /\ reassLen' = len /\ UNCHANGED delivered
       /\ UNCHANGED <<looping, replies, closing>>

(* The bytes that stay when a frame of len bytes is cleaned up.            *)
Without(len) ==
    SubSeq(recvMbuf, 1, reassLen) \o SubSeq(Unread, len + 1, Len(Unread))

(* A whole message in one frame.  A ping and a close are answered first; a *)
(* control frame may come in the middle of a fragmented message.           *)
WholeMessage ==
    LET flags == Unread[1]
        header == HeaderLen(Unread)
        n == Unread[2].n
        data == Unmasked(SubSeq(Unread, header + 1, header + n))
    IN /\ Unread # <<>> /\ ~IsFragment(flags)
       /\ flags.op \in Control \/ reassLen = 0
       /\ WholeFrame(header)
       /\ replies' = CASE flags.op = "ping" -> Append(replies, [op |-> "pong", data |-> data])
                       [] flags.op = "close" -> Append(replies, [op |-> "close", data |-> data])
                       [] OTHER -> replies
       /\ closing' = (closing \/ flags.op = "close")
       /\ delivered' = Append(delivered, [op |-> flags.op, data |-> data])
       /\ recvMbuf' = Without(header + n)
       /\ UNCHANGED <<reassLen, looping>>

(* mg_deliver_websocket_data, once.                                        *)
Deliver ==
    /\ looping
    /\ Misplaced \/ Incomplete \/ Fragment \/ WholeMessage
    /\ UNCHANGED <<upgraded, stream, sentFrames, mistaken, meant>>

-----------------------------------------------------------------------------
(* The client *)

(* The protocol forbids the frame after what the client means so far: a    *)
(* message in the middle of another, or a control frame in pieces.         *)
Forbidden(sofar, frame) ==
    \/ frame.op = "text" /\ frame.fin /\ sofar.open
    \/ frame.op \in Control /\ ~frame.fin

(* A message goes on where one is open, and begins where none is.          *)
InTurn(sofar, frame) ==
    /\ frame.op = "continue" => sofar.open
    /\ frame.op = "text" /\ ~frame.fin => ~sofar.open

(* What the client means with one frame more, its frame f.                 *)
MeantBy(sofar, f, frame) ==
    LET payload == PayloadOf(f, frame.n, FALSE)
    IN
    IF Forbidden(sofar, frame) THEN sofar
    ELSE IF frame.op \in Control
    THEN [sofar EXCEPT !.messages = Append(@, [op |-> frame.op, data |-> payload])]
    ELSE IF ~frame.fin THEN [sofar EXCEPT !.open = TRUE, !.data = @ \o payload]
    ELSE [open |-> FALSE, data |-> <<>>,
          messages |-> Append(sofar.messages, [op |-> "text", data |-> sofar.data \o payload])]

(* Nothing the client sends after a close or a mistake is promised.        *)
SendFrame(frame) ==
    LET f == Len(sentFrames) + 1
    IN /\ upgraded /\ f <= MaxSent /\ ~mistaken
       /\ \A g \in DOMAIN sentFrames : sentFrames[g].op # "close"
       /\ InTurn(meant, frame)
       /\ mistaken' = Forbidden(meant, frame)
       /\ sentFrames' = Append(sentFrames, frame)
       /\ stream' = stream \o FrameBytes(f, frame)
       /\ meant' = MeantBy(meant, f, frame)
       /\ UNCHANGED <<upgraded, recvMbuf, reassLen, looping, delivered, replies, closing>>

Frames ==
    [op : {"text", "continue"}, fin : BOOLEAN, n : Payloads, ext : LengthBytes]
        \cup [op : Control \ {"pong"}, fin : BOOLEAN, n : Payloads, ext : {0}]

WsNext ==
    \/ Upgrade
    \/ \E n \in 1 .. Len(stream) : ReadStream(n)
    \/ PingIdle
    \/ Deliver
    \/ \E frame \in Frames : SendFrame(frame)

WsSpec == WsInit /\ [][WsNext]_wsVars

-----------------------------------------------------------------------------
(* Properties *)

PayloadByte == [part : {"byte"}, f : Nat, i : Nat, masked : BOOLEAN]
Questions == [op : {"ping", "close"}, data : Seq(PayloadByte)]
Answers == [op : {"pong", "close"}, data : Seq(PayloadByte)]
AnswerTo(m) == [op |-> IF m.op = "ping" THEN "pong" ELSE "close", data |-> m.data]

(* However the bytes are cut and the messages fragmented, the handler gets *)
(* the client's messages, whole, unmasked and in order; each ping and the  *)
(* close are answered with their payload; when everything has been read,   *)
(* nothing is missing; and after a client's mistake it gets nothing more.  *)
MessagesExact ==
    LET asked == Sublist(delivered, Questions)
    IN /\ IsPrefix(delivered, meant.messages)
       /\ Sublist(replies, Answers) = [i \in DOMAIN asked |-> AnswerTo(asked[i])]
       /\ ~looping /\ stream = <<>> => delivered = meant.messages
=============================================================================

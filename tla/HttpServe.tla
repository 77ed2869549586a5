----------------------------- MODULE HttpServe -----------------------------
(***************************************************************************)
(* One HTTP connection of the web thread that asks for pages: the bytes of *)
(* its requests arrive cut anywhere, mg_http_handler finds the requests in *)
(* them, mg_serve_http answers, and a file goes out through a window of    *)
(* the send buffer, a piece at every event, while the socket takes what it *)
(* has room for.  Many connections and the feed are WebServer's subject.   *)
(*                                                                         *)
(* Bytes.  A request is its header, in two pieces (the blank line is the   *)
(* second), and its body; a chunk is a size line, data, and a line end.    *)
(* A response is its header, one unit, and the bytes of its body.          *)
(*                                                                         *)
(* The client is a browser's: it sends a request when it has the whole     *)
(* answer to the one before, on a connection it was not told to give up,   *)
(* and at most one chunked body on a connection (mg_handle_chunked keeps   *)
(* chunk.body_len, mongoose.c:5987, when a message is over).               *)
(***************************************************************************)
EXTENDS Integers, Sequences, Sublists
LOCAL INSTANCE SequencesExt
LOCAL INSTANCE FiniteSetsExt

CONSTANTS
    RequestKinds,   \* requests a client may send
    MaxAsked,       \* bound: requests on the connection
    SendWindow,     \* MG_MAX_HTTP_SEND_MBUF
    RequestLimit    \* MG_MAX_HTTP_REQUEST_SIZE

(* A request: what its URI names in the document root; the size of that    *)
(* file; the Range header; Connection: keep-alive; an If-None-Match that   *)
(* matches; and its body, by Content-Length or in chunks.                  *)
Named == {"/", "file", "missing", "below_file", "folder", "listing"}
NoRange == [from |-> 0, to |-> -2]      \* no Range header
ToEnd == -1                             \* "bytes=400-"
Whole(what, size) ==
    [method |-> "GET", what |-> what, size |-> size, range |-> NoRange,
     keep |-> TRUE, fresh |-> FALSE, body |-> 0, chunks |-> <<>>]

(* A body has one form; the last of its chunks, and only that, is empty.   *)
Request ==
    [method : {"GET", "HEAD", "POST", "PUT", "OPTIONS"}, what : Named, size : Nat,
     range : [from : Nat, to : Nat \cup {ToEnd}] \cup {NoRange},
     keep : BOOLEAN, fresh : BOOLEAN, body : Nat, chunks : Seq(Nat)]
ASSUME RequestsAssumption ==
    /\ RequestKinds \subseteq Request
    /\ \A r \in RequestKinds : r.chunks # <<>> =>
          /\ r.method \in {"POST", "PUT"} /\ r.body = 0
          /\ \A i \in 1 .. Len(r.chunks) : r.chunks[i] = 0 <=> i = Len(r.chunks)
    /\ SendWindow \in Nat

VARIABLES
    conn,       \* struct mg_connection with its mg_http_proto_data
    wire,       \* bytes on their way to the server
    asked,      \* the requests sent
    arrived,        \* what the client has received
    client      \* "up", "fin" (it has shut down its side) or "gone"

httpVars == <<conn, wire, asked, arrived, client>>

-----------------------------------------------------------------------------
(* Requests as bytes *)

Part(k, p, n) == [req |-> k, part |-> p, n |-> n]
Pieces(k, p, n) == [i \in 1 .. n |-> Part(k, p, i)]
ChunkBytes(k, n) == <<Part(k, "size", n)>> \o Pieces(k, "data", n) \o <<Part(k, "line", 0)>>
RequestBytes(k, r) ==
    <<Part(k, "head", 0), Part(k, "blank", 0)>>
        \o IF r.chunks = <<>> THEN Pieces(k, "data", r.body)
           ELSE FlattenSeq([i \in 1 .. Len(r.chunks) |-> ChunkBytes(k, r.chunks[i])])

(* mg_http_get_request_len: up to and with the blank line, 0 before that.  *)
RequestLen(buf) ==
    LET blank == {i \in 1 .. Len(buf) : buf[i].part = "blank"}
    IN IF blank = {} THEN 0 ELSE Min(blank)

Unknown == -1       \* (size_t) ~0, more than any number of bytes received
(* mg_parse_http: the length of the message whose header has len bytes.    *)
MessageLen(r, len) ==
    IF r.body > 0 THEN len + r.body
    ELSE IF r.method \in {"PUT", "POST"} THEN Unknown
    ELSE len

(* mg_http_parse_chunk: a whole chunk at the front of rest is moved to the *)
(* end of body; last says that the one of size zero has been met.          *)
TakeChunk(x) ==
    LET n == x.rest[1].n IN
    IF x.last \/ x.rest = <<>> \/ Len(x.rest) < n + 2 THEN x
    ELSE [body |-> x.body \o SubSeq(x.rest, 2, n + 1),
          rest |-> SubSeq(x.rest, n + 3, Len(x.rest)),
          last |-> n = 0]

(* mg_handle_chunked takes chunks as long as there are any.  (Each result  *)
(* is bound before it is used, for TLC to compute it once.)                *)
Collapse(body, rest) ==
    LET taken[i \in 0 .. Len(rest)] ==
            IF i = 0 THEN [body |-> body, rest |-> rest, last |-> FALSE]
            ELSE CHOOSE y \in {TakeChunk(x) : x \in {taken[i - 1]}} : TRUE
    IN  taken[Len(rest)]

-----------------------------------------------------------------------------
(* Responses *)

NoFile == [open |-> FALSE, req |-> 0, pos |-> 0, size |-> 0,
           cl |-> 0, sent |-> 0, keep |-> FALSE]

HeadUnit(k, status, len, closes) ==
    [req |-> k, part |-> "head", n |-> status, len |-> len, closes |-> closes]
Byte(k, i) == [req |-> k, part |-> "byte", n |-> i, len |-> 0, closes |-> FALSE]
Words(k) == [req |-> k, part |-> "text", n |-> 0, len |-> 0, closes |-> FALSE]
Final(k) == [req |-> k, part |-> "final", n |-> 0, len |-> 0, closes |-> FALSE]
Chunked == -1       \* the length of a response sent in chunks
ToClose == -2       \* that of one with no length: it ends with the connection

Send(c, units) == [c EXCEPT !.send = @ \o units]
SendAndClose(c) == [c EXCEPT !.flags = @ \cup {"SEND_AND_CLOSE"}]
CloseNow(c) == [c EXCEPT !.flags = @ \cup {"CLOSE_IMMEDIATELY"}]

SendError(c, k, status) ==
    SendAndClose(Send(c, <<HeadUnit(k, status, 1, TRUE), Words(k)>>))
SendRedirect(c, k) == Send(c, <<HeadUnit(k, 301, 1, FALSE), Words(k)>>)
SendOptions(c, k) == SendAndClose(Send(c, <<HeadUnit(k, 200, ToClose, TRUE)>>))
SendListing(c, k) ==
    SendAndClose(Send(c, <<HeadUnit(k, 200, Chunked, TRUE), Words(k), Final(k)>>))

Window(c) == Max({0, SendWindow - Len(c.send)})
PieceToEnd(c) ==    \* mutant: the length that was announced is not looked at
    Min({Window(c), c.file.size - c.file.pos})
(* As much of the file as the window and the length that was announced     *)
(* allow, and no more than the file still has.                             *)
Piece(c) == Min({Window(c), c.file.cl - c.file.sent, c.file.size - c.file.pos})

(* mg_http_transfer_file_data.                                             *)
Transfer(c) ==
    LET f == c.file
        n == Piece(c)
        c1 == [Send(c, [i \in 1 .. n |-> Byte(f.req, f.pos + i)])
                 EXCEPT !.file.pos = @ + n, !.file.sent = @ + n]
    IN IF ~f.open THEN c
       ELSE IF c1.file.sent < f.cl THEN c1
       ELSE LET c2 == [c1 EXCEPT !.file = NoFile]
            IN IF f.keep THEN c2 ELSE SendAndClose(c2)

(* mg_http_serve_file.  A range whose end is past the file is refused.     *)
ServeFile(c, k) ==
    LET r == asked[k]
        to == IF r.range.to = ToEnd THEN r.size - 1 ELSE r.range.to
        ranged == r.range # NoRange
        bad == r.range.from > to \/ to >= r.size
        status == IF ~ranged THEN 200 ELSE IF bad THEN 416 ELSE 206
        cl == CASE status = 200 -> r.size
                [] status = 416 -> 0
                [] OTHER -> to - r.range.from + 1
        f == [c.file EXCEPT !.open = TRUE, !.req = k, !.size = r.size, !.cl = cl,
                            !.pos = IF status = 206 THEN r.range.from ELSE 0,
                            !.keep = r.keep]
    IN Transfer([Send(c, <<HeadUnit(k, status, cl, ~r.keep)>>) EXCEPT !.file = f])

(* mg_serve_http and mg_send_http_file, for a directory without an index   *)
(* file and no CGI or SSI file, which the document root has none of.       *)
ServeHttp(c, k) ==
    LET r == asked[k] IN
    IF r.what = "folder" THEN Send(c, <<HeadUnit(k, 301, 0, FALSE)>>)
    ELSE IF r.what = "below_file" THEN SendError(c, k, 501)
    ELSE IF r.what = "missing" THEN SendError(c, k, 404)
    ELSE IF r.method = "OPTIONS" THEN SendOptions(c, k)
    ELSE IF r.what = "listing" THEN SendListing(c, k)
    ELSE IF r.fresh THEN SendError(c, k, 304)
    ELSE ServeFile(c, k)

(* ev_handler on MG_EV_HTTP_REQUEST.                                       *)
HandleRequest(c, k) ==
    IF asked[k].what = "/" THEN SendRedirect(c, k) ELSE ServeHttp(c, k)

-----------------------------------------------------------------------------
(* mg_http_handler *)

OnlyNew(c, n) == n  \* mutant: the bytes of earlier events are not counted
Rcvd(c, n) == c.rcvd + n

(* On MG_EV_RECV of n bytes, which are in recv already.                    *)
Receive(c, n) ==
    LET len == RequestLen(c.recv)
        k == c.recv[1].req
        r == asked[k]
        chunked == len > 0 /\ r.chunks # <<>>
        body == SubSeq(c.recv, len + 1, Len(c.recv))
        x == Collapse(SubSeq(body, 1, c.bodyLen),
                      SubSeq(body, c.bodyLen + 1, Len(body)))
        c1 == [c EXCEPT !.rcvd = Rcvd(c, n)]
        c2 == IF ~chunked THEN c1
              ELSE [c1 EXCEPT !.recv = SubSeq(c.recv, 1, len) \o x.body \o x.rest,
                              !.bodyLen = Len(x.body)]
        message == IF chunked /\ x.last THEN Len(c2.recv) ELSE MessageLen(r, len)
        c3 == HandleRequest(c2, k)
    IN IF len = 0
       THEN IF Len(c.recv) >= RequestLimit THEN CloseNow(c1) ELSE c1
       ELSE IF message = Unknown \/ message > c2.rcvd THEN c2
       ELSE [c3 EXCEPT !.recv = SubSeq(@, message + 1, Len(@)), !.rcvd = 0]

(* On MG_EV_CLOSE a request left in recv is run; what it answers is lost   *)
(* with the connection (mg_close_conn).                                    *)
Closed(c) == [c EXCEPT !.up = FALSE, !.recv = <<>>, !.send = <<>>,
                       !.rcvd = 0, !.bodyLen = 0, !.file = NoFile]

-----------------------------------------------------------------------------
(* The socket: one turn of mg_mgr_handle_conn, then the sweep              *)

(* mg_handle_tcp_read puts n bytes in recv; none means the end, or a       *)
(* reset.                                                                  *)
ReadTcp(c, n) ==
    IF n > 0 THEN [c EXCEPT !.recv = @ \o SubSeq(wire, 1, n)]
    ELSE IF client = "fin" THEN SendAndClose(c)
    ELSE CloseNow(c)

(* mg_write_to_socket puts n units on the socket, or fails.                *)
WriteTcp(c, n) ==
    IF client = "gone" THEN CloseNow(c)
    ELSE [c EXCEPT !.send = SubSeq(@, n + 1, Len(@))]

Sweep(c) ==
    IF "CLOSE_IMMEDIATELY" \in c.flags
         \/ (c.send = <<>> /\ "SEND_AND_CLOSE" \in c.flags)
    THEN Closed(c) ELSE c

HttpInit ==
    /\ conn = [up |-> TRUE, recv |-> <<>>, rcvd |-> 0, bodyLen |-> 0,
               file |-> NoFile, send |-> <<>>, flags |-> {}]
    /\ wire = <<>> /\ asked = <<>> /\ arrived = <<>> /\ client = "up"

Usable(c) == "CLOSE_IMMEDIATELY" \notin c.flags

(* The turn reads n bytes if select found the socket readable, and writes  *)
(* m units if it found room; what there is to do was asked before the turn *)
(* began.  Every event moves a file on, before it is looked at: c1 and c2  *)
(* are the connection after the read and MG_EV_RECV, c3 and c4 after the   *)
(* write and MG_EV_SEND, c5 after MG_EV_POLL.                              *)
Turn(n, m) ==
    LET readable == wire # <<>> \/ client # "up"
        writable == conn.send # <<>> /\ (m > 0 \/ client = "gone")
    IN /\ conn.up
       /\ \E c1 \in {IF readable THEN ReadTcp(conn, n) ELSE conn} :
          \E moved \in {IF n > 0 THEN Transfer(c1) ELSE c1} :
          \E c2 \in {IF n > 0 THEN Receive(moved, n) ELSE moved} :
          LET writes == Usable(c2) /\ writable IN
          /\ m > 0 => writes /\ m <= Len(c2.send) /\ client # "gone"
          /\ \E c3 \in {IF writes THEN WriteTcp(c2, m) ELSE c2} :
             \E c4 \in {IF writes THEN Transfer(c3) ELSE c3} :
             \E c5 \in {IF Usable(c2) THEN Transfer(c4) ELSE c4} :
                conn' = Sweep(c5)
          /\ arrived' = arrived \o SubSeq(c2.send, 1, m)
       /\ wire' = SubSeq(wire, n + 1, Len(wire))
       /\ UNCHANGED <<asked, client>>

MaxUnits == SendWindow + 4
ConnTurn ==
    \E n \in (IF wire = <<>> THEN {0} ELSE 1 .. Len(wire)), m \in 0 .. MaxUnits :
        Turn(n, m)

-----------------------------------------------------------------------------
(* The client *)

Units(k) == [req : {k}, part : {"head", "byte", "text", "final"}, n : Nat, len : Int,
             closes : BOOLEAN]
Response(k) == Sublist(arrived, Units(k))
(* The answer to request k is whole, by what its header announces.         *)
Complete(k) ==
    LET a == Response(k) IN
    /\ a # <<>>
    /\ \/ a[1].len >= 0 /\ Len(a) = a[1].len + 1
       \/ a[1].len = Chunked /\ Last(a).part = "final"
       \/ a[1].len = ToClose /\ ~conn.up

MayAsk ==
    \/ asked = <<>>
    \/ Complete(Len(asked)) /\ ~Response(Len(asked))[1].closes

AskFor(r) ==
    /\ client = "up" /\ conn.up /\ Len(asked) < MaxAsked /\ MayAsk
    /\ r.chunks # <<>> => \A k \in 1 .. Len(asked) : asked[k].chunks = <<>>
    /\ asked' = Append(asked, r)
    /\ wire' = wire \o RequestBytes(Len(asked) + 1, r)
    /\ UNCHANGED <<conn, arrived, client>>

(* It shuts down its side and waits for what is still to come.             *)
ShutDown ==
    /\ client = "up" /\ asked # <<>>
    /\ client' = "fin"
    /\ UNCHANGED <<conn, wire, asked, arrived>>

Vanish ==
    /\ client # "gone" /\ asked # <<>>
    /\ client' = "gone" /\ wire' = <<>>
    /\ UNCHANGED <<conn, asked, arrived>>

HttpNext == (\E r \in RequestKinds : AskFor(r)) \/ ShutDown \/ Vanish \/ ConnTurn

HttpSpec == HttpInit /\ [][HttpNext]_httpVars

-----------------------------------------------------------------------------
(* Properties *)

(* What the client asked for, byte by byte: the part of the file its Range *)
(* names.                                                                  *)
Wanted(r) ==
    LET first == IF r.range = NoRange THEN 1 ELSE r.range.from + 1
        last == IF r.range = NoRange \/ r.range.to = ToEnd
                THEN r.size ELSE r.range.to + 1
    IN [i \in 1 .. Max({0, last - first + 1}) |-> first + i - 1]

(* One header first, then never more than it announces; a file's bytes are *)
(* the ones asked for, in order, and the length announced is theirs.       *)
RightSoFar(k, r, a) ==
    /\ a[1].part = "head"
    /\ \A i \in 2 .. Len(a) : a[i].part # "head"
    /\ a[1].len >= 0 => Len(a) <= a[1].len + 1
    /\ a[1].n \in {200, 206} /\ a[1].len >= 0 =>
         /\ a[1].len = Len(Wanted(r))
         /\ \A i \in 2 .. Len(a) : a[i] = Byte(k, Wanted(r)[i - 1])

(* However the requests are cut and the file goes out, the responses come  *)
(* in the order of the requests, and each is what was asked for.           *)
AnswersExact ==
    /\ \A i, j \in 1 .. Len(arrived) : i < j => arrived[i].req <= arrived[j].req
    /\ \A k \in 1 .. Len(asked) :
          Response(k) # <<>> => RightSoFar(k, asked[k], Response(k))

(* Every request is answered in full in the end, a client that has shut    *)
(* down its side included, unless the client is gone.                      *)
EveryRequestAnswered ==
    \A k \in 1 .. MaxAsked :
        (Len(asked) >= k) ~> ((Len(asked) >= k /\ Complete(k)) \/ client = "gone")
=============================================================================

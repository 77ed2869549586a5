------------------------------- MODULE Stream -------------------------------
(***************************************************************************)
(* One buffered connection of the CLI (utils/stream.c): what its owner     *)
(* writes goes straight to the socket while tx_buf is empty, and behind    *)
(* tx_buf once it is not; the select loop of IoDriver drains tx_buf.       *)
(*                                                                         *)
(* Bytes are numbered in the order the owner writes them.  tx_buf is the   *)
(* FIFO CircBuffer implements.  The owner (cli_telnet.c) writes from the   *)
(* callback for received data, and from the listening socket's callback    *)
(* when it has just set the connection up.                                 *)
(***************************************************************************)
EXTENDS Integers, Sequences, FiniteSets
LOCAL INSTANCE SequencesExt

CONSTANTS
    TxSize,     \* tx_buf_size
    Chunk,      \* the 128 bytes handle_tx_event moves at a time
    SockSize,   \* what the kernel's send buffer holds
    Lens,       \* bound: the lengths the owner writes
    MaxBytes    \* bound: the bytes the owner writes in all

ASSUME SizesAssumption ==
    /\ TxSize \in Nat /\ Chunk \in Nat \ {0} /\ SockSize \in Nat \ {0}
    /\ Lens \subseteq Nat \ {0} /\ MaxBytes \in Nat

VARIABLES
    txBuf,      \* stream->tx_buf
    watched,    \* the watcher's event_listening
    sock,       \* the kernel's send buffer
    peer,       \* the other end: "up", "urgent" (sent OOB data), "fin", "reset"
    input,      \* received data awaits the owner
    received,   \* what the other end has read
    pc,         \* "idle", "round", "call" (owner's callback), "closed", "crashed"
    todo,       \* the events select reported that are not handled yet
    next,       \* history: the number of the owner's next byte
    refused,    \* history: bytes no stream_write stored anywhere
    discarded   \* history: bytes lost with the connection

vars == <<txBuf, watched, sock, peer, input, received, pc, todo,
          next, refused, discarded>>
envVars == <<peer, input, received>>

Elems(s) == {s[i] : i \in DOMAIN s}
Bytes(from, to) == [i \in 1 .. to - from + 1 |-> from + i - 1]
Room == SockSize - Len(sock)

(* stream_init_with_fd, in the callback that accepted the connection. *)
Init ==
    /\ txBuf = <<>>
    /\ watched = {"RX", "EX"}
    /\ sock = <<>>
    /\ peer = "up"
    /\ input = FALSE
    /\ received = <<>>
    /\ pc = "call"
    /\ todo = {}
    /\ next = 1
    /\ refused = {}
    /\ discarded = {}

-----------------------------------------------------------------------------
(* stream_write *)

(* The end of every stream_write: its n bytes have had their numbers.  No  *)
(* caller looks at its result (cli_telnet.c:66 and 157).                   *)
Answer(n) ==
    /\ next' = next + n
    /\ UNCHANGED <<pc, todo, discarded>>
    /\ UNCHANGED envVars

(* Bytes wait in tx_buf: these go behind them, all or none. *)
WriteBehind(n) ==
    LET data == Bytes(next, next + n - 1) IN
    /\ txBuf # <<>>
    /\ \/ /\ Len(txBuf) + n <= TxSize
          /\ txBuf' = txBuf \o data
          /\ Answer(n)
          /\ UNCHANGED refused
       \/ /\ Len(txBuf) + n > TxSize
          /\ Answer(n)
          /\ refused' = refused \union Elems(data)
          /\ UNCHANGED txBuf
    /\ UNCHANGED <<watched, sock>>

(* write fails: the connection is reset. *)
WriteError(n) ==
    /\ txBuf = <<>>
    /\ peer = "reset"
    /\ Answer(n)
    /\ refused' = refused \union (next .. next + n - 1)
    /\ UNCHANGED <<txBuf, watched, sock>>

(* circ_buffer_put returns 0 when the rest fits, and 0 == FALSE: the rest  *)
(* is queued, FALSE is returned and TX is not watched.  When it does not   *)
(* fit, TX is watched, the rest is gone and TRUE is returned.              *)
Queue(n, put) ==
    LET rest == Bytes(next + put, next + n - 1) IN
    \/ /\ Len(rest) <= TxSize
       /\ txBuf' = rest
       /\ Answer(n)
       /\ UNCHANGED <<refused, watched>>
    \/ /\ Len(rest) > TxSize
       /\ watched' = watched \union {"TX"}
       /\ Answer(n)
       /\ refused' = refused \union Elems(rest)
       /\ UNCHANGED txBuf

WriteAnyway(n) ==       \* mutant: tx_buf is not looked at first
    /\ peer # "reset"
    /\ \E put \in 0 .. n :
        /\ put <= Room
        /\ put = 0 => Room = 0
        /\ sock' = sock \o Bytes(next, next + put - 1)
        /\ IF put = n THEN Answer(n) /\ UNCHANGED <<txBuf, watched, refused>>
                      ELSE Queue(n, put)

(* The kernel takes what it has room for, or a part of it; with no room    *)
(* write fails with EAGAIN, which counts as 0.                             *)
WriteThrough(n) ==
    /\ txBuf = <<>>
    /\ peer # "reset"
    /\ \E put \in 0 .. n :
        /\ put <= Room
        /\ put = 0 => Room = 0
        /\ sock' = sock \o Bytes(next, next + put - 1)
        /\ IF put = n THEN Answer(n) /\ UNCHANGED <<txBuf, watched, refused>>
                      ELSE Queue(n, put)

Write(n) ==
    /\ pc = "call"
    /\ next + n - 1 <= MaxBytes
    /\ WriteBehind(n) \/ WriteError(n) \/ WriteThrough(n)

-----------------------------------------------------------------------------
(* The select loop: RX, then TX, then EX. *)

Ready(e) ==
    /\ e \in watched
    /\ \/ peer = "reset"
       \/ e = "RX" /\ (input \/ peer = "fin")
       \/ e = "TX" /\ Room > 0
       \/ e = "EX" /\ peer = "urgent"

Select ==
    /\ pc = "idle"
    /\ \E e \in watched : Ready(e)
    /\ pc' = "round"
    /\ todo' = {e \in watched : Ready(e)}
    /\ UNCHANGED <<txBuf, watched, sock, next, refused, discarded>>
    /\ UNCHANGED envVars

EndRound ==
    /\ pc = "round"
    /\ todo = {}
    /\ pc' = "idle"
    /\ UNCHANGED <<txBuf, watched, sock, todo, next, refused, discarded>>
    /\ UNCHANGED envVars

(* dealloc_cli_connection, on eof or error.  The loop goes on to test the  *)
(* released watcher's mask, which the model takes to read 0.               *)
Close ==
    /\ pc' = "closed"
    /\ txBuf' = <<>>
    /\ watched' = {}
    /\ sock' = <<>>
    /\ todo' = {}
    /\ discarded' = discarded \union Elems(txBuf) \union Elems(sock)
    /\ UNCHANGED <<next, refused>>
    /\ UNCHANGED envVars

(* stream_watcher_callback for RX: data for the owner, eof or error.       *)
HandleRx ==
    /\ pc = "round"
    /\ "RX" \in todo
    /\ \/ /\ input
          /\ input' = FALSE
          /\ pc' = "call"
          /\ todo' = todo \ {"RX"}
          /\ UNCHANGED <<txBuf, watched, sock, peer, received>>
          /\ UNCHANGED <<next, refused, discarded>>
       \/ (peer = "reset" \/ ~input) /\ Close

Return ==
    /\ pc = "call"
    /\ pc' = "round"
    /\ UNCHANGED <<txBuf, watched, sock, todo, next, refused, discarded>>
    /\ UNCHANGED envVars

Least(a, b) == IF a < b THEN a ELSE b

StopAlways == watched' = watched \ {"TX"}   \* mutant: TX is un-watched after any write

(* TX is un-watched once tx_buf is empty. *)
StopWhenDrained == watched' = IF txBuf' = <<>> THEN watched \ {"TX"} ELSE watched

MoveSome(n) ==          \* mutant: advances by len, not by what write took
    /\ sock' = sock \o SubSeq(txBuf, 1, n)
    /\ txBuf' = SubSeq(txBuf, Least(Len(txBuf), Chunk) + 1, Len(txBuf))

(* peek, write, advance by what write took. *)
Move(n) ==
    /\ sock' = sock \o SubSeq(txBuf, 1, n)
    /\ txBuf' = SubSeq(txBuf, n + 1, Len(txBuf))

IdleNoStop == UNCHANGED watched         \* mutant: an empty tx_buf just returns

(* Nothing to send. *)
IdleStop == watched' = watched \ {"TX"}

(* stream_handle_tx_event: nothing to send, some of tx_buf sent, or a      *)
(* write that fails or takes nothing, which ends the program.              *)
HandleTx ==
    /\ pc = "round"
    /\ "TX" \in todo
    /\ "RX" \notin todo
    /\ todo' = todo \ {"TX"}
    /\ \/ /\ txBuf = <<>>
          /\ IdleStop
          /\ UNCHANGED <<txBuf, sock, pc>>
       \/ /\ txBuf # <<>>
          /\ peer # "reset"
          /\ \E n \in 1 .. Least(Len(txBuf), Chunk) :
                n <= Room /\ Move(n)
          /\ StopWhenDrained
          /\ UNCHANGED pc
       \/ /\ txBuf # <<>>
          /\ peer = "reset" \/ Room = 0
          /\ watched' = watched \ {"TX"}
          /\ pc' = "crashed"
          /\ UNCHANGED <<txBuf, sock>>
    /\ UNCHANGED <<next, refused, discarded>>
    /\ UNCHANGED envVars

(* Out-of-band data is an error to the stream. *)
HandleEx ==
    /\ pc = "round"
    /\ todo = {"EX"}
    /\ Close

-----------------------------------------------------------------------------
(* The other end and the network. *)

Alive == pc \notin {"closed", "crashed"}

PeerReads ==
    /\ Alive /\ peer # "reset"
    /\ sock # <<>>
    /\ received' = Append(received, Head(sock))
    /\ sock' = Tail(sock)
    /\ UNCHANGED <<txBuf, watched, peer, input, pc, todo>>
    /\ UNCHANGED <<next, refused, discarded>>

PeerSends ==
    /\ Alive /\ peer = "up"
    /\ input' = TRUE
    /\ UNCHANGED <<txBuf, watched, sock, peer, received, pc, todo>>
    /\ UNCHANGED <<next, refused, discarded>>

PeerTurns ==
    /\ Alive
    /\ \/ peer = "up" /\ peer' \in {"urgent", "fin", "reset"}
       \/ peer \in {"urgent", "fin"} /\ peer' = "reset"
    /\ IF peer' = "reset"
       THEN /\ sock' = <<>>
            /\ discarded' = discarded \union Elems(sock)
       ELSE UNCHANGED <<sock, discarded>>
    /\ UNCHANGED <<txBuf, watched, input, received, pc, todo, next, refused>>

StreamTurn == Select \/ EndRound \/ HandleRx \/ Return \/ HandleTx \/ HandleEx

Next ==
    \/ \E n \in Lens : Write(n)
    \/ StreamTurn
    \/ PeerReads \/ PeerSends \/ PeerTurns

(* The main thread runs on, and the owner's callbacks return. *)
Fairness == WF_vars(StreamTurn)

Spec == Init /\ [][Next]_vars /\ Fairness

-----------------------------------------------------------------------------
(* Properties. *)

(* Every variable has its type and tx_buf never exceeds its size. *)
TypeOK ==
    /\ txBuf \in Seq(Nat) /\ Len(txBuf) <= TxSize
    /\ watched \subseteq {"RX", "TX", "EX"}
    /\ sock \in Seq(Nat) /\ Len(sock) <= SockSize
    /\ peer \in {"up", "urgent", "fin", "reset"}
    /\ input \in BOOLEAN
    /\ received \in Seq(Nat)
    /\ pc \in {"idle", "round", "call", "closed", "crashed"}
    /\ todo \subseteq {"RX", "TX", "EX"}
    /\ next \in Nat \ {0}
    /\ refused \subseteq Nat /\ discarded \subseteq Nat

(* What the other end has, will get from the kernel and from tx_buf. *)
Sent == received \o sock \o txBuf

(* Nothing is sent twice or overtaken, however partial writes, direct      *)
(* writes and the drain of tx_buf interleave.                              *)
InOrder ==
    /\ \A i, j \in DOMAIN Sent : i < j => Sent[i] < Sent[j]
    /\ \A i \in DOMAIN Sent : Sent[i] < next

(* No byte vanishes without a trace: each one the owner wrote is on its    *)
(* way or there, or a stream_write did not store it, or the connection was *)
(* lost.                                                                   *)
Conservation ==
    /\ (1 .. next - 1) = Elems(Sent) \union refused \union discarded
    /\ Elems(Sent) \intersect (refused \union discarded) = {}

(* While TX is watched and the socket is not full for ever, tx_buf is      *)
(* drained, unless the connection or the program ends.                     *)
RoomAgain == []<>(Room > 0)
WatchedIsSent ==
    RoomAgain => (("TX" \in watched /\ txBuf # <<>>) ~> (txBuf = <<>> \/ ~Alive))

(* The loop does not spin on a writable socket with nothing to write: the  *)
(* TX watch ends.                                                          *)
TxWatchEnds == RoomAgain => ("TX" \in watched ~> ("TX" \notin watched \/ ~Alive))

(* stream.c:131-132: "something got queued up due to socket buffer full /  *)
(* tx watcher is alreadt started in this case".                            *)
QueuedIsWatched == pc = "idle" /\ txBuf # <<>> => "TX" \in watched

(* stream.c:38: "this should not happen". *)
NeverCrashes == pc # "crashed"
=============================================================================

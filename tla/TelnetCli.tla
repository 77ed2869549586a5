----------------------------- MODULE TelnetCli -----------------------------
(***************************************************************************)
(* A telnet session of the command line: the bytes of the stream go one by *)
(* one through the state machine of utils/telnet_reader.c, and what it     *)
(* takes for data through the line editor of utils/cli.c                   *)
(* (utils/cli_telnet.c connects the two and opens and closes sessions).    *)
(*                                                                         *)
(* Neither keeps anything from one rx_buf to the next but what is modelled *)
(* here, so one byte a step stands for every way to cut the input into     *)
(* buffers.  What a command does, and the echo's way through the stream,   *)
(* are left out; DO stands for DO, DONT, WILL and WONT, NOP for the other  *)
(* commands, and the option and parameters handed to telnet_rx_cmdback,    *)
(* which ignores them, for their number.                                   *)
(***************************************************************************)
EXTENDS Integers, Sequences
LOCAL INSTANCE SequencesExt

CONSTANTS
    Chars,      \* printable bytes: data where data is expected
    MaxLine,    \* CLI_MAX_COMMAND_LEN
    SubSize,    \* TELNET_READER_BUFFER_SIZE
    MaxWire     \* bound: bytes not read when more are sent

ASSUME SizesAssumption ==
    /\ MaxLine \in 1 .. 254     \* cmd_buffer_ndx is a uint8_t and reaches MaxLine + 1
    /\ SubSize \in 1 .. 255     \* so is buf_ndx
    /\ MaxWire \in Nat
ASSUME CharsAssumption == Chars \intersect {"IAC", "CR", "BS", "NUL"} = {}

Byte == Chars \union {"IAC", "DO", "SB", "SE", "NOP", "CR", "BS", "NUL"}
ReaderState == {"start", "rx_iac", "rx_do_dont_will_wont", "rx_sb", "wait_for_se"}

VARIABLES
    up,         \* a client is connected
    state,      \* telnet_reader_t: state
    bufNdx,     \* telnet_reader_t: buf_ndx
    cmdBuffer,  \* cli_intf_t: cmd_buffer and the byte behind it
    ndx,        \* cli_intf_t: cmd_buffer_ndx
    ran,        \* history: the last string cli_execute_command was given
    screen,     \* what the client's terminal shows behind the prompt
    lost,       \* the terminal took an echoed IAC for a command's first byte
    wire        \* bytes sent and not read; key is the history of what is meant

readerVars == <<state, bufNdx>>
lineVars == <<cmdBuffer, ndx, ran, screen, lost>>
vars == <<up, state, bufNdx, cmdBuffer, ndx, ran, screen, lost, wire>>

-----------------------------------------------------------------------------
(* What a client sends. *)

Wire(bytes, key) == [i \in DOMAIN bytes |-> [b |-> bytes[i], key |-> key]]

Keystroke == {Wire(<<b>>, TRUE) : b \in Chars \union {"CR", "BS"}}
                \union {Wire(<<"IAC">>, FALSE) \o Wire(<<"IAC">>, TRUE)}
Negotiation == {Wire(<<"IAC", "DO", b>>, FALSE) : b \in Byte}
Subnegotiation ==
    UNION {{Wire(<<"IAC", "SB">> \o [i \in 1 .. n |-> b] \o <<"IAC", "SE">>, FALSE) :
                b \in Byte \ {"IAC"}} : n \in 1 .. SubSize}
Item == Keystroke \union Negotiation \union Subnegotiation
            \union {Wire(<<"NUL">>, FALSE), Wire(<<"IAC", "NOP">>, FALSE)}

-----------------------------------------------------------------------------
(* cli_handle_rx for one byte. *)

Uint8(n) == n % 256

(* The string in a buffer: the bytes before the first 0. *)
CString(buffer) ==
    SubSeq(buffer, 1, (CHOOSE i \in DOMAIN buffer :
        buffer[i] = "NUL" /\ \A j \in 1 .. i - 1 : buffer[j] # "NUL") - 1)

RubAnyway ==        \* mutant: cmd_buffer_ndx > 0 is not tested
    /\ ndx' = Uint8(ndx - 1)
    /\ screen' = IF screen = <<>> THEN screen ELSE Front(screen)
    /\ UNCHANGED <<cmdBuffer, ran, lost>>

(* "\b \b" takes the last character off the terminal.  *)
Rub ==
    IF ndx > 0
    THEN /\ ndx' = Uint8(ndx - 1)
         /\ screen' = IF lost THEN screen ELSE Front(screen)
         /\ UNCHANGED <<cmdBuffer, ran, lost>>
    ELSE UNCHANGED lineVars

(* cli.c echoes the byte as it is.  A telnet client takes a lone IAC for   *)
(* the start of a command: it shows neither that nor what it makes part of *)
(* the command, and screen is not followed any further.                    *)
Echo(b) ==
    /\ lost' = (lost \/ b = "IAC")
    /\ screen' = IF lost' THEN <<>> ELSE Append(screen, b)

Type(b) ==
    /\ Echo(b)
    /\ cmdBuffer' = [cmdBuffer EXCEPT ![ndx + 1] = b]
    /\ ndx' = Uint8(ndx + 1)
    /\ UNCHANGED ran

(* The output and the prompt end a terminal's command, except that a       *)
(* subnegotiation (IAC SB) may swallow them as well.                       *)
Enter ==
    /\ cmdBuffer' = [cmdBuffer EXCEPT ![ndx + 1] = "NUL"]
    /\ ran' = CString(cmdBuffer')
    /\ ndx' = 0
    /\ screen' = <<>>
    /\ lost' \in IF "SB" \in Chars THEN {lost, FALSE} ELSE {FALSE}

EchoFirst(b) ==     \* mutant: the echo comes before the test for room
    IF b = "CR" THEN Enter
    ELSE IF ndx < MaxLine THEN IF b = "BS" THEN Rub ELSE Type(b)
    ELSE Echo(b) /\ UNCHANGED <<cmdBuffer, ndx, ran>>

HandleRx(b) ==
    IF b = "CR" THEN Enter
    ELSE IF ndx < MaxLine THEN IF b = "BS" THEN Rub ELSE Type(b)
    ELSE UNCHANGED lineVars

(* telnet_rx_databack *)
Databack(b) == IF b = "NUL" THEN UNCHANGED lineVars ELSE HandleRx(b)

-----------------------------------------------------------------------------
(* telnet_reader_state_machine for byte d. *)

MoveState(s) == state' = s

Start(d) ==
    /\ state = "start"
    /\ IF d = "IAC" THEN MoveState("rx_iac") /\ UNCHANGED lineVars
                    ELSE MoveState("start") /\ Databack(d)
    /\ UNCHANGED bufNdx

RxIac(d) ==
    /\ state = "rx_iac"
    /\ MoveState(CASE d = "DO" -> "rx_do_dont_will_wont"
                   [] d = "SB" -> "rx_sb"
                   [] OTHER    -> "start")
    /\ bufNdx' = IF d = "SB" THEN 0 ELSE bufNdx
    /\ IF d = "IAC" THEN Databack(d) ELSE UNCHANGED lineVars

RxOption ==
    /\ state = "rx_do_dont_will_wont"
    /\ MoveState("start")
    /\ UNCHANGED bufNdx /\ UNCHANGED lineVars

(* A parameter too many, or an IAC that is no IAC SE, ends the             *)
(* subnegotiation: the rest of it is then taken for data.                  *)
RxSub(d) ==
    /\ state = "rx_sb"
    /\ IF d = "IAC" THEN MoveState("wait_for_se") /\ UNCHANGED bufNdx
       ELSE IF bufNdx < SubSize THEN MoveState("rx_sb") /\ bufNdx' = Uint8(bufNdx + 1)
       ELSE MoveState("start") /\ UNCHANGED bufNdx
    /\ UNCHANGED lineVars

WaitForSe ==
    /\ state = "wait_for_se"
    /\ MoveState("start")
    /\ UNCHANGED bufNdx /\ UNCHANGED lineVars

(* stream_event_rx, one byte of it. *)
Feed ==
    /\ up
    /\ wire # <<>>
    /\ wire' = Tail(wire)
    /\ LET d == Head(wire).b IN
        Start(d) \/ RxIac(d) \/ RxOption \/ RxSub(d) \/ WaitForSe
    /\ UNCHANGED up

-----------------------------------------------------------------------------
(* Sessions. *)

Fresh ==
    /\ state = "start" /\ bufNdx = 0 /\ ndx = 0
    /\ cmdBuffer = [i \in 1 .. MaxLine + 1 |-> "NUL"]
    /\ ran = <<>> /\ screen = <<>> /\ lost = FALSE

Init == up = FALSE /\ Fresh /\ wire = <<>>

AcceptKeeps ==      \* mutant: telnet_reader_init is not called
    /\ ~up
    /\ up' = TRUE
    /\ cmdBuffer' = [cmdBuffer EXCEPT ![1] = "NUL"]
    /\ ndx' = 0 /\ ran' = <<>> /\ screen' = <<>> /\ lost' = FALSE /\ wire' = <<>>
    /\ UNCHANGED readerVars

(* alloc_cli_connection: the memory is that of an earlier session, and the *)
(* prompt comes of an Enter.                                               *)
Accept ==
    /\ ~up
    /\ up' = TRUE
    /\ state' = "start" /\ bufNdx' = 0
    /\ cmdBuffer' = [cmdBuffer EXCEPT ![1] = "NUL"]
    /\ ndx' = 0 /\ ran' = <<>> /\ screen' = <<>> /\ lost' = FALSE /\ wire' = <<>>

(* dealloc_cli_connection, on end of file behind all data or an error.     *)
Dealloc ==
    /\ up
    /\ up' = FALSE
    /\ wire' = <<>>
    /\ UNCHANGED readerVars /\ UNCHANGED lineVars

Send ==
    /\ up
    /\ \E item \in Item :
        /\ Len(wire) <= MaxWire
        /\ wire' = wire \o item
    /\ UNCHANGED up /\ UNCHANGED readerVars /\ UNCHANGED lineVars

Next == Accept \/ Dealloc \/ Feed \/ Send

(* The select loop of the main thread comes round to every watcher whose   *)
(* descriptor is ready (IoDriver).                                         *)
Spec == Init /\ [][Next]_vars /\ WF_vars(Feed)

-----------------------------------------------------------------------------
(* Properties. *)

(* Every variable has its type; the uint8_t indices never pass the byte    *)
(* behind cmd_buffer (padding of cli_intf_t) nor the end of tr->buffer.    *)
TypeOK ==
    /\ up \in BOOLEAN
    /\ state \in ReaderState
    /\ bufNdx \in 0 .. SubSize
    /\ cmdBuffer \in [1 .. MaxLine + 1 -> Byte]
    /\ ndx \in 0 .. MaxLine
    /\ ran \in Seq(Byte) /\ screen \in Seq(Byte) /\ lost \in BOOLEAN
    /\ wire \in Seq([b : Byte, key : BOOLEAN])

(* The string handed to cli_execute_command is what the terminal showed    *)
(* behind the prompt: echo and buffer agree through erasures, a full line, *)
(* the tail of a longer line before it, and a session cut off in a line.   *)
(* It is not so once the key 0xFF was typed: its echo is not escaped, the  *)
(* terminal loses it and what follows, and the line is executed unseen.    *)
ExecutesWhatIsShown == [][ran' \in {ran, screen} \/ lost \/ ~up]_vars

(* The session is a command line: the keys of the input, and nothing of    *)
(* the telnet protocol around them, reach it once and in order, and the    *)
(* string executed is the line as edited.                                  *)
KeysIn(w) ==
    LET typed[i \in 0 .. Len(w)] ==
            IF i = 0 THEN <<>>
            ELSE IF w[i].key THEN Append(typed[i - 1], w[i].b) ELSE typed[i - 1]
    IN  typed[Len(w)]
Keys == KeysIn(wire)
Session == INSTANCE CommandLine WITH
    Chars <- Chars \union {"IAC"}, Enter <- "CR", Rub <- "BS",
    keys <- Keys,
    line <- IF up THEN SubSeq(cmdBuffer, 1, ndx) ELSE <<>>,
    ran  <- IF up THEN ran ELSE <<>>
ImplementsCommandLine == Session!Spec
=============================================================================

# cam_server: a verification project

TLA+ models of `cam_server`, the TLC runs that check them on small instances, and
TLAPS proofs of the facts that should hold for every value of the constants.
Source files are named from the repository's `src/` directory (`main/`, `utils/`,
`mongoose/`, `mmal/`). `PROJECT.json` lists the components, the runs, the mutant
of every checked property, the source lines of every definition, the hazards, the
findings and the theorems.

    tlc -config CamFeedRing.cfg MCCamFeed      # a run: see the table in section 4
    tlapm CamFeedProofs.tla                    # a proof module

Contents: 1 inventory, 2 how the parts interact, 3 modules and the code, 4 runs
and bounds, 5 fairness, 6 proofs, 7 what the checks found, 8 what is not
modelled, 9 plan.

## 1. Inventory

cam_server captures pictures from a V4L2 camera and streams them to browsers as
HTTP/MJPEG; a telnet command line shows and sets a few things. Two builds: the
desktop build publishes the camera's MJPEG frames as they come; the Raspberry Pi
build (`RPI`, `USE_FRAME_CONVERTER`) decodes, draws on and re-encodes each one
into a ring of 16 buffers, lights an LED while someone watches, and reads a sensor.

| component | state | operations | what makes it correct | modelled |
|---|---|---|---|---|
| **Live feed hand-over** `main/camera_driver.c`, `main/frame_converter_rpi.c`, `main/webserver.c`, `mg_broadcast` | the frame buffer or ring and its index, the control socket pair, who has the feed | capture, convert, broadcast, answer, copy to each connection, subscribe, close | each client gets each frame once, whole and in order; the camera thread never hangs | yes |
| **I/O driver** `utils/io_driver.c` | `driver->watchers`, `run_list`, each watcher's mask and descriptor, the `fd_set`s | watch, no_watch, one select round | lists stay well formed whatever callbacks do; nobody is skipped, called twice or called on a stale readiness; a round ends | yes |
| **Buffered stream** `utils/stream.c` | `tx_buf`, the watch mask, the socket | write, RX/TX/EX events, close | bytes in order, none lost silently, queued bytes are sent, no crash | yes |
| **Web connections** `main/webserver.c` on `mongoose/mongoose.c` | per connection: flags, `recv_mbuf`, `send_mbuf`, the file being sent, a message being put together; `_cam_conns`, LED | accept, read, parse, answer, broadcast, write, close | the count and LED follow the feed clients; a feed is well formed; a lost client is released; each answer is what was asked for | the parts `webserver.c` reaches |
| **Telnet command line** `utils/telnet_reader.c`, `utils/cli.c`, `utils/cli_telnet.c` | reader state, `cmd_buffer` and its index | one received byte; connect, disconnect | what is executed is what the terminal shows; the telnet protocol never reaches the editor | without the commands |
| **V4L2 capture** `main/v4l2_camera.c` | mmapped buffers, `head`, the kernel's queue | open, start, capture, stop | every buffer goes back to the kernel; `head` is the newest frame, whole | yes |
| **Camera driver** `main/camera_driver.c` | watcher, timer; the camera's controls | capture callback, set-up of the timer, get and set | listeners get each frame; a control changes what it names | without the fps counter |
| **Telnet server** `utils/tcp_server.c`, `utils/cli_telnet.c`, `utils/cli.c` | listening socket, lists of connections and of interfaces, descriptors | start, accept, close, `cli_conn` | descriptors are closed once; the lists agree; whoever waits is served | without stop |
| **AM2320 sensor task** `main/am2320.c` | the bus message, last temperature and humidity under a mutex | read, check, publish, `temp` | what is printed is one reading, never a damaged one | yes |
| **Raspberry Pi converter and codec** `main/frame_converter_rpi.c`, `main/brcmjpeg_encode.c`, `mmal/brcmjpeg.c` | ports, their buffers and queues, semaphores, the output buffer | decode, encode, disable ports | a buffer is lost only where its send fails; what is published is this frame's encoding; a conversion ends | control, not pixels |
| **Start-up** `main/main.c`, `utils/completion.h` | what has been initialised, a completion on a stack | the init functions, the web thread's start | nothing is used before it is ready nor after it is gone | yes |
| **Circular buffer** `utils/circ_buffer.c` | array, `begin`, `end`, `data_size` | put, get, peek, advance, reset | it is a FIFO of `size` bytes | yes |
| **Soft timer** `utils/soft_timer.c` | a wheel of lists, tick | add, delete, tick | each timer expires once, at its time, whatever handlers do | yes |
| **Linked lists** `utils/generic_list.h` | `next` and `prev` of each node | add, delete, move, replace, cut, splice | they are sequences | yes |
| libgd converter, notifier, JSON, front end | - | - | dead, not compiled, vendored or not executable here | no (section 8) |

## 2. How the parts interact

* The **main thread** calls `io_driver_run` for ever (`main/main.c:262`). The
  camera, the one-second timer, the telnet listener and every telnet connection
  are watchers of its one `select` loop, so their callbacks never overlap; they
  do call back into the driver and change its lists in the middle of a round.
* The **web thread** calls `mg_mgr_poll` for ever (`main/webserver.c:170`):
  select, then the control socket, one accept, reads, writes, then the sweep that
  closes connections.
* The two meet in `mg_broadcast`: the main thread writes a message holding a
  *pointer* to the frame to a socket pair and blocks until a byte comes back. The
  web thread sends that byte *before* it runs the callbacks that copy the frame
  (`mongoose/mongoose.c:3703`). This is the one place where two threads touch the
  same memory; the ring of buffers is what protects it.
* On the Raspberry Pi a third thread reads the sensor and shares two floats under
  a mutex, and the descriptor table with everyone; MMAL's threads fill buffers
  and post the semaphores on which the main thread waits within a conversion.

Hard behaviour, therefore: two threads over one frame buffer; a broadcast among
connections that come and go; callbacks that edit the list being walked; a file
descriptor number reused within one round; partial writes, a full socket and a
peer that resets at any point; requests, frames of a web socket and telnet
negotiations that arrive cut anywhere; ioctls, allocations and a bus that fail in
the middle of a sequence. `PROJECT.json` lists these as hazards, each at the line
where it bites.

## 3. Modules and the code

| module | role |
|---|---|
| `FrameFeed` | abstract: every subscribed client is handed every published frame once, whole, in order, and is eventually served |
| `CamFeed` | both threads' part in a broadcast; implements `FrameFeed` |
| `IoDriver` | the select loop and arbitrary callbacks |
| `Stream` | one buffered connection in a select loop, its owner, its peer |
| `WebServer` | the web thread's connections, turn by turn |
| `HttpServe` | one connection that asks for pages and files, byte by byte |
| `UriPath` | from a URI to a file |
| `WebSocket` | one connection that speaks web socket frames |
| `CommandLine` | abstract: a line editor fed with keys |
| `TelnetCli` | the two byte-level state machines of a session; implements `CommandLine` |
| `CliServer` | the telnet listener, its connections, their descriptors |
| `V4l2Camera`, `CameraDriver` | capture from the device, and the callbacks above it |
| `CameraControls` | the `control` command down to the ioctls |
| `SensorData`, `Am2320`, `ModbusCrc` | the sensor thread against the `temp` command; what `am2321` makes of a message; the checksum by its definition |
| `JpegCodec` | one frame through decoder and encoder against MMAL's threads |
| `Startup` | `main` and what it initialises, the web thread's start |
| `ByteFifo`, `CircBuffer` | abstract: a bounded queue of bytes with all-or-nothing calls; the array that implements it |
| `Deadlines`, `SoftTimer` | abstract: timers that are each called once, on time; the wheel that implements it |
| `ListSeqs`, `GenericList` | abstract: disjoint sequences; the pointers that implement them |
| `Sublists` | the walk over a list that keeps some entries |
| `MC*` | constants for TLC, and the runs that hold several components |
| `*Proofs` | TLAPS proofs about the module they extend |

**CamFeed.** Main thread: `CaptureOk`/`CaptureFail` (`v4l2_camera_capture`, whose
result `camera_capture_callback` ignores), `WritePart` (the memcpy into
`_cam.head`, or the encoder's output into `_buffers[_buffers_ndx]`), `Send` and
`RecvAck` (the two halves of `mg_broadcast`; the ring index moves after the
listeners return). Web thread: `HandleCtl` (receive, answer, begin the loop),
`BeginCopy`/`CopyPart`/`EndCopy` (`cam_feed_response_frame` on one connection),
`EndBroadcast`, and between broadcasts `Subscribe` and `Close`. A frame is named
by the number of its capture; memory is a set of parts written and read one at a
time in any order, so a copy that overlaps a write can see any mixture. `PartsOf`
says how much of a frame there is to copy: before the first capture `_cam.head` has
no length, and nothing of it is copied.
`UseConverter` selects the build. A subscription is one step here; the HTTP side
of it is in `WebServer`.

**IoDriver.** `SelectReturns` (preselect, select and the splice of all watchers to
`run_list`), `Take` (one turn of the `while` loop: the watcher goes back to
`driver->watchers` before it is called), `Call`/`Skip`/`CallbackReturns` for
RX, then TX, then EX. `Watch`, `NoWatch`, `Open` and `CloseFd` are what a callback may do, in
any number and order, to any watcher; a new descriptor is any that no watcher has
(the web thread opens and closes others meanwhile). `owed` and
`opened` are history. The one thing taken from the program and not
from the driver: no callback closes its own watcher and re-initialises the same
memory before it returns.

**Stream.** It uses the FIFO that `CircBuffer` implements, for one watcher of the
loop `IoDriver` models, and composes them with the kernel's send buffer and the
peer. `WriteBehind`, `WriteError`, `WriteThrough` and `Queue` are the branches of
`stream_write`; `HandleRx`, `HandleTx` and `HandleEx` those of the event handlers.
Bytes are numbered in writing order. `circ_buffer_put` returns 0 when it succeeds,
and `Queue` follows the code's use of that result (section 7).

**WebServer.** One action per stage of `mg_socket_if_poll`: `Select`, `Cast` (a
broadcast, one step here because `CamFeed` has taken it apart), `Accept`, `Read`
with `Serve` for the event handler, `Write`, `Close` with `Uncount`. It keeps
mongoose's detail that an incomplete read leaves a request in `recv_mbuf`, and
that a request left there is run when the connection closes. The socket's buffer
limits are nondeterministic.

**HttpServe.** What `WebServer` takes for one step, taken apart for one
connection. `ConnTurn` is `mg_mgr_handle_conn` followed by the sweep: `ReadTcp`
with `Receive` (`mg_http_handler`: find the header's end, `MessageLen`, `Collapse`
and `TakeChunk` for chunks, the counter `pd->rcvd`), `ServeHttp` (`mg_serve_http`: errors,
redirect, listing, `ServeFile` with its `Range`), `Transfer` (at most
`MG_MAX_HTTP_SEND_MBUF` of a file in the send buffer), `WriteTcp`, the poll event,
and `Closed`. A request is its header in two pieces and its body; a response one
header unit and its bytes, each byte named by its place in the file. The client
asks again when it has the whole answer, on a connection it was not told to give
up, shuts down its side, or vanishes.

**UriPath.** `NormalizeComponent` is one turn of `mg_normalize_uri_path`'s loop,
which writes the URI over itself; `Back` is its step back over `..`;
`WalkComponent` one turn of `mg_uri_to_local_path`, which decodes a component
(`Decode`), steps over `.` and `..` that were encoded (`Parent`), refuses a slash
or a NUL, and looks the path up. The property compares with a definition that
never sees characters: resolve the components, then walk folders. `Text`, `Kept`
and `Names` are recursive functions whose one step has a name, so that they can be
proved about.

**WebSocket.** `ReadStream` brings any number of bytes; `Deliver` is
`mg_deliver_websocket_data` once: `Misplaced`, `Incomplete`, `Fragment`,
`WholeMessage`. A byte of payload is named by its frame and place and knows
whether it is masked, and `recv_mbuf` holds the message being put together in
front of what is unread, as the code has it. `meant` is history: what the client
means by the frames it has sent, a message at a time (`MeantBy`), which the
property compares with what the handler was called with.

**TelnetCli.** One byte per step of `telnet_reader_state_machine` and, for data,
of `cli_handle_rx`. Bytes carry a history bit `key`: whether the client means a
key. `CommandLine` sees only the keys (`KeysIn`); the mapping takes its line from
`cmd_buffer[0 .. cmd_buffer_ndx - 1]`. `screen` is what the terminal shows of the
line. It shows what is echoed up to the first byte 0xFF: `cli_handle_rx` echoes a
key 0xFF (which arrives as IAC IAC) as it stands, and a terminal takes it for the
start of a command. From there on the model has the terminal `lost`.

**CliServer.** `StartServer` (a socket that could not be had leaves the flag set),
`AcceptClient` with `NewConnection` or `NoMemory`, `CloseConnection` (both lists
and the descriptor), `ShowConnections`. `SensorReadFails` is `am2320.c:60`, which
keeps a descriptor of the same table.

**V4l2Camera, CameraDriver.** Opening: `RequestBuffers` (the driver may grant
another number than asked; with fewer the code writes past `cam->buffers`, and the
model ends in the phase `overrun`), `MapBuffer`, `OpenFails`. Capture is three steps,
`VIDIOC_DQBUF`, `CopyHead`, `RequeueBuffer`, with `KernelFills` at any time; each
ioctl may fail. `CameraDriver` adds the watcher, `InitTimer` (which may leave
descriptor 0 behind), `StartCamera` (watched before the stream is on; the buffers
are queued in turn up to the first that fails) and `StopCamera`. `StdinReadable` is the null callback that follows.

**CameraControls.** The words of a line go through `control`'s parsing, by name to
`camera_driver_set_control` and from there to `SetRegister(c)`, the control id in
each of the twelve ioctl functions.

**SensorData, Am2320.** `am2320_task` step by step, with the lock, against
`cli_command_temp` step by step, for a set `Outcomes` of what `am2321` may return.
The runs give it what `am2321` makes of the messages of the bus, damaged ones
included (`Returned`). A message has its real 64 bits: `CalcCrc16` is the code's
loop, `ModbusCrc` the remainder of the polynomial division that defines the
checksum. A reading is a signed temperature, as the sensor means it; `Temp16` has
the code's `uint16_t`.

**JpegCodec.** The main thread's part (`Convert`) is the loops of
`brcmjpeg_decode` and `brcmjpeg_encode`: hand out empty buffers, take full ones,
else wait on the semaphore. MMAL's threads (`DecoderRuns`, `EncoderRuns`) fill a
buffer and then post; `EncodeFails`/`DecodeFails` are the error exits, and
`DisablePorts` makes every buffer of the encoder empty again. A buffer whose
`mmal_port_send_buffer` fails has left the pool and is never released: both error
exits may lose one (`lost` for the two ports with several, `out` and `pic` for the
decoder's output and the encoder's input, which have one), and nothing brings it
back.

**Startup.** One step per init function of the main thread and per stage of the
web thread; `ready` is what exists, and a step that uses what does not leaves it
in `astray`. The completion is on the stack of `webserver_init` and gone when it
returns.

**CircBuffer, SoftTimer, GenericList.** One action per function. `CircBuffer` has
one memcpy or two where the code has one or two, and `%` where the code has `%`;
`size = 0` is a failed allocation. `SoftTimer` splits `timer_tick` at each
handler, which may start and stop any timer; the tick is unsigned and wraps.
`GenericList` executes the assignments of each function one after the other over
`mem.next` and `mem.prev`; the refinement reads a list as `list_for_each` does.

Composition: `Stream` rests on `ByteFifo` (proved of `CircBuffer`) and on the loop
of `IoDriver` (proved: turns, no stale event), which rests on `ListSeqs` (proved
of `GenericList`); `CamFeed` rests on `WebServer` for when a connection enters and
leaves the feed, `WebServer` on `CamFeed` for a broadcast as one step and on
`HttpServe` for a request as one step; `CamFeed`'s captures are `CameraDriver`'s
and its converted frames `JpegCodec`'s; `TelnetCli`'s sessions are opened and
closed by `CliServer`. Checking each of a pair against the other's promise keeps
both small; no run composes all threads at once.

## 4. Runs and bounds

| run | instance | shows |
|---|---|---|
| `camfeed_ring` | ring build, 2 buffers, 2 clients, 2 parts, 3 frames | no torn frame; the main thread is never stuck; each frame reaches each client that stays; `FrameFeed` is implemented |
| `camfeed_direct` | desktop build, same size | frames in order; a torn frame mixes at most two neighbouring captures |
| `camfeed_direct_torn` | same | *violation* of `NoTornFrame` |
| `select_loop` | parts io_driver (3 watchers, 3 descriptors, one watcher with TX too) and stream (3 bytes of `tx_buf`, 2 of socket, 2 moved at a time, writes of 1, 3 and 4 bytes, 8 in all) | lists consistent; the round fixed at select; nobody skipped; no stale event although descriptors are reused within a round; every round ends; on a stream: order, conservation, watched data is sent, the TX watch ends |
| `stream_stall` | the stream alone, same size | *violation* of `QueuedIsWatched` |
| `stream_crash` | same | *violation* of `NeverCrashes` |
| `web_feed` | parts feed, uri, websocket | the client count and the LED explained, multipart order, lost clients released; a URI leads where its components say; web socket messages whole, in order, answered |
| `web_led` | 1 client | *violation* of `LedShowsFeed` |
| `telnet_cli` | lines of 2, a subnegotiation buffer of 2, at most one byte unread when the next item comes | types; the executed line is the one shown, unless a byte 0xFF was echoed; `CommandLine` implemented |
| `devices` | parts camera, controls, sensor, server, codec, startup, http | see below |
| `sensor_sign` | the sensor alone, as in `devices` | *violation* of `SignIsPrinted` |
| `structures` | parts circ_buffer, soft_timer, generic_list | `ByteFifo`, `Deadlines` and `ListSeqs` are implemented; every timer ends |

Four runs hold several components that share nothing. Their initial state
chooses one (`part`), and only that component moves: the run's states are the sum
of the components' states, not the product, and it checks exactly what a run of
each would. The properties of `devices`, by part:

* camera: `BuffersAccounted`, `HeadIsNewest`, `CaptureGoesOn`; controls:
  `ControlsReadBack` (a control reads back as it was set, for the three of six
  with a register of their own: hue and exposure share one by mistake and the JPEG
  quality reaches none, so those are exempted and their mistakes are in section 7;
  that a driver may clamp a value is not modelled); sensor: `PrintsOneReading`;
* server: `DescriptorsAccounted`, `EveryClientServed`; codec:
  `PortBuffersAccounted`, `EncodedInPlace`, `ConversionEnds`; startup:
  `NothingUsedUnready`; http: `AnswersExact`, `EveryRequestAnswered`.

Why these sizes:

* CamFeed: two buffers is the *smallest* ring for which the proof's assumption
  holds, so the hardest one (the code has 16); three frames wrap it while an old
  copy is under way; a second client waits while the first is served.
* IoDriver: the watcher being called, one it removes, one behind that; a watcher
  created in the round may take the number of one that is gone. The proof removes
  the bound.
* Stream: a write can go through, be split, be queued and be refused; a drain
  takes several rounds. 8 bytes fill everything twice. `MaxBytes` also bounds the
  owner: `WatchedIsSent` and `TxWatchEnds` are for an owner that stops writing in
  the end.
* WebServer: one client with the feed while the other comes and goes, or one that
  repeats its request; `MaxQueued` lets two requests arrive in one read.
* HttpServe: a file of 5 bytes goes out through a window of 2 in three pieces or
  more; requests for each outcome of `mg_serve_http`, four ranges, a body and a
  chunked body; a second request on a connection that has served the first.
* UriPath: four components are what it takes to step back twice and go on; the
  seven of them are the empty one, `.`, `..`, a name, `..` half encoded,
  an encoded slash and a broken encoding; the root holds a folder and in it a file
  of the same name, so the same text can be either.
* WebSocket: three frames make a fragmented message with a control frame in it;
  payloads of none and one byte; a two-byte length, so that a header too can be
  cut in more than one place.
* TelnetCli: a line of 2 is filled with two keys, so a full line, a rub-out in it
  and a shorter line after a longer one all occur. Items (a key, a negotiation, a
  subnegotiation) follow one another, and a session can end within any of them;
  the session reads byte by byte, so that more of them unread at once would add no
  order of bytes. `SE` and `SB` stand for data bytes that mean something to the
  reader in another state.
* Camera: two buffers asked for (the code asks for 8), up to three granted, so
  fewer, as many and more; buffers of two sizes; frame numbers 1 and 2 over and
  over tell a frame from the one before; one failing ioctl after the start shows
  what each leaves behind (two lose both buffers, and `CaptureGoesOn` exempts that).
* CliServer: four descriptors for the listener, two sessions and one leak, so the
  table can run full; three clients, a backlog of two.
* Am2320: `BadBits` are the first, last and middle bits of every byte; any one or
  two of them may flip. A CRC-16 detects every such error; what is checked is that
  the code's loop is that CRC.
* JpegCodec: an encoding of up to 3 chunks into a space of 2, over 2 buffers: it
  fits, fills exactly and does not fit, and buffers go round; frames follow one
  another, so each starts with what the last left, up to a pool that failed sends
  have emptied. A semaphore counts to `MaxPosts` = 1 here and drops what is beyond:
  the main thread looks at its queue after every wait, so a second spare post would
  only make it look once more, while a post that is dropped makes `ConversionEnds`
  harder to hold.
* CircBuffer: a put, get or peek can end before the array's end, at it, behind it,
  and not fit; size 1 wraps with every byte. SoftTimer: a wheel of 2 and a tick
  that wraps after 4, so a timeout can be less than a turn, more, none, and
  negative; 3 timers, one of which expires while another's handler stops it.
  GenericList: two lists, three entries: empty, singular, neighbours, and a middle.

`MaxFrames`, `MaxBytes`, `MaxRequests`, `MaxQueued`, `MaxWire`, `MaxAsked`,
`MaxSent`, `MaxPings`, `MaxFaults` and `MaxComponents` bound counters in guards
only; `MaxPosts` is where a counter stays; `Listenable`, `Lens`,
`Requests`, `RequestKinds`, `Components`, `Readings` and `Timeouts` bound
arguments. Where a run says `CHECK_DEADLOCK FALSE` the system may really stop: a
connection has ended, the program has exited, or a client has said all it will.

Every property of a passing run has a mutant: the definition it is about is
replaced by what a plausible slip in that code would be (the answer of
`mg_broadcast` not awaited, the node linked twice, the rest of a partial write
advanced too far, a flag not tested, the echo before the test for room, a buffer
not given back, the semaphore not awaited, a piece of a file without regard to
the range, the bytes of earlier events not counted, a step back that stops on the
slash, no control frame between fragments ...), and TLC then finds the property
violated.

## 5. Fairness

* **CamFeed.** `WF` of the main thread's continuation inside a callback: it is
  straight-line code and blocks only in `recv`, whose readiness is the guard of
  `RecvAck`. `WF` of `Serve`: the web thread polls in a `while (1)` and looks at
  the control socket first in each turn. A capture, a subscription and a close are
  never owed.
* **IoDriver.** `WF` of the loop's own steps, `CallbackReturns` included: callbacks are
  finite (each call they make is one step and they may always return). The kernel
  owes no event. `RoundEnds` therefore says: if callbacks return, rounds end. A
  callback that makes calls for ever is still cut off by the weak fairness of
  `CallbackReturns`.
* **Stream.** `WF` of the loop. The peer owes nothing, so the liveness properties
  carry `RoomAgain` (the socket has room again and again) as a hypothesis.
* **WebServer, HttpServe.** `WF` of one turn of `mg_mgr_poll` (`ConnTurn` for the
  one connection). A client that has sent a request owes nothing more.
* **TelnetCli, CliServer, CameraDriver's callback.** `WF` of the session's, the
  listener's and the camera's watcher: the select loop comes round to each, by
  `NobodySkipped` and `RoundEnds`. For the camera also `WF(KernelFills)`: a device
  whose stream is on and which has an empty buffer fills it in the end.
* **JpegCodec.** `WF` of the main thread within a conversion and of MMAL's two
  components: a hardware codec given a picture and buffers works on. No call is owed
  success: `ConversionEnds` ends in an idle codec or a dry pool.
* **SoftTimer.** `WF(TimerDrive)`: `timer_tick` is called periodically and
  handlers return.

## 6. Proofs

All assume only the modules' named `ASSUME`s, which state what the constants are
(a ring of at least two buffers, sizes positive, `NoConn` not a connection, a
finite set of list nodes). Each follows the same plan: an inductive invariant, one
lemma per action or group of actions, a `PTL` step.

* `RecursionProofs`. What the others need of the natural numbers: `LeastNumber`,
  and from it `CountUp` (what holds of 0 and passes from a number to the next
  holds up to n) and `Recursion` (the values a recursion takes exist). The
  library's induction theorems take an operator as parameter, which the provers
  cannot instantiate; these take sets and functions. With them a recursive
  function of a model (`Sublist`, `KeysIn`, the walk over a list) can be proved
  about.
* `StructureProofs`, the data structures.
  * `LayoutInvariant`, `TypeCorrect`, `CountersAgree`: `end` is `data_size` places
    after `begin`, round the array. With `PutFacts`, `OldestFacts` and `DropFacts`
    on what the split memcpys do, every step maps to one of `ByteFifo` or a
    stutter: `BufferIsAFifo` is the full refinement for every size and byte set.
  * `TimersKeepDeadlines`: `SoftTimer` implements `Deadlines` for any number of
    buckets and timers, any tick width and timeouts, with handlers that start and
    stop any timer. `WheelInv` says that a timer is in one bucket, the one of its
    tick's remainder, that `next` is in the bucket being walked, and that the time
    left (a difference of ticks that wrap) never passes the longest timeout;
    `TicksOfOnTime` that rounding down never calls early or a turn late.
  * `ListsAreSequences`: `GenericList` implements `ListSeqs`. `Ring(m, h, s)` says
    that next and prev run through the head h and s and back; `RingInsert`,
    `RingRemove`, `RingSplice` and `RingCut` follow the assignments of one
    function through every aliasing of the pointers it reads (no entry, one,
    neighbours), `RingElsewhere` says what they leave alone, and `Holds` puts the
    lists together. That `list_for_each` meets exactly s needs that s is no longer
    than the set of nodes, which is why the nodes are assumed finite.
* `CamFeedProofs`. `TypeCorrect`; `OneBroadcastAtATime`, with `InFlight` (the
  message on the socket is the current slot and frame); `FramesInOrder` in either
  build from `OrderInv`, which adds that nobody has a frame newer than the
  message being handled, and that one is not newer than the capture.
  `RingNeverTears` and `RingKeepsThreadsApart` for the ring build from `FeedInv`.
  No tearing is far from inductive: what is needed is `OneAhead` (while a
  broadcast is being copied the writer is exactly one slot past it, unless it
  still awaits the next answer for this very frame), so that with `NBuf >= 2` and
  `NextSlot(s) # s` the write goes elsewhere; and `Written`/`CopiedSoFar` (which
  parts hold what). It shows that two of the 16 buffers would do.
  `NeverPastNextCapture` bounds what the desktop build can mix: with `DirectInv`,
  what a client holds is of its frame or of the capture that followed, because the
  capture after that one waits for the answer to the next message.
  `FeedKeepsPromise` is the safety half of `ImplementsFeed` for the ring build:
  `PromiseInv` relates who has been served, who is being served and what is
  pending to the abstract feed, and every step maps to one of `FrameFeed`'s or a
  stutter.
* `IoDriverProofs`. `DriverInvariant`: the lists are disjoint, free of repetitions
  and together exactly the watchers with a non-empty mask; `run_list` is within
  what select saw, less what was taken or un-linked; nobody listed at select is
  forgotten; and `NoneReopened`, which makes `EventsAreNeverStale` follow: a
  watcher must be un-linked before it can be closed, and closed before it can be
  re-created, so no watcher of `run_list` is a new one. The list lemmas
  (`UnlinkFacts`, `LinkFacts`, `TakeFacts`) come first.
* `ConnectionProofs`, what goes over one connection. The three components share
  lemmas on how lists are cut and joined, since all three say that bytes may be
  cut anywhere.
  * `Stream`, for any buffer sizes and writes. `StreamInv` is types and
    `Accounted`: what has been written is, in order, what the peer has read, what
    is in the socket, what is in `tx_buf` and what is yet to come, with only
    refused writes missing. From it `InOrder` and `Conservation`.
  * `WebSocketDelivers` is `MessagesExact` for every set of payloads and of length
    encodings, any number of frames, cut anywhere. `SocketInv` says that there is
    a number k of frames the server is done with, such that what the handler got
    is what the client means by the first k (`sofar[k]`), and `recv_mbuf` from
    `reass_len` on, with the bytes on the wire, is exactly the frames after them
    (`toCome[k]`); in front of it is the open message so far. Because a frame can
    be told from the bytes it begins with (its header says how long it is), the
    server finds the same frame at the front of its buffer as the client put
    there. The one assumption, `FramesAssumption`, is that lengths are numbers.
  * `AnswersAreExact` is `AnswersExact` for every set of requests, any number of
    them on a connection, every window and limit. `HttpInv` says that the last
    request is either being taken in or answered (`Serves`). Taken in: p of its
    bytes have come, `rcvd` is p, and `recv` holds them as they came or, for a
    chunked body, the header, the data of the chunks met so far with the framing
    taken out, and what follows (`Collapsed`); `CollapseStands` shows that
    `mg_handle_chunked` leads from one such buffer to another wherever the cuts
    fall, and that the end is found when the last byte is there and not before.
    Answered: what has arrived and what is in `send_mbuf` is one header and a
    beginning of the bytes asked for, and an open file stands exactly where these
    stop, with as many bytes left as the header still owes (`Sending`), through
    every piece (`TransferMoves`). The client of the model awaits each answer and
    sends one chunked body at most (section 7 says why): that a whole answer
    leaves nothing behind in the connection (`CompleteIsDone`), and that no
    earlier body left its length there (`OneChunked`), is what the next request
    starts from. `RequestsAssumption`
    says what a request is: a body has one form, and the last chunk, and only
    that, is empty.
* `WebServerProofs`, for any number of clients. `ServerInv`: types, and `Tidy`
  (what a connection slot may hold at each stage, in particular that a connection
  marked closed keeps nothing pending but a request). `Counted` relates
  `_cam_conns` to a sum over the clients, by adding and removing one client from
  it, which gives `CountExplained`; `Fed` the shape of what has been sent, which
  gives `FeedWellFormed`.
  `UriLeadsExactly` is `PathExact` for every alphabet, every set of components,
  URIs of any length and any document root. `UriInv` says of the normalization
  that what has not been read stands as it came and that the output is the text of
  what the components read so far come to, with a slash behind it; of the walk,
  that the path is the one the first i components name and that none of them was a
  reason to stop. `Layout` places a component in a text, `BackFacts` and
  `ParentFacts` say where the search for a slash from the right ends, and
  `MovedUp` that what is moved up writes over nothing that is still to be read:
  the output is always shorter than what has been read.
* `TelnetCliProofs`. `SessionInvariant`: types, no zero byte in the line, and the
  terminal shows `cmd_buffer[0 .. ndx - 1]` as long as no byte 0xFF was echoed. From it `TypeCorrect` (the `uint8_t`
  indices stay in range for every line length up to 254) and `ShownIsExecuted`.
  The zero byte matters: the executed string ends at the first one.
  `SessionIsACommandLine` is the safety half of `ImplementsCommandLine`. What it
  needs beyond the editor is `InStep`: the bytes on the wire take the reader from
  the state it is in back to `start`, and what it will hand to the editor on the
  way are exactly the bytes meant as keys. The run of the reader over the wire is
  a function asserted to exist, so a received byte cuts its first step off
  (`UnderstoodFirst`) and an item sent appends its own (`UnderstoodConcat`,
  `ItemRead`); a subnegotiation's own run is where `SubSize` bounds its length.
* `DeviceProofs`, six components that share nothing.
  * `CameraInvariant`, for any number of buffers asked for, at least as many granted
    (with fewer the program has overrun its heap, and nothing is claimed), of any
    sizes, and any number of failing ioctls. `OnePlace` says that a buffer is
    queued, filled, in hand or lost, and only one of these, also while the stream
    is off (a failed `VIDIOC_STREAMON` leaves some queued); with it the kernel
    never writes the buffer being copied, which is what `FrameKept` needs. From it
    `NoBufferForgotten` (by counting: disjoint parts of a finite set) and
    `HeadStaysNewest`, for which `MappedInTurn` and `HeadHoldsAny` add that
    `cam->head` was allocated for the longest buffer of all.
  * `DescriptorsStayAccounted`, from `CliServerInv`: every open descriptor has one
    owner (the listener, one connection, a leak), and the two lists agree.
  * `BuffersStayAccounted` and `EncodedWithoutGap`, from `CodecInv`, which is a
    `DecoderInv` and an `EncoderInv`: a port's buffer is in one place or lost to a
    failed send, and the chunks in the output, in the port's queue and yet to be encoded are
    consecutive.
  * `StartedInOrder`, from `StartupInv`: what is ready at each step of the main
    thread and of the web thread, and why the completion outlives its last use.
  * `ControlReadsBack`, from `ControlsInv`.
  * `OneReadingPrinted`, from `SensorInv`: `_temp` and `_humi` are of one reading
    except between the two stores, when the lock is held and the command waits.
    That what `am2321` returns is a measurement but for its sign is a hypothesis of
    its second part, left to TLC.

The type invariants, the inductive invariants, `OneBroadcastAtATime` and
`RingKeepsThreadsApart` are proved and no longer repeated by a run (`TypeOK` of
`TelnetCli` excepted, whose bound on a `uint8_t` is a hazard of its own).

Only model-checked:

* every liveness property, and the fairness of `ImplementsFeed` and
  `ImplementsCommandLine`: liveness and `ENABLED` are outside the prover;
* that `am2321` returns measurements only (the rest of `PrintsOneReading`): `Am2320`
  computes its checksum with `Bitwise`, which the provers do not know.

## 7. What the checks found

Disagreements between the code and what it says of itself, each the violation of
one run:

1. **Torn frames in the desktop build** (`camfeed_direct_torn`,
   `main/camera_driver.c:54`). The capture buffer itself is broadcast; the answer
   comes before the copies, so the next capture can overwrite it under the web
   thread. `AtMostNextCapture` bounds the damage. The ring build is free of it.
2. **Queued output without a TX watch** (`stream_stall`, `utils/stream.c:154`).
   The test of `circ_buffer_put` is inverted (0 is success): when the rest of a
   partial write is queued, the watch is not started and `FALSE` is returned; when
   it does not fit, it is dropped, the watch is started and `TRUE` is returned.
   Later writes queue behind the stuck bytes.
3. **`CRASH()` is reachable** (`stream_crash`, `utils/stream.c:33`). The RX
   callback of the same round fills the socket, or the peer resets, after select
   found it writable; the write then returns -1 and line 38's "this should not
   happen" happens. It needs a TX watch, which finding 2 gives only when output
   was dropped.
4. **The LED stays on** (`web_led`, `main/webserver.c:82`). The feed requested
   twice on one connection counts twice and is counted off once. `CountExplained`
   says exactly how far off the count can be.
5. **Negative temperatures** (`sensor_sign`, `main/am2320.c:119`). The comment above
   says that bit 15 means a negative temperature; the code negates it in a
   `uint16_t`, so -0.5 degrees are printed as 6553.1. `PrintsOneReading` exempts the
   sign and nothing else.

Observed while modelling, not contradicted by any text, so not findings. The
models follow the code in each; where a property needs it, its comment names the
exception.

Camera, sensor, codec, start-up:

* setting the exposure sets the hue (`main/v4l2_camera.c:420`), and the JPEG
  quality calls hand the kernel one control where it reads a list of them, so
  that nothing is set and 0 is read; `ControlsReadBack` exempts the two;
* a failed `VIDIOC_QBUF` loses its buffer for good (`main/v4l2_camera.c:290`);
  losing all ends the capture without a word;
* when the driver grants fewer buffers than asked for, `cam->buffers` has fewer
  elements than the loops of `v4l2_camera_set_request_buffers`
  (`main/v4l2_camera.c:85-92`) and `v4l2_camera_close` (line 206) run over: the
  heap is written and read past the block;
* a timer that could not be set up leaves a watcher on descriptor 0 without a
  callback (`main/camera_driver.c:138`): input on stdin calls a null pointer;
* a failing sensor read keeps its descriptor (`main/am2320.c:60`), once a second,
  until nobody can connect;
* a codec buffer whose `mmal_port_send_buffer` fails (`mmal/brcmjpeg.c:572`, 462-497,
  640) is neither sent nor released: once a port has lost all of its buffers, and
  two ports have only one, the next conversion waits for ever;
* an empty frame sends no chunk to the decoder, hence no end of stream, and the
  main thread waits for ever (`mmal/brcmjpeg.c:558`);
* a codec that failed to initialise is a null pointer at the first frame.

Telnet:

* a byte 0xFF is echoed unescaped (`utils/cli.c:210`): the terminal takes it and the
  echo after it for a command, and shows another line than the one Enter executes;
* a line of 252 characters takes nothing but Enter, not even a rub-out
  (`utils/cli.c:197`); its terminator goes to the padding byte behind
  `cmd_buffer`;
* CR LF leaves the LF as the first character of the next line;
* a subnegotiation of more than 32 bytes, or one with an escaped IAC, ends early
  and its tail reaches the line editor (the `TelnetCli` client sends neither);
* after a callback has released its own watcher, `io_driver_postselect` reads its
  mask again for TX and EX (`utils/io_driver.c:111`); the models take the memory
  to read as the cleared mask it held.

mongoose, as `webserver.c` uses it:

* `pd->rcvd` is reset to 0 with a pipelined request in the buffer
  (`mongoose.c:6247`), which then waits for as many bytes again; `file.sent` is
  not reset when a second file is served before the first has gone out;
  `chunk.body_len` is kept after a chunked message, and a second one trips the
  assertion at line 5963. Hence the client of `HttpServe` awaits each answer and
  sends one chunked body;
* a file that shrinks while it is sent leaves its transfer waiting; a range that
  ends past the file is refused with 416, although a prefix could be sent; `HEAD`
  is answered with a body; a directory listing closes the connection without a
  header that says so;
* in a web socket, a first fragment in the middle of a fragmented message is taken
  for a continuation (the model's client does not send one), and a frame that was
  refused is refused again with each byte that follows it.

## 8. What is not modelled, and why

* `main/frame_converter.c` (libgd): compiled for the desktop but reached only
  with `USE_FRAME_CONVERTER`, which the Makefile defines with `RPI` alone.
  `utils/io_driver_notifier.c` is not compiled. `mongoose/frozen.c` and
  `mongoose_util` are not called.
* Most of the vendored `mongoose/mongoose.c` and its header, 22,000 of the
  repository's 30,000 lines: `webserver.c` opens one plain HTTP listener, so CGI,
  SSI, WebDAV, TLS, digest authentication, MQTT, CoAP, DNS, SNTP, UDP, SOCKS,
  outgoing connections, the HTTP client and the embedded-platform ports are never
  reached. Neither modelled are the pieces of the reached part that are pure
  conversions: SHA-1 and base64 of the web socket handshake, number and time
  formatting, MIME types, ETags, the header syntax below the blank line. With the
  declarations and the JSON library this is why the map covers about a seventh of
  all lines; of the program's own files (`main/`, `utils/`, `mmal/`) it covers
  most of what executes.
* Pixels, overlay text, slices (not used for RGBA) and formats of the codec;
  `brcmjpeg_copy_pixels`.
* `tcp_server_stop`, `_deinit` and `camera_driver`'s unregistering: nobody calls
  them. The commands `help`, `version`, `fps`, `cam_feed`, `last_frame_size`,
  `quality` and `msg` print or set one variable in one step.
* What the one-second timer does: the frame counter behind the `fps` command, and
  the time of day that the converter prints. Nothing else depends on either.
* Unbounded growth of `send_mbuf` for a slow client (`main/webserver.c:138`): the
  test that would limit it is compiled out, so there is no bound to state.
* Scheduling by priority and time: nothing in the modelled parts reads a clock but
  for the timeouts that a model may take at any moment (the ping of an idle web
  socket).
* The front end, build files and vendored headers have no state.

## 9. Plan

`HttpServe` with several connections and a broadcast, once its states allow it: the
feed and a page on one connection. Every safety property of a run that is within
the prover's reach has its theorem; what section 6 lists as only model-checked
stays with TLC.

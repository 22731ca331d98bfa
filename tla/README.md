# Verification of a9-v720-server

TLA+ models of the server for A9 V720 cameras, TLC configurations that check
them on small instances, and proofs of what holds for every instance.
Paths such as `types.rs:250` are relative to `src/src/` of this tree, where the
Rust crate lives; `README.md:149` is the repository's own README.

## 1. The system

The server lets a camera register over TCP, opens a path for its UDP video,
reassembles JPEG frames from UDP fragments and shows them over HTTP. It is one
process on the tokio runtime with several kinds of task:

| task | where | how many | what it does |
|---|---|---|---|
| TCP accept and connection tasks | `router/tcp.rs` | one per connection | reads a message, runs its handler to the end, reads the next |
| UDP routers | `router/udp.rs` | three, one per port | receive a datagram, run its handler to the end, receive the next |
| incomplete frame timer | `router/udp.rs:573-591` | one per UDP router, every 500 ms | closes what is in assembly |
| HTTP requests | `web/*.rs` | one per request | read the cameras' state; start, stop, snapshot |
| spawned tasks | `web/camera_endpoints.rs` | one per start, stop or snapshot | talk to the camera after the reply has gone out |

All of them share `CameraManager` (an `RwLock` around a map), the
`CameraConnection` of each camera (an `RwLock`) and the write half of each
camera's TCP connection (a `Mutex`). There is nothing on disk but the
configuration; a restart forgets everything.

### Components

| component | state | operations | hard behaviour | what makes it correct | module |
|---|---|---|---|---|---|
| StreamBuffer (`types.rs:49-290`) | complete frames, frame in assembly | start, middle, end fragment; timer; clear | start without end, end without start, timer between two packets, full list | order, shape and bound of frames; refines a log | `StreamBuffer`, `FrameLog` |
| Video path (`udp.rs:114-230`, `409-516`, `573-591`) | packets on the way, bucket and received packages | receive, lose, timer, stop, confirm | loss of any packet, timer and stop racing the packets of a frame, a confirmation never sent | frames not mixed, not repeated, shown at their end; each package in one batch | `VideoPath`, `VideoIngest` |
| Locks of the handlers (`tcp.rs`, `udp.rs`, `camera_endpoints.rs`) | who holds and awaits which lock | every handler | interleaving of all tasks, nested guards, try_read and try_write | no circular wait but at three known places, whole messages, every handler returns | `LockDiscipline`, `ServerLocks` |
| TCP router: session (`tcp.rs`) | `ProtocolState`, device id, connection | open, close, its message codes, start/stop | reconnection while the old connection ends, start after a disconnect, a code 51 | state agrees with the connection in use | `CameraSession`, `Session` |
| TCP framing, binary header (`tcp.rs:68-223`, `binary.rs`) | bytes of a read | read, parse, dispatch | coalesced or split reads, ignored length | what is read alone is handled once, in order, as what it is | `Framing`, `BinaryHeader` |
| UDP router: probe, code 51, heartbeat | random socket, `probe_state` | probe, code 51, heartbeat | three routers at once, ports that are taken, repeated exchanges | a camera is told its own port or the fallback, exchanges counted | `UdpProbe` |
| CameraManager | map from address to camera | get or create, find | lookups whose result is used after the lock is gone | one object per camera | `UdpProbe`, `ServerLocks` |
| Supervisor (`main.rs`) | six task handles | bind, spawn, `select!`, restart | a bind that fails after others serve, the first component to end | waits for all components (it does not) | `Supervisor` |
| REST endpoints | none of their own | list, info, start, stop, snapshot, video | the camera changes between lookup and use | state and connection agree afterwards | `CameraSession`, `ServerLocks` |
| Web page (`server.rs:54-628`) | a card per camera, intervals, timers | load, start, stop, image events | late answers and timers, rebuilt cards | one interval, a stop that stays, buttons that come back | `WebPage` |
| Dashboard, bootstrap registration, config check | none | a read-only page, stateless replies | overlapping loads of the dashboard | | not modelled |
| JSON messages, configuration | none | derived (de)serialisation | none | | not modelled: data types only |
| CameraPool (`camera.rs`) | | | | | not modelled: `main.rs` declares no such module, and it refers to types that no longer exist |

`types.rs:334` and `types.rs:339` declare `device_id` and `tcp_conn` with other
types than those the handlers use. The models follow the handlers: an optional
device id and an optional shared, mutex-guarded write half.

The hazards, each at its line and with the properties that watch it, are in
`PROJECT.json`; those without a property say why.

## 2. Modules

| module | models |
|---|---|
| `FrameLog` | abstract: a bounded log of intervals of arrivals, in order, never overlapping |
| `StreamBuffer` | `types.rs` StreamBuffer, all methods that change it |
| `VideoPath` | camera and network (external), `handle_video_frame`, the timer and a stop over a `StreamBuffer` |
| `VideoIngest` | `handle_video_frame` as a whole: the buffer, the lists of packages and the confirmations |
| `LockDiscipline` | tasks running programs over tokio's fair locks (external), for any programs |
| `ServerLocks` | the programs of the server's handlers |
| `Session` | abstract: what the protocol state of a camera tells about its connection |
| `CameraSession` | connection tasks and web tasks of one camera |
| `BinaryHeader` | `binary.rs`: the header as bytes |
| `Framing` | reads of a TCP stream and their dispatch |
| `Supervisor` | `main`: start, `select!`, restart |
| `UdpProbe` | UDP routers under the supervisor, and the map of cameras |
| `WebPage` | the script of the main page |
| `MCVideoPath`, `MCVideoIngest`, `MCServerLocks`, `MCUdpProbe`, `MCFraming` | values for TLC |
| `VideoPath_proofs` (with the buffer and its log), `VideoIngest_proofs`, `LockDiscipline_proofs`, `ServerLocks_proofs`, `CameraSession_proofs`, `Framing_proofs`, `UdpProbe_proofs`, `WebPage_proofs` | theorems |

Operators and actions with the comment "mutant" are used by no specification:
each is a plausible mistake in the definition that follows it, kept to show that
a run would notice.

### StreamBuffer and FrameLog

`frames` and `current_frame` are the fields of the struct. A fragment is its
payload plus two ghost fields, the stamp of its arrival and the kind of packet
it came from; no action reads them. The code has one `add_fragment` that
dispatches on `(cmd, msg_flag)`; each arm is an action. `CompleteIncompleteFrame`
is what the timer calls, `Clear` what stopping the stream calls. A payload
matters only by whether its last four bytes read as a number in 1..999999,
since then `assemble_frame` cuts them off (`SizeTail`, and `cut` in a frame).

Under the mapping at the end of the module (a frame becomes the interval from
its first to its last arrival; what is closed ends before the frame in assembly)
every step is one of `FrameLog`: `Advance`, `Publish`, `Forget` or a stutter.
The log takes any packets in any order, so reordered and duplicated datagrams are
covered at this level: they are arrivals like any other.

### VideoPath

The camera sends frames of a start, up to `MaxMiddles` middles and an end, and
may stop anywhere. The network keeps the order and may lose packets of the kinds
in `Lossy`. `handle_video_frame` takes one datagram under the camera's write lock,
so it is one step; the timer and `stop_streaming`, which take the same lock, come
between any two datagrams. That either passes over a camera that is busy at that
moment is a step that is not taken. After a stop the camera goes on sending as
long as it likes, so a stop may empty the buffer in the middle of a frame. A
ghost, `hit`, remembers the frames the timer or a stop found in assembly: together
with the lost packets it tells the damaged frames from the `Intact` ones.

### VideoIngest

The same handler with everything else it does: the retransmission bucket, the
flag of the first end frame, `received_packages` and the confirmation. A packet is
known by its cmd and msg_flag: `other` is one of cmd 4, 6 or 7, which
`add_fragment` passes over and the lists do not, and `other-end` one of those with
msg_flag 252, which `udp.rs:184` takes for an end whatever its cmd. Other packets
are one step; an end takes two, `FirstEnd` or `LaterEnd` and then `Confirm`,
because it awaits the manager in between while it holds the camera. In between the
timer and a stop, which only try for the camera, pass over it, and whoever awaits
it waits. `TryRead` is the `try_read` of `udp.rs:423` on that same camera. A
package id is the payload of its packet, so the run of this module checks the
properties of the buffer too.

A batch is what is taken from the bucket to be confirmed, not a confirmation:
none is ever sent (`ingest_confirm`), and what was taken is then gone. Nor do
batches follow the frames: the first end after a start takes none and leaves the
bucket as it is, so that the next batch has the ids of two frames.

### LockDiscipline and ServerLocks

A handler is a sequence of steps, each with the guards held after it and what it
writes to the camera's TCP socket. `LockDiscipline` executes such sequences: one
action for each way a request can go (granted at once, queued, granted from the
queue, tried with success, tried in vain, given up), dropping guards and writing,
and a failing write, which leaves the handler by `?` and drops every guard. The
lock is tokio's: requests queue first in first out, a reader waits behind a
queued writer, `try_read` fails when a writer holds or waits, and a task that asks
for a lock it holds waits like anyone else.

`ServerLocks` has one program per handler under the handler's name in the code.
The scope of each guard is read off the source: a guard bound with `let` lives
until its block ends, a temporary until its statement ends, and
`if let Some(c) = m.read().await...` until the end of the `if let`. What a
handler computes and what it sends over UDP are left out: no guard is taken or
dropped there. A camera is always found, since nothing calls `remove_camera`; a
request for a device id that no camera has ends with its search and takes no
guard that a successful search does not take.

### CameraSession and Session

One camera and its connections, which may overlap: the camera may connect again
before the server has noticed the end of an older connection, and the two tasks
then share what is stored for the address. A connection task goes through the
labels of `pc`: it stores its write half, reads, and for each message takes the
steps between which it lets go of the camera. A reply (`reply-x`) is written to
whatever is in `tcp_conn` when it is sent; the NAT probe response, 301/4 and 301/3
clone the connection first and write to the clone (`send-x`). Either may fail,
which ends the task through `Cleanup`. A code 51 leaves its task `stuck`: it
awaits the manager's write guard under its own read guard and with the socket of
the stored connection in hand, so nothing that needs the manager or that socket
is done any more (`ManagerFree`, `SocketFree`); a read that fails, a write to a
clone of another connection and what only tries for its locks still go on.

A web task is what start, stop and snapshot leave behind after they have
answered; start looks the connection up when it writes, the others go on with the
one they cloned, and stop resets the state only if it gets both locks at once.

The abstract `Session` has the connection and the state, and separates what a
connection may do from `Order`, the setting of the state by a web task, which the
code does whatever has become of the connection. While connections overlap
(`overlapped`, from the second `Connect` to the `Cleanup` that leaves none) it
promises nothing but that it is over when both have ended. `ImplementsSession`
therefore does not judge the orders themselves, nor what overlapping connections
do to each other; the latter is `session_overlap`.

### BinaryHeader and Framing

A message is its real bytes: a header made by the constructors of `binary.rs`, and
a payload, which may be any bytes of any length. A read hands any number of bytes
that are there, up to a buffer full, to `process_message`, which takes the first
20 for a header; so bytes from the middle of a message are interpreted just as the
code would, and a text inside another, or in a picture, can come to be handled as
if it had been sent. Of parsing it matters which bytes read as a JSON text
(`Parses`, which may have more than those the camera sends): leading zeros are
trimmed, and a text with anything missing or following is another text or none.
The camera is external: it connects, sends what it likes, closes, and connects
again. After a read the loop goes on (`Read`), or ends because a handler failed
(`ReadLast`), the bytes were too few for a header (`ReadShort`) or the stream was
over. That a code 51 never comes back from its handler is left to
`CameraSession`: here it is a loop that takes no further step. Two ghosts, `begins`
and `alone`, keep where each message lies in what is unread, and which were
returned by a read alone; no guard reads them.

### Supervisor and UdpProbe

`Supervisor` is `main`: four binds in a row, each followed by a spawn, so that a
router already serves while a later port is not yet bound; two web servers that
bind in their own task; then `select!`. `UdpProbe` extends it with the routers
at work. A probe binds a random port, then stores the socket, then replies with
the port; if the bind fails for any reason it replies with `udp_stream_port_2`,
the third router's port, for which `main.rs:62` says "also used as "random" port"
(`ProbeFallback`): any number of cameras may be told that one. `told` is the port
in the last code 21 composed for a camera, whether or not it got there. Code 51
looks the camera up, lets go of the manager and then awaits the camera. Sockets
close when nothing refers to them, so the ports in use are those of the routers,
the cameras and the handlers. When `main` returns, everything the process knew is
gone, and systemd starts it again (`docs/a9-v720-server.service`,
`Restart=always`).

### WebPage

The script of the main page for one camera, one callback at a time. A card is
made each time the list arrives; calls that were made for an older card end on
its elements. Buttons are kept for the card in the document alone, since nobody
sees others. The server is free to say anything about the camera at any time
(`CameraChanges`), which covers answers that are older than the last change.

## 3. Runs

All runs finish on two cores within three minutes.

| run | question | bounds | result |
|---|---|---|---|
| `ingest` | are frames in order, well shaped, bounded and a behaviour of the log; is each package in exactly one batch and in the received list? | 6 packets of any kind, two payloads that are alike, 2 frames kept, starts, stops and ticks anywhere | holds |
| `video_faults` | under loss of any packets and a timer or a stop at any time: frames not mixed, none twice, intact ones whole and shown as soon as their end is handled | 3 frames of up to 4 packets, 2 kept | holds |
| `locks_every` | which handlers wait against the order, and can tasks wait in a circle other than in three known ways; are messages torn? | 1 camera, 4 tasks, every handler | holds |
| `locks_return` | do the handlers that do not nest never wait in a circle, and does each return? | 2 cameras, 4 tasks, a handler of each shape | holds |
| `session` | does the state agree with the connection while none overlap, is it right again after an overlap, and is a dead connection ever kept? | 3 connections, overlapping or not, 1 web task, code 51 at any time | holds |
| `framing` | is what a read returns alone handled once, in order and as what it is, however the others are cut? | 3 messages of 4 kinds in a connection, reads of up to 42 bytes, any number of connections | holds |
| `server_udp` | is a camera told the port that is stored for it, do cameras stay apart, is `probe_state` a count? | 3 routers, 2 cameras, 2 random ports, one of them a router's | holds |
| `web_page` | does polling add up, does a stop stay, does the stop button come back? | 2 cards, one call of each kind for a card | holds |
| `locks_end_fragment` | do an end fragment and a heartbeat wait in a circle? | 1 camera, 2 tasks | violated |
| `ingest_confirm` | is each end frame answered with a confirmation? | 4 packets | violated |
| `session_overlap` | does Disconnected mean no connection? | 3 connections, no web tasks | violated |
| `server_ends` | does `main` wait for all its components? | as `server_udp` | violated |

Why the bounds are enough. Six packets fill a buffer of two frames twice over
with room for an unfinished frame, so eviction meets every other action; no
definition looks further back than the frame in assembly, the length of the list
and the last batch, and the theorems lift this run to any bound. Three frames let
a damaged frame have an intact one before and after it, and two middles let one
be lost and one arrive. In the lock runs a task may run any of its handlers again
and again, so four tasks meet with every combination of a TCP, a UDP and an HTTP
handler and the timer; further connections or cameras only add tasks and locks of
the same rank, which the theorems cover for any number of both. A session is
disturbed by the connection before it and the one after it, hence three; one web
task can set either state at any moment, and the theorems are for any number. Three messages are enough for a read to join two or
tear one and be followed by one that arrives alone; one text holds another, one
picture has the bytes of that text and one those of a header before it, which is
too long for a read. Two random ports,
one of which `main` has not bound yet when the first router serves, let probes
meet each other and a router. Two cards are the one in the document and one that
callbacks of the time before still reach.

Addresses and objects in `server_udp` and payloads in `ingest` are alike, and the
runs use that symmetry; both check safety only.

`CHECK_DEADLOCK FALSE` is said of runs that may really stop: in the session runs
every connection has ended, or a code 51 has stopped the server; in `locks_every`
the three circles described below stop the tasks in them, and its properties say
which.

### Fairness

Two properties are about what must happen, and only those two runs assume
fairness. `EveryHandlerReturns`, under `FairSpec` of the locks: each task that can
take a step takes it, as the runtime polls every task that is woken. That a lock is
granted eventually is not assumed: it follows from the fair queue. A step that
writes to a socket is assumed to end; the code has no timeout there, so a camera
that keeps its connection open but stops reading blocks every writer of the server.
That hazard (`tcp.rs:313`) is listed and no property covers it. `StopOffered`,
under `FairSpec` of `WebPage`: each call, image and the 30 second timer come to
their turn, and answers about the card in the document are not for ever lost or
late.

Nothing of the kind is claimed of the server as a whole. A handler that nests can
wait for good (`locks_every`), and then so does whatever needs the same locks: a
router may stop receiving, the timer may never come again and leave a frame in
assembly, a connection's task may never reach its cleanup. The video path, the
sessions and the framing of messages are therefore checked for safety alone; what
becomes of an intact frame is stated as a step (`ShownAtItsEnd`): when its end is
handled, it is shown.

### What the runs show

- `locks_every`: of all handlers three wait for a lock against the order of
  manager, camera, socket (`OnlyNestedOutOfOrder`), and every circle of waiting
  tasks goes through one of them (`CirclesExplained`).
  `handle_device_info_request` asks for the manager's write lock (`tcp.rs:384`)
  inside the scope of its own read guard (`tcp.rs:360`): it waits for itself, and
  since readers queue behind the waiting writer, so does every other handler.
  `get_camera_info` reads the manager twice (`camera_endpoints.rs:42`, `66`); a
  writer queued in between stops both. On an end fragment `handle_video_frame`
  holds the camera and awaits the manager (`udp.rs:421`, `494`), while others
  hold the manager and await the camera (`udp.rs:538-540`):
  `locks_end_fragment` is the shortest way there, against the comment at
  `udp.rs:179`, "Handle retransmission logic directly here to avoid deadlocks",
  and `README.md:149`, "Deadlock Prevention: Resolved nested lock issues".
- `ingest_confirm`: `try_read` on a camera whose write guard the caller holds
  never succeeds, so no end frame is confirmed, against `README.md:60-61`.
- `session_overlap`: a connection that ends resets `tcp_conn` and `state` although
  a newer connection of the camera has set them, against `types.rs:13`. With
  one connection after the other this cannot happen (`session`, and proved).
- `server_ends`: `tokio::select!` returns with the first component that ends,
  against `main.rs:85`, "Wait for all components to complete".
- `video_faults`: `WholeFrames` and `ShownAtItsEnd` are about `Intact` frames. A
  frame the timer closes early loses the packets that follow, and its last four
  bytes when they read as a number below a million (`types.rs:142`, `250`); one a
  stop finds half assembled is dropped (`camera_endpoints.rs:231`). When an end and
  the start after it are both lost, two frames are joined, as package ids are not
  compared (`types.rs:213`); `NoMixedFrames` says that nothing else joins them.
- `session`: a web task sets Idle or Streaming also when the connection has
  gone since (`tcp.rs:655`, `camera_endpoints.rs:222`); `ImplementsSession` says
  that nothing else makes state and connection disagree, and that the next step
  of a connection repairs it. The orders themselves it allows, so it does not watch
  them. A code 51 stops the server where it is, which neither property forbids:
  the camera then keeps its connection and its state for good.
- `framing`: two messages in one read, or one in two, are lost or answered with
  the end of the connection, and bytes from the middle of one may be handled as a
  message that was never sent. Nothing in the repository denies that, so no
  property is stated against it; what holds is that such reads do no harm to those
  that return one message (`AloneHandled`).
- `server_udp`: `PortsTold` is about cameras whose probes did not cross. When two
  routers work on probes of one camera at once, each stores its socket and answers
  with its own port, and the port told last may be that of the socket which the
  other has replaced and which is closed (`udp.rs:291`). With the fallback all
  cameras are told the third router's port.
  `probe_state` counts code 51 for as long as the process runs
  (`ProbeCounts`): a camera that reconnects finds its exchange completed. A
  probe may take the port of a later router during startup; `main` then returns
  the error of that bind and the process starts again.
- `web_page`: `QuietAfterStop` is about a stop with nothing else in flight. A stop
  within two seconds of a start is overtaken by its timer (`server.rs:455`), which
  displays and polls the image of a stopped camera. After a start, a stop and a
  start on one card the stop button is shown disabled (`server.rs:522`, `445`);
  `StopOffered` says that the next list repairs it.

## 4. Proofs

Every theorem is for all values of the constants under the named assumptions of
the modules.

**Stream buffer.** `TypeCorrect`, `FramesInOrder`, `FramesWellShaped` and
`FramesBounded` follow from the invariant `IInv`. The stated properties are not
inductive: a frame is published in order only because every stamp in assembly is
later than those published and no later than the number of arrivals
(`StampsPast`), and it is well shaped only because what is in assembly begins
with a start and holds no other start and no end (`CurrentOpen`). There is one
lemma per action; the two that publish share `PublishKeeps`, which rests on
`MakeRoom`: making room shifts the list by one place or leaves it.
`BufferRefinesLog` proves that `Init` maps to the log's `LogInit` and each step
of the buffer, under `IInv`, to a step of the log. `LogKeepsOrder` proves of the
log itself what its readers rely on, `LogOrdered`, for every capacity of at least
one.

**Video path.** `NeverMixed`, `NeverTwice`, `IntactWhole` and `IntactShown` hold for
frames of any length, any number of them and of packets in the channel, and any
losses of the kinds in `Lossy`. `PathUsesBuffer` comes first: every step of the path
is a step of `StreamBuffer` or leaves it alone, so `IInv` is there to build on. None
of the three invariants is inductive. What has to be added is where packets can be:

- `ChannelWhole`: the packets on their way follow one another without a gap, and
  the camera's next one follows the last of them;
- `CurrentKnown`: what is in assembly is of frames that have left the channel and
  later than all on show; fragments of two frames meet only where an end and a
  start were lost; if frames came after its last fragment, that one's end and
  their starts were lost; and if its frame is intact so far, assembly holds all
  that has arrived of it and the next packet is the one that follows;
- `FramesKnown`: frames on show have left the channel too, and their fragments
  meet in the same way.

Together with the properties themselves they are `PInv`, which TLC confirms on
`video_faults`. `HeadLeaves` says what is known once a packet has left the channel,
`PublishPath` and `JoinPath` what a frame is that is put on show or extended; then
there is one lemma for each kind of packet, for a loss, for the timer and for a stop.
`IntactShown` (`ShownAtItsEnd`) adds that the assembly of an intact frame whose
start has arrived is still open (`IntactOpen`), so that its end finds it.

**Lock discipline.** `OrderedNeverCircular` and `OrderedNeverAlone` have the form
`OrderedPrograms => (Spec => []P)`: if each program asks for one lock at a time
(`AsksForOne`) and waits only for locks of higher rank than all it holds
(`AsksUpward`), then no set of tasks waits in a circle, for any number of tasks,
locks and handlers. The invariant `LInv` says that a queued task awaits the lock it
is queued for and stands in its queue once. Given a set of waiting tasks, take one
whose awaited lock has the highest rank (`HighestPlace`), the one furthest ahead in
that queue (`FirstInQueue`): whoever holds the lock awaits nothing of lower or equal
rank, and nobody of the set stands ahead of it. `LockTypes` needs `AsksForOne`
alone.

`GuardsExclude` says that the locks do their work: two guards that exclude one
another are never held at once, not even by one task. It needs a second condition
on programs, `ScopesNest`: a handler that goes on without a guard it did not get
holds no more than it did when it asked. Without it a program could take up a
guard by not getting another.

**The server's handlers.** `ServerLocks_proofs` is about the programs themselves.
A program is put together from parts with `\o`; `Block` says of a part that it
starts and ends with no guard, asks for one guard at a time, nests its scopes, and
writes only under the lock of its camera's socket, a body right after its header.
A concatenation of blocks is a block (`ConcatBlock`), and asks in order if its
parts do (`ConcatInOrder`). The parts are few: one or two nested scopes, three
guards around writes (`Bracket`), and a search through the cameras of any length
(`VisitThen`). `HandlerBlock` is the result for all 27 handlers; the lemmas of
the three that do not ask in order say where, and what they hold there. From it:

- `MessagesWhole`: `NoTornMessage`, from `GuardsExclude`: a task that has sent a
  header still has the socket, and one about to write needs it;
- `OnlyNested`: `OnlyNestedOutOfOrder`. That device info never holds the manager's
  write guard it asks for is part of it, and again follows from `GuardsExclude`;
- `PlainHandlersGoOn`: tasks that run any of the other 24 handlers never
  wait in a circle or for themselves, for any number of cameras, connections and
  requests;
- `CirclesHaveReasons`: `CirclesExplained`, for circles of any size. In a circle
  take the highest lock its members wait for. Who holds it asks for something no
  higher, so against the order (`HolderAgainstOrder`): device info and camera info
  explain the circle at once. If it is an end fragment, the lock is a camera and
  the circle waits for the manager too; whoever holds the manager either asks
  against the order itself, or awaits a camera, which is then a highest lock
  again, and whoever holds that one explains the circle.

**Video ingest.** `EveryPackageInOneBatch` and `ReceivedAgrees` follow from an
invariant that adds two facts to the stated ones: batches were taken in order and
none from packets that have yet to come (`BatchesPast`), and while an end fragment
is under way, `received_packages` lacks its id and no other (`LastLacking`).
Without the first a packet appended to the log could change an earlier window;
without the second nothing is known when the fragment's handler goes on.
`PushHolds` and `WindowGrows` are the two lemmas about lists and windows all of it
rests on.

**Camera session.** `NeverDead` holds for any connections, overlapping or not, and
any web tasks: the only step that ends a connection's task is the one that empties
`tcp_conn`, and only a task that runs stores its own. `SessionImplemented`
(`ImplementsSession`) and `ConnectedAlone` (`ConnectedHasConnection`) are for any
number of connections, overlapping or not, too. Their invariant `AInv` has two
sides: while no connections overlap at most one task is under way, and its
connection is the one stored from the step that stored it to its end (`Alone`);
while they do, some task has still to end (`Overlaps`), and when the last one does,
its cleanup makes `Alone` true again. Under it each step of a connection maps to
`Open`, `Proceed`, `Close`, `Overlap` or `Disturbed`, and each of a web task to
`Order` or a stutter.

**TCP framing.** `AloneIsHandled` (`AloneHandled`) and `FramingTypes` are for texts
and pictures of any bytes and lengths, any number of messages, any size of the
buffer and reads cut anywhere. The proof works with the bytes. `HeaderBytes` and
`MessageShape` evaluate `to_bytes` as far as it is read again: its length, the
command, and the payload behind it. `HandledAlone` shows that `process_message`
makes of the whole bytes of a message that message, which for a text needs that it
does not begin with a NUL (`ParsedAsIs`). The invariant `IInv` keeps account of the
stream: messages lie one behind the other (`Laid`) and hold the bytes they were sent
with (`Contents`), whatever was read of them; those that were read alone are past
(`AlonePast`), so the one a read returns alone now is later than all of them, and
the log goes on in order (`HandleKeepsLog`).

**UDP routers.** `UdpTypes`, `PortsToldRight`, `OneCamera` and `CountsExact` are for any
addresses, objects and ports, and hold through every end and restart of the
process. The invariant `UInv` adds where each handler stands (`HandlerAt`) and that
an object which is no camera's has counted nothing (`Uncounted`): without the
second a camera made later would begin with somebody else's exchanges. `MapGrows`
carries the rest: as the map only gains entries, and each is a new object, an
object found before the manager's guard was dropped is still the right one.
`PortsTold` rests on two facts about sockets: no two in use have a port in common,
but for the one a handler still refers to after it has stored it (`SocketsApart`);
and as long as no other probe of the camera came in between, what a handler is
about to answer with is what it has stored (`Told`).

**Web page.** `PageTypes`, `OneAtATime` and `StopIsQuiet` are for any number of
cards and of calls in flight. The types and `OneInterval` need each other: that a
handle is free for a new interval follows from there being one interval at most.
`QuietAfterStop` is not inductive. A card that was replaced may still load and
display an image after the stop; what has to be known is that no card which an
answer, a list or an interval can bring back is one of these (`QuietPage`): it is
neither displayed nor about to be, and no start or delay is in flight.

**Assumptions.** Beyond the types of constants (`IdleAssumption`,
`RunsAssumption`, `RankAssumption`, `ProgramAssumption`, `CameraAssumption`):
`ServerAssumption` gives `Program`, `Lock` and `Rank` the values of the server and
leaves open which task runs what; `PacketAssumption` and `SizeAssumption` say that
the payloads of the buffer are the camera's packets, of which the ends
carry a size; `TextAssumption` says that a JSON text is not empty, does not begin
with NUL, and that every text the camera sends parses. TLC evaluates all of them
in the runs.

**Only model-checked.** Liveness: `EveryHandlerReturns` and `StopOffered` are beyond
the prover.

## 5. Not modelled

- A camera that stops reading: every write would be one that may never end, and
  with it every handler behind it; the runs assume that writes end.
- Two cameras with the same device id: the search takes the first in the order of
  a `HashMap`, which is no order to reason about.
- The bytes of CMD 605: the reader is the camera, whose code is not here, and the
  message is never sent.
- `periodic_retransmission_task`, which sleeps; keepalives over UDP (102 and 20
  zero bytes), which answer and change nothing; the set of UDP ports of a camera,
  read only by the confirmation that is never sent.
- The dashboard, a read-only page; bootstrap registration and config check, which
  reply without state; HTML text, logging, JSON and configuration formats; and
  `camera.rs`, which is not compiled.

What could follow: a model of `CameraSession` in which writes may block; and two
documents of the dashboard whose loads overlap.

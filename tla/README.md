# A verification project for the smart-home gateway

The repository holds a gateway process (the `*.c` files at its root) that sits
between Zigbee devices on a serial port, a server it connects to and clients
that connect to it, and a host framework for the Zigbee network processor
(`znp_host_framework/`): a serial RPC layer, the marshalling of some hundred and
fifty commands, a Linux application, example programs and a port of TI's Zigbee
cluster library. This directory models these parts in TLA+, checks them with TLC
on small instances, and proves with TLAPS, for every instance, the safety of the
ring buffer, of the gateway's two threads, of requests over the serial line, of
start-up and the topology rounds, and of the enrolment of zones.

## The system

### The gateway process

| component | state | operations | interaction |
|---|---|---|---|
| event loop (`eventhub.c`) | epoll instance, listening socket, batch of events | register, start: wait, accept, read until drained, close | calls the event handlers; shares the table with the reconnect thread |
| event handlers (`event.c`) | none of their own | accept, recvmsg, close | read and change the connection table, send to every socket |
| connection table (`connection.c`, over `rbtree.c` and `list.h`) | tree by descriptor, list of connections, free list | get, insert, delete, look up, look for a type, expire | called by both threads, without a lock |
| reconnect thread (`reconn.c`) | none | look for the server and the serial port, open what is missing | opens descriptors, inserts, registers |
| timer (`cetimer.c`) | two pipes | SIGALRM handler: writes commands once a second, the heartbeat once a minute | wakes the event loop through the command pipe |
| sockets, serial port (`socket.c`, `termcontrol.c`) | the kernel's descriptors | connect, open, send | called by both threads |
| ring buffer (`kfifo.c`) | bytes, two counters | put, get, getahead, pop, reset | one per connection |
| frame recognition (`protocol.c`) | none, works on the ring buffer | protocol_check, znpframe_check | called once per read |
| alarm parser, encoders (`bussinessdata.c`, `parseserver.c`, `bytebuffer.h`) | none | parse a zone's state, encode an alarm, a heartbeat | called by the event handlers |
| device table (`gateway.c`) | devices and clusters | add, delete | `main` initialises it, nothing else calls it |

`ceconf.c`, `toolkit.c`, the CC2530 encoders and the test programs have no state
or are not part of the process.

What is hard here: two threads open, use and close descriptors without a lock;
the kernel gives a closed number out again at once; an event names a descriptor
by number and may be older than its last close; epoll is edge-triggered, so what
is not read to the end is lost from sight; the timer expires connections in the
middle of a batch; the frame checks recurse on a buffer they consume and do not
return what the recursion found; buffers are finite and a peer sends as it likes.

### The host framework

| component | state | operations | interaction |
|---|---|---|---|
| RPC (`framework/rpc`) | message queue with two semaphores, the request lock, the response semaphore, the awaited subsystem | send and wait, receive and queue, wait for a message | application threads and a receiving thread |
| MT commands (`framework/mt`) | registered callbacks, the last response | pack a request, unpack and dispatch a message | over RPC; calls the application's callbacks |
| Linux application (`linux_example`) | start-up, device state, the zone table | reset, configure and start the network, handle what comes in, enrol IAS zones | over MT commands |
| examples (`examples/cmdLine`, `nwkTopology`, `dataSendRcv`) | a command being entered; the list of nodes | enter any command; list the network's nodes | over MT commands |
| cluster library (`linux_example/ZCL`) | registers of attributes, commands and tasks; attribute values; groups and scenes, scenes also in non-volatile memory | parse, check, read, write, report, discover, scenes and groups | called with each incoming frame, calls the applications |

What is hard here: a response that races its timeout; a semaphore posted before
the message is queued; a shared variable that says which response is awaited; a
handler that waits for a message, which may be one for the same handler; some three
hundred structures laid out by hand on both sides of a byte stream; registers
whose order decides who gets a message; a table written to flash entry by entry;
a device that asks again because the answer was lost.

### What makes each component correct

* Table: the tree, the list and the free list partition the connections; a
  connection is in the tree under its own descriptor.
* Event loop and threads: a connection owns the descriptor it names, no
  descriptor leaks, every connection is watched, no input is stranded, an expired
  socket goes, the server is found again.
* Ring buffer: a bounded first-in first-out queue, also with a reader and a
  writer at work at the same time and counters that wrap.
* Framing: what a peer sends is dispatched once, in order, as it was sent,
  however reads cut it; stray bytes cost a bounded loss.
* RPC: a response belongs to its request; no requester waits for ever; no
  message is lost or handed out twice.
* MT commands: what is entered is what is sent, and what is received is what the
  application is shown, byte for byte.
* Start-up and topology: success means a network of the kind asked for; a round
  lists every node in reach once, with its own children, and ends.
* Cluster library: each request is answered once, and heard by the task that asked;
  a frame is read as it was meant; writes do what they report; discovery is exact;
  scenes survive a power failure and none outlives its group.
* IAS zones: no number belongs to two devices, and none is refused while one is free.

## Modules

| module | models | status |
|---|---|---|
| `ByteQueue` | what the ring buffer promises: the abstract queue | done |
| `KFifo` | `kfifo.c`, `kfifo.h` | done |
| `KFifoProofs` | proofs about `KFifo` | done |
| `Gateway` | `main.c`, `eventhub.c`, `event.c`, `connection.c`, `reconn.c`, `cetimer.c`, parts of `socket.c`, `termcontrol.c` | done |
| `GatewayProofs` | proofs about `Gateway` | every safety property of the runs `gateway` and `gateway_live` |
| `Framing` | `protocol.c` and the receiving branches of `event.c` | done |
| `Alarms` | `bussinessdata.c`, the encoders of `parseserver.c`, on top of `Framing` | done |
| `FramingProofs` | proofs about `Framing` and `Alarms` | every property of the run `framing` |
| `MessageQueue` | what the RPC layer's queue promises: an abstract queue with priorities | done |
| `Llq` | `queue.c`, step by step | done |
| `Rpc` | `rpc.c`, the request functions' common part, `mtParser.c`'s dispatch | done |
| `Layout` | structures and frames as formats; packing and unpacking | done |
| `MtSys`, `MtAf`, `MtSapi`, `MtZdo` | each command's and each message's bytes | done |
| `CmdLine` | `cmdLine.c`: the table of commands, and how one is entered | done |
| `AppCommands`, `AppCallbacks` | the commands `linux_example` sends; the callbacks of the three applications | done |
| `MtCodec` | the seven modules above it composed | done |
| `Startup` | `appInit`, `startNetwork` and the network processor they talk to | done |
| `Topology` | `nwkTopology`'s rounds, on top of `Startup` | done |
| `TopologyProofs` | proofs about `Startup` and `Topology` | every safety property of the run `topology` |
| `ZclFrames` | `zcl.c`: headers, senders and parsers of the foundation commands | done |
| `ZclRegistry` | `zcl.c`: registers and look-ups | done |
| `ZclAttributes` | `zcl.c`: reading, writing, undivided writing, discovery | done |
| `ZclScenes` | `zcl_general.c`: groups and scenes, with non-volatile memory | done |
| `Zcl` | `zcl.c`, `zcl_general.c`: a message's way, composed of the four above | done |
| `ZclScenesProofs` | proofs about `ZclScenes` and the steps of `Zcl` | `BelongToGroups`, `RestoredAsSaved` |
| `ZclProofs` | proofs about the exchange of commands: `Zcl` with `ZclFrames`, `ZclRegistry` and the discovery of `ZclAttributes` | `AnsweredOnce`, `AnswersAreHeard`, `DiscoveryIsExact` |
| `ZclZones` | `linux_example/zcl`: enrolment of IAS zones | done |
| `ZclZonesProofs` | proofs about `ZclZones` | both its properties |
| `RpcProofs` | proofs about `Llq` and `Rpc` | every safety property of the run `rpc` |
| `MC...` | instances for TLC | done |

## KFifo and ByteQueue

`buffer`, `in` and `out` are the fields of `struct kfifo`; `Size` is its size and
`Wrap` the modulus of an unsigned int. `kfifo_put` is `PutCopy` (clip the offer to
the room, copy) and `PutPublish` (move `in`); `kfifo_get` is `GetCopy` and
`GetPublish`; the others are one step each. `wpc`, `wdata`, `rpc`, `rdata` say where
the writer and the reader are: the comments of `kfifo.c` promise that one of each
needs no lock, and the model lets them interleave. Which part of a copy goes to
the end of the buffer and which to its beginning is folded into the index modulo
`Size`. A reset happens when neither is at work: `freeconnlist_getconn` does it on a
connection nobody uses.

Run `kfifo` has a buffer of 4 bytes, counters modulo 8 and puts and gets of up to
2 bytes, over two byte values: every alignment of the counters in the buffer, every
filling, and each wrap of one counter before the other occurs. `Occupancy` and
`CopiesIntact` say that the two sides stay out of each other's cells, and
`IsByteQueue` that the buffer is a queue. A pop on a buffer whose `in` has wrapped
and whose `out` has not does nothing in the code, and so it does in the model.

**Proved** (`KFifoProofs`), for every size that divides the modulus, every
modulus, every set of byte values and every length of a put or get:
`TypeCorrect`, `NoOverrun` (`Spec => []Occupancy`), `CopiesHold`
(`Spec => []CopiesIntact`) and `ImplementsByteQueue` (`Spec => IsByteQueue`). The
assumptions are `SizeAssumption` (kfifo.c:28, and 2^32 being a multiple of it) and
`MaxLenAssumption`. The argument: `IInv` adds to the type invariant and to
`Occupancy` that a side that is idle holds no bytes, without which a put could
start on a claim left over. Counters modulo `Wrap` enter through `Distance` (how
their distance changes as one moves) and `RoomIsRest` (the room is what the bytes
in use leave). The cells need that the size divides the modulus:
`WrapKeepsCell`, and from it `UsedCellsKept` (the bytes in use lie outside what a
put may fill), `FilledCell` and `MovedCell`. The refinement reads the queue as the
`Used` oldest bytes; a put is the abstract put when it publishes, a get is the
abstract get when it publishes, and the copying steps are stutters.

## Gateway

Each thread has a program counter in `pc` and works on a descriptor in `op`.

| code | model |
|---|---|
| `connrbtreeroot`, `connlisthead`, `freeconnlisthead` | `tree`, `list`, `free` |
| `struct connection` | `conn[c]`; `age` is the time since `timestamp`, saturating, kept for sockets only |
| descriptors, epoll's interest and ready lists, pipe, listen queue | `desc`, `reg`, `ready`, `cmds`, `backlog` |
| `events[]`, `events[i]` | `batch`, `cur` |
| `pos`, `n` of `list_for_each_safe` | `at`, `nxt` |
| commands found in one read of the pipe | `todo` |
| a failed assertion, SIGPIPE | `status` |

The steps of the event loop are `Wait`, `Dispatch`, `Accept`, `ReadPipe`,
`ReadInput`, `ReadNothing`, `Close`, `EventClose`; of the commands `Command`,
`Check`, `CheckDel`, `Beat`, `Alarm`, `EndTraversal`; of the reconnect thread
`CheckServer`, `CheckSerial`, `Socket`, `Connect`, `ConnectFails`; `OpenSerial`,
`Insert` and `Register` are taken by either thread. `Tick`, `ClientArrives` and
`PeerActs` are the world: the timer's signal, clients, and the other ends that send,
close or reset.

What is abstracted:

* A step is one system call or one table operation. Taking a structure, filling it
  and inserting it is one step, and so are connecting and setting O_NONBLOCK. A
  traversal of `connlist_check` is one step; those of the event loop are taken entry
  by entry. Races inside a list or tree operation are not modelled.
* The listening socket and the command pipe have numbers outside the pool, as
  nothing closes them, and listening always works. The pipe of the reconnect thread is
  left out: it is read without blocking and what it holds is not looked at, so
  the thread goes round whether the timer has written or not.
* Input is counted in reads, not bytes. Whether a read of the serial port completes
  an alarm frame is a free choice here; `Framing` looks inside.
* A second and its signal are one step, at any time. The bytes in the command
  pipe are a set, as `_check_command` only looks whether one is there.
* The fields of a freed structure are cleared at once unless a thread still points
  at it: nobody else reads them before `freeconnlist_getconn` clears them.
* A ready descriptor that has lost its last event leaves the ready list at once;
  `epoll_wait` would drop it.
* `misfired` remembers that the loop acted on an event whose descriptor had been
  closed since. It is a history variable: no action reads it.
* The process stops at a failed assertion or at SIGPIPE, so the runs do not check
  for deadlock.

Runs:

* `gateway`: two descriptor numbers, batches of one event, one pending read per
  descriptor, one waiting client, a serial port, the heartbeat, expiry after one tick.
  Two numbers suffice for one connection to be closed while another is opened, and
  for a number to be used again while a thread still remembers it; four structures
  are as many as two descriptors, the pipe and one freed structure need.
* `gateway_live`: one descriptor number, batches of four events, under `FairSpec`. An
  event is carried out after steps that closed its descriptor and gave the number
  out again; `EntryOwnsDescriptor` is stated for behaviours without such a
  misfire (the code has no defence against one: the error branch, eventhub.c:69-75,
  closes whatever has the number now), `InputNotStranded` for all. A lost server
  is found again (`ServerReconnects`): its loss is noticed, its entry leaves, the
  thread connects, and a new entry is up. The one way out is `NoneForServer`, clients
  or the serial port holding every descriptor; the socket the thread itself has opened
  and not yet connected does not count, so that a `connect` that never succeeds
  violates the property. An expired socket goes (`ExpiredLeave`).
* `gateway_insert` and `gateway_send` show failed assertions; see Findings.

`InputNotStranded` leaves out the listening socket: when `accept` fails for want of
a descriptor the waiting clients are not reported again, and nothing in the
repository says they should be.

Fairness (`FairSpec`): weak fairness of each thread and of the timer, which is
what the scheduler and `setitimer` give. Strong fairness of `Connect`: a server that
is tried again and again accepts once. Strong fairness of `ReadNothing`: no peer
fills its socket for ever faster than the loop reads; without it the loop's inner
`for(;;)` never ends. `MAXEVENTS` (64) is larger than the number of descriptors in
this program, and the run keeps it so: with a smaller batch the model's `Wait`, which
picks any descriptors, could starve one that the kernel's queue would not.

**Proved**, for every number of descriptors and structures, every timeout, batch
size and bound on input and waiting clients, from `ConstantsAssumption` alone:

* `TypeCorrect` (`GatewayProofs`, `Spec => []TypeOK`). The types are not inductive by
  themselves: `EventClose` looks `cur.fd` up in `tree`, which is right only if it is
  a key. `TypeInv` adds that an error is reported on a connection's descriptor only
  (`ErrorsHaveDescriptors`), that what the loop serves, past `accept`, is a key of the
  tree (`ServedIsKey`), and that the entry `connlist_checkstatus` is about to free is
  one (`CheckedIsEntry`).
* `TableStaysConsistent` (`GatewayProofs`, `Spec => []TableConsistent`). `TableInv`
  says three things: tree, list and free list agree (`TablesAgree`); a thread between its
  open and its insertion holds no structure of theirs (`InsertsFresh`), so that the
  structure one thread takes is never one the other is about to list; and a
  traversal's `at` and `nxt` are on the list, and differ (`CursorOnList`), so that
  deleting the first leaves the second there. The list lemmas (`AppendRange`,
  `TailRange`, `WithoutRange`, `AfterRange`, `InjectiveCardinality`) say what `list_add_tail`
  and `list_del` do to the elements.
* `PeersOpenedOnce` (`GatewayProofs`, `Spec => []OpenedOncePerPeer`). Between the look
  in the table and the insertion lie a socket, a connect and any steps of the
  other thread. `PeerInv` counts what is still to come: while the reconnect thread is on
  its way with a server connection there is none (`ServerOnce`), and the serial
  connections together with the openings under way in both threads are at most
  two (`SerialTwice`). It rests on only the reconnect thread opening servers
  (`OpensItsOwn`).
* `EntriesOwnDescriptors`, `DescriptorsNeverLeak` and `ConnectionsMonitored`
  (`[]EntryOwnsDescriptor`, `[]NoLeak`, `[]Monitored`). They hold
  together or not at all: that a number closed by the loop was a connection's needs
  that its entry owns it, that an entry owns its descriptor needs that the opener's
  number is in no other entry, and that needs that what is open is in the table.
  `DescriptorInv` adds to `TableInv`, as long as `misfired` is false, what both threads
  hold between their system call and their table operation (`OpensOwn`,
  `MainKeepsEntry`), that an entry being removed has its descriptor closed, with its number
  given to nobody but the reconnect thread (`RemovedIsClosed`; this is the window
  of `gateway_insert`), that what epoll knows is open (`RegisteredIsOpen`), and that an
  event which is not stale names a connection (`EventsSound`, `ServedSound`).
* `NoInputIsStranded` (`[]InputNotStranded`), with misfires. A
  step that gives a registered descriptor something to say puts it on the ready list, one
  that takes it off puts it into the batch, and the loop keeps it as `cur` until it has read to
  the end or closed it. `InputInv` adds that between events the loop serves nothing but the
  listening socket (`ServesNothing`), so that taking the next event forgets none.

## Framing and Alarms

One connection's receiving side. `stream` is what the peer sends, item by item;
`Recv(k)` is a read of `k` bytes followed by `event_recvmsg`: put, one check, get of
the length returned, dispatch. `Znp` and `Protocol` are one call of the two checks on
the buffered bytes, given the outcomes of the calls inside it (`inner`); `Check` is the
recursive function that puts them together, each call made on a shorter buffer. An
outcome is the rest of the buffer, the length returned and the message id. After a
recursive call the code runs off the end of a function that should return an int: the
value the caller sees is undefined, and `Unreturned` takes the two that compilers leave
there, the inner call's result and 0. The message id of the inner call goes to a local and is lost. A length byte that
makes the checksum read outside the buffer is the status `fault`. Serial frames have
their full length; the buffer is shortened (`Size` 20 for 1024), so that it overflows
and holds one and a half frames, and so is `MaxLen` (40 for 2048). Bytes keep their
values and the checksum is computed; `Xor` does it bit by bit, by counting, because the
provers cannot use a module with bitwise operators. `WholeFrame` and
`WholeMessage` say what the senders make, as the checks want it.

`Alarms` adds what `event_recvmsg` makes of a frame dispatched from the serial line:
`dataparse` takes the zone's state out of it, `encode_alarm` writes the message for
the socket peers, `encode_heart` the heartbeats that come between. `time(NULL)` and
the gateway's number are constants with bytes that look like frames. The sending
itself, socket by socket, is `Gateway`'s.

* `framing`: all streams of up to four whole frames and stray pairs of bytes, cut
  into reads in every way, on both kinds of connection. Frames contain start and
  length bytes as data. `BytesConserved`, `AlarmsArrive` and `NoiseCostsOneFrame` hold
  as long as the buffer has room; `dropped` and `bursts` record when it had none and
  when one read completed several frames (the rest then waits for the next read).
  `AlarmsArrive` goes from a device's frame through the reads, the check, the parser
  and the encoder to a peer that reads by the gateway's own rule, `protocol_check`: it
  finds the heartbeats and one alarm for each frame, in order, with the alarm bit and
  the low byte of the zone's type, the part the code sends.
* `framing_damaged`: streams with a damaged length byte; see Findings.

**Proved** (`FramingProofs`), from `FramingAssumption`, `FramesAssumption` and, for the
alarms, `AlarmsAssumption`: for all frames their senders can make, all stray bytes that
start no frame, every size of the buffer, every stream and every way to read it.

* `FramingTyped` (`[]TypeOK`), damaged streams included: no outcome has more left in the
  buffer than was there (`CheckFits`).
* `FramesAreCut` (`[]FramingInv`). In a clean stream what has been dispatched is the
  stream's first frames and the buffer holds what follows them up to `pos` (`Cut`); as
  long as no read completed two frames, the number dispatched is the number
  received (`Prompt`). Neither is inductive alone: that a check finds a frame at the front
  needs that the buffer starts at one, and that the rest starts at one again needs that the
  check took exactly it. `FramingConservesBytes` (`[]BytesConserved`) follows.
* `AlarmsAlwaysArrive` (`[]AlarmsArrive`) adds that a heartbeat and an alarm are whole
  messages, whatever bytes the clock, the number and the frame hold, that a buffer which
  begins with a whole message is cut there, and by induction on depth that `Messages` takes
  a sequence of such pairs apart (`PairsAreRead`).
* `NoiseTracked` (`[]NoiseInv`), for streams without damaged frames (`Undamaged`). The
  buffer follows the stream's first `c` bytes, for some `c` that is not within a frame
  (`Aligned`); what was dispatched is a choice of the frames before `c`, in order; and the
  frames received are at most those dispatched and one for each stray item before `c`
  (`Tracks`). The step rests on `CheckLeads`, by induction on depth: from an aligned
  buffer each outcome waits with no frame complete, finds the frame it stands at, or has
  passed a stray item and dispatches nothing, while dropping at most one frame
  (`Waits`, `Finds`, `Loses`). `NoiseCostsFrames` (`[]NoiseCostsOneFrame`) and
  `CheckStaysInBuffer` (no check reads outside its buffer) follow. Both need `Undamaged`:
  `framing_damaged` shows what a damaged length byte does.

Streams end, so the runs do not check for deadlock. Not reached here, because it
takes 4 GiB: after `in` has wrapped, `connection_readbuf_pop` drops nothing and the
checks recurse without end.

## MessageQueue, Llq and Rpc

`head`, `tail`, `ptr` and `data` are the linked list of `queue.c`, `access` and
`count` its two semaphores; `nodes` is a history variable, the nodes in use in the
order of the list. `at` is where each thread is: `llq_add` is `AddLock`, `Link`,
`Count`; `llq_timedreceive` is `Grant` or `GiveUp`, `TestHead` (outside the mutex,
queue.c:147), `TakeLock`, `Remove`, `Return`. What is done under the mutex is one
step, for nobody reads it meanwhile but `TestHead`, which sees the state before or
after. A node is any that is free: `malloc` and `free` are not looked into, and
that `malloc` fails is left out, as in the code.

`Rpc` adds the request lock `rpcSem`, the response semaphore `srspSem`, the
awaited subsystem `expected` (`expectedSrspCmdId`) and the last response processed
(`srspRpcBuff`). `rpcSendFrame` is `Enter`, `Write`, `Await`, `Clear`, `Unlock`;
`rpcProcess` is `Read`, `Post`, `AddResponse` and the queue's steps;
`rpcWaitMqClientMsg` is `Receive`, the queue's steps and `mtProcess`. After
`rpcSendFrame` a request function receives one message and reads the status
(`Status`). Each wait, post and access to what threads share is a step. Time is
not measured: a wait that would block may be given up at any moment. `Write` flushes
the output after every eight bytes (rpcTransportUart.c:199) and can thereby lose
the request; the network processor may answer late or not at all, and a frame can
come damaged. A response is matched by its subsystem
only, as in the code.

Run `rpc`: a thread that sends, a thread that sends and listens, the receiving
thread; two requests of one subsystem, one indication, three nodes (336,093
states). Two requests suffice for a late response of the first to meet the second,
three nodes for a queue with a response in front of an indication and one node
reused. The queue's pointers and counts stay in step (`QueueIntact`) and it is a
queue with priorities (`IsMessageQueue`); `SpareTokens` bounds `srspSem`, which
rpc.c:139 calls a binary semaphore and which can exceed one, by the waits given
up. `SuccessMeansAnswered` and `StatusIsOwn` are stated for behaviours in which no
wait has been given up: after one the code can take a late response for the next
request's, and nothing in it could tell. Fairness: weak, of each application thread
inside a call, of the receiving thread, and of a listener's next call (main.c:64-70 is
an endless loop); none of the network processor, and nothing makes an application
call. `RequestEnds` rests on the waits' timeouts. `rpc_status` is a finding.

**Proved**, for every set of threads, messages, subsystems and nodes and every
bound on requests, from the assumptions the two modules state (finitely many
threads, nodes numbered, the shape of messages, responses being the urgent ones):

* `QueueStaysIntact` (`RpcProofs`, `LlqSpec => []QueueIntact`). `LlqInv` adds to
  `CountMatchesList` and `PointersAreList` that the mutex is held by one thread
  (`MutexHeld`), that a thread on its way to link has a message (`ItemsHeld`) and that no
  grant ends empty (`NoneEmpty`). `HeadThere` is not an invariant to carry but a consequence
  (`ClaimFindsHead`): a thread that was granted a message is one of the counted
  `Claimants`, so the list has at least one node, whoever changes the list between
  the look at the head and the mutex. `Moves` and `GroupsMove` say how the counts of threads
  at certain places change when one thread moves; `HeadGrows`, `TailGrows` and
  `HeadLeaves` take the three changes of the pointers.
* `ImplementsMessageQueue` (`LlqSpec => IsMessageQueue`). The abstract queue is read off
  the nodes; `Link` is the abstract `Add`, `Remove` the `HandOut`, a call the `Ask`, and
  every other step a stutter.
* `UsesTheQueue` (`Spec => LlqSpec`): each step of the RPC layer is a step of
  the queue or none of it, for which the frame the receiving thread adds must be a
  message. Hence `RpcQueueIntact` and `RpcQueueIsMessageQueue`.
* `OneRequestIsSent` (`Spec => []OneRequestAtATime`). `RpcInv` adds the types, that a
  thread inside a request has one and waits only for an answer it wants
  (`RequestsMade`), and that only a receiving thread is inside the queue's code
  (`ReceivesOutside`): otherwise processing a message could take a thread out of the
  mutex without its post.
* `SpareTokensAreCounted` and `SuccessIsOwnAnswer` (`[]SpareTokens`,
  `[]SuccessMeansAnswered`). Neither is inductive. `TokensCovered` counts what may still
  post the semaphore: requests at the network processor, responses on the line, the
  post under way and the posts not taken are at most the waits given up and the
  request awaited; sequences are counted by `OfTypeAppend` and `OfTypeTail`. `OwnAnswers` says that
  while no wait has been given up all of these belong to the request awaited. A
  successful wait then takes the only post there can be, and it is its own.
* `EveryMessageOnce` (`RpcProofs`, `[]NothingLostOrTwice`). The count balances
  only if a message taken or processed was not in its place before: `OnePlace` says
  that the queue, the receiving thread's hand, the application threads' hands and the processed set
  share no message. A frame accepted must then be new, which `NewOnLine` and `IdsMade`
  give: requests and indications are numbered, and a request is answered once. Every
  step has one of five effects on the places (`Quiet`, `Accepts`, `Links`, `Takes`,
  `Processes`; `StepEffect`), and each keeps the sum.

## Layout, the commands and MtCodec

A structure is a format: a sequence of fields with sizes and, for lists, the field
that counts them. Content is a sequence of cells `<<field, element, part, byte>>`
instead of byte values, so that a byte in the wrong place is seen whatever it
holds; only the numbers that the code computes with, counts, address modes and
status, have values. `MtSys`, `MtAf`, `MtSapi` and `MtZdo` give, for each request
function, what it writes into its frame and in which order, and for each
`process...` function what it reads into its structure; `CmdLine` gives the
table of `cmdLine.c` and `inputCmd`, which stores what is typed by offset;
`AppCommands` the structures `linux_example` fills by member; `AppCallbacks` which
fields a callback prints. The callbacks of the three applications are the same. The
network processor is outside the repository: it is assumed to lay its messages
out as the structures of the headers do, member after member without padding.

Run `codec`: every command, typed or sent by the application, with lists of none,
one and two elements, and for typed lists also the longest and one too long, and
every message that has a handler, with each subsystem's callbacks registered or
not. `SentAsEntered` and `ShownAsSent` name where the code departs from them:

* `PaddingMissed`: `inputCmd` aligns a list of words when it asks for its first
  element, so that what follows an empty one is a byte off;
* `Declared`: two requests send a byte too many, and one a constant length;
* `Carried`: a bind request to a group has no end point;
* `Altered`: a short source address in a long field, the start index of an empty
  list of associated devices, and the entries of a binding table, which are stored
  through an index declared twice.

There is nothing concurrent here, and each command is one pass: the interest is in
the hundred and fifty layouts on either side, which no test compares.

## Startup and Topology

`Startup` is `appInit` and `appProcess` up to `zdoInit`'s success, for the Linux
application, which always forms a network, and for the examples, which ask. A
request with its response is one step, which can fail before or after the
processor has acted; its wait takes one message of the queue, and that may be an
earlier state indication. The processor starts in any state a session before
could leave: a network or none, one being started, any start-up option. It may
reset, restore or form a network, and reports the states in between. `mistaken`
records that `startNetwork` read a `devState` from before `zdoInit`; with it
`UpIsUp` and `NetworkIsTheOneAskedFor` say when a success is one. A write to
non-volatile memory may be done or not and reported as done or not, in all four
ways: `sysOsalNvWrite` returns what `rpcSendFrame` does (mtSys.c:590-599), and that is
success whenever a response came, whatever status is in it. `refused` records
that the start-up option was not written and reported as written; the processor then
obeys the option it had, and a network that should have been left comes up again, which
no text of the repository excludes: `NetworkIsTheOneAskedFor` speaks of the other starts.

`Topology` asks the coordinator for its neighbours and each router among the
children in turn. `mtZdoMgmtLqiRspCb` waits for a message inside itself and can so
be entered again: `calls` is the stack of its activations, each with its own
index, `nodeList` is shared. `asked` is the bag of requests under way. The code
asks for the first page of a table only (`StartIndex` 0): what does not fit
one response is not found, and `Discovered` is stated for what is within reach of
first pages. `nodeList[64]` and `childs[20]` are not bounded by the code; six nodes
stay below.

Run `topology` (174,863 states): a coordinator with two routers and an end device
in its first page and a third router outside it, an end device below the first
router; the routers name each other and their parent. Two rounds, one lost or
refused request, two that are answered after their round was over: enough for a
response to arrive inside the handler of another, and for one of the first round to
arrive in the second. `clean` marks the rounds in which neither happened. Fairness is
weak, of each step of the application and of the states the processor has
announced; none of `Answer`: a response may never come, and `RoundEnds` holds all
the same. The application stops pressing Enter after `MaxRounds`, which is
`Finished`.

**Proved** (`TopologyProofs`), for every set of addresses, every network, page size, number of
rounds and bound on losses, from two assumptions: `NetworkAssumption` (the shape of the
constants) and `TreeAssumption` (a router is the child of one node, and the coordinator
of none). The second is what Zigbee promises of a network at rest. The handler
relies on it: it asks every router it is told of, and would list one twice that
two nodes name. Only what `ListInv` says of clean rounds uses it.

* `UpIsTrue` and `RightNetwork` (`[]UpIsUp`, `[]NetworkIsTheOneAskedFor`). Neither says
  where the knowledge of a state comes from. `StartInv` does: an indication sent after
  `zdoInit` that is still in the queue, or was the last one taken, speaks of a state
  from which the processor only climbs (`FreshIsTrue`, `Climbs`); before `zdoInit` there is no
  such indication (`NothingFresh`); and success went by one (`UpWasSeen`). `NetworkSoFar`
  follows the network through each place of start-up, from every session before, with any
  other write refused unnoticed.
* `TypeCorrect` (`[]TypeOK`). That each activation's index into `nodeList` stays good
  needs that no two activations share an entry (`CallsOwn`).
* `RoundsAreComplete` (`[]Discovered`). `ListInv` describes the middle of a round. `ChildsOwn`: each
  entry's children are those among the entries its activation has looked at, however
  many activations were stacked upon it. `Once`: in a clean round a node is asked,
  answers and is listed once. `SoFar`: what is asked, coming or listed contains the coordinator
  and every router named so far, and lies in every set closed under naming. When
  nothing is asked or coming, the list itself is closed, hence it is the least such set.
  `Rank` counts children up to an entry, so that the order of the list needs
  no recursion.

## The cluster library

The gateway's Makefile does not build this library (see the end of this file): it is
modelled as what `zcl.c` and `zcl_general.c` say, on a host of 64 bits as the
framework's other sources are compiled for.

`ZclFrames` has headers and the senders and parsers of the foundation commands
on bytes; `ZclRegistry` the registers as sequences in the order the linked lists
have; `ZclAttributes` the handlers' work on attributes; `ZclScenes` groups and
scenes in memory (`zclGenSceneTable`, in the group table of the stack, which is
outside the repository) and in non-volatile memory, a write at a time. `Zcl` has
`zcl_SendCommand`, `zcl_ProcessMessageMSG` with every check in its order, the
foundation commands, the plugins and the external tasks. A handler runs to its end
before the next frame is taken, except that the power may fail between two
writes to non-volatile memory (`crash`); then the scenes are restored.

`ZclZones` is separate state: the gateway's own `zcl.c` and `zcl_ss.c`, which are
the ones its Makefile builds, with devices that ask again when an answer is lost.
Its frames' headers are bytes too, with and without a manufacturer's code.

**Proved** (`ZclZonesProofs`), for every set of devices, their zone types, any number of
requests and every highest number up to the code's 254, from `ZonesAssumption` (two
defines of `zcl_ss.h`, which the instance shrinks together; zone types of two bytes):

* `ZonesAreOwn` (`ZonesSpec => []NoSharedZone`). A device can be told any answer still on
  the air, also an old one after it has asked again, so the invariant is about
  answers: `GrantsEnrolled` (the number of every grant on the air is in the table with the
  type of the device it goes to), `GrantsApart` and `GrantsUntold` (grants to different devices
  differ, and from what others were told). A number is new to all of them because it is new
  to the table (`FreeID`). `Frames` names the frames that can be on the air, and
  `RequestParsed`, `NotificationParsed` and `ResponseParsed` show that their headers are
  read as they were built.
* `RefusalMeansFull` (`ZonesSpec => []RefusedOnlyWhenFull`). `FreeID` also says that the
  search, which wraps at one above the highest number, reaches every number from wherever
  it starts; `Room`, that the table is never as long as its maximum, for its numbers
  differ. So a request is refused only when the search fails.

**Proved** (`ZclScenesProofs`), for tables and groups of any size, any messages, any
registers and any order of handlers, writes, failures and restorings, from
`ScenesAssumption` (the table has room for at least one scene; the number of groups is a
number):

* `ScenesFitTogether` (`ZclSpec => []ScenesInv`), the inductive invariant. `Saved`: of the
  last save, which is that of the table, the writes that are left are its last ones and
  the records of the others are in the item. `Counted`: a record the header counts, or
  will count when the writes before it are made, has been written by then; so nothing
  that was never written is read. `InGroups`: the records and the writes under way belong to
  groups as much as the table does, since any of them may be read after a failure.
  `Emptied`: while groups are being left no scene in the table is theirs.
  `Undecided`: while a handler that saves once and takes nothing out is at its writes, what
  it changed is one place (`OneChange`), and every record it has not reached is the old one. `Resumed`:
  while the table is read back, one record a step with a save after each, the item keeps
  the records of the table it had (`Restores`), although they are being written again.
* `ScenesBelongToGroups` (`ZclSpec => []BelongToGroups`), from `InGroups`.
* `ScenesAreRestored` (`ZclSpec => []RestoredAsSaved`), from `Resumed`. `OldOrNew` is the
  heart: interrupted at any of its writes, a handler that makes one change has left the old
  table or the new one, by whether the changed record was written.

The handlers are proved once for all (`HandlersSound`): each leaves a table of good scenes,
saved last, and what it does in between is `Sound`. The table's loops are written as
recursive functions (`Picked`, `copied`, `removed`) rather than with `SelectSeq` and
`FoldLeft`, whose definitions the provers do not unfold; what they return is proved by
induction on finite sets (`UpTo`).

**Proved** (`ZclProofs`), for every set of requests, registers, endpoints, values and
outcomes the application may choose, and with power failures anywhere, from
assumptions `Zcl` names and the instance satisfies:

* `RequestsAssumption`: a request's header and payload are bytes and a discovery's
  numbers as long as the frame has them; nobody asks itself, or from the endpoint
  that stands for all.
* `RegistersAssumption`: attributes and commands are listed in the order of their
  numbers, without the last number (65535, 255), and attributes have values; the list
  of tasks is one that registering makes, which `TasksInOrder` shows of
  `zcl_addExternalFoundationHandler` itself.
* `AskersAssumption`: an endpoint that asks has no attribute that could disable it and
  secures no cluster. Both are needed: a disabled asker does not take its answer, and between
  two endpoints that secure a cluster an unsecured frame with a manufacturer's code
  is rejected, so is its default response (`IsDefaultRsp` holds of none with a
  manufacturer's code), and so on without end.
* `ValuesAssumption`: values and what an uninitialised buffer may hold are bytes.

The results:

* `ExchangesGoOn` (`ZclSpec => []ExchangeInv`), the inductive invariant. At any moment
  nothing is asked (`Idle`); or the request is on the air as it was built (`Waiting`); or it
  was handled and nothing is due (`Unreplied`); or there is one answer, still to be
  sent, on the air, or taken (`Replied`). `IsAnswer` says what every answer has:
  the request's number, no wish for an answer, a header that can be parsed, one of the `Responses`.
  That is why none is answered in turn (`AnswerHandled`) and why the invariant carries
  frames' bytes: which branch takes a frame depends on the header that is parsed.
* `EveryCommandAnswered` (`[]AnsweredOnce`). Each handler's outcome either answers and says so,
  or leaves the default response to `zcl_ProcessMessageMSG` (`IsOutcome`, for the plugin's
  commands; `RepliesAre` and `HasRsp` for the library's), so never both.
* `EveryAnswerHeard` (`[]AnswersAreHeard`). The search for a task stops at the endpoint's own
  (`TaskFound`).
* `EveryDiscoveryExact` (`[]DiscoveryIsExact`). What is listed is found by repeated search from the
  number after the last; that the search from any number finds the least one offered needs
  the order of the list, and that the whole list is the first of what is offered is an
  induction on how many are still asked for.

`ParsedAsSent` and `WritesAsReported` stay with TLC. The first is about thirty pairs of senders
and parsers of byte strings, half of them with values of lengths that the type
decides; for headers and discoveries it is proved (`HeaderParsed`, `DiscoveryParsed`). The second
compares values after an undivided write with a memory image in which records overlap.

Run `zcl` (261,954 states) has three topics, one chosen at the start, as their states are
disjoint: about eighty requests to the library under three registers; scene and
group requests with tables of two; enrolment of three devices for two zone numbers,
one of a type that is not supported, each asking twice. Tables of two fill, and
a scene is copied, removed and restored with another one behind it; two numbers
run out. The longest lists have 15 and 16 records, and 10 and 11 configurations:
either side of the wrap.

Some parsers destroy memory that is not theirs. `Corrupts` has the two ways that always do:
the numbers of a response with commands are written through `pCmdID`, a pointer of the
structure (zcl.h:636) that is never set (zcl.c:4247); and a list whose values follow
its records takes the records' length as a byte, `hdrLen`: with 8 + 16n bytes, or 8 + 24n
for configurations, it wraps at 16 records, or 11, and the values are copied over the
records, those past the end of the block. `MayCorrupt` adds the write response, whose block
has three bytes for a record of four (zcl.c:3670), and the undivided write, whose copies
lie over the records (zcl.c:4608). What a program does after that has no bound: `Collapse`
lets it end there. The first two always end so. With the other two it may go on as if
nothing had been there, since an allocator rounds blocks up. The properties speak of
all behaviours up to that point, and `ParsedAsSent` of the other frames: it excepts
`UnsetPointer`, and `TooMany`, lists that wrap. `AnsweredOnce` and `DiscoveryIsExact` are
stated from the moment an answer is there, not only when the exchange has come to rest.

There is no liveness to state: nothing waits, and nothing is retried by the library. The properties name where the code departs from them: `Unanswered`,
`Miscounted`, `UnsetPointer`, `TooMany`, `CutShort`, `Overlaid`, and in `RestoredAsSaved` the commands that
write the table more than once or shorten it. Details that are modelled as they are:

* a default response that carries a manufacturer's code is rejected by its receiver;
* the write that disables a device also silences the default responses to it;
* `zcl_registerAttrList` leaves `pfnAuthorizeCB` unset, and of two lists for one
  endpoint the first is used;
* an undivided write puts values back in the order they were written;
* the response to a request that needed security ignores `disableDefaultRsp`;
* an enhanced add of a scene that exists keeps its old tenths of a second;
* types of 40 to 64 bits of general data have length 0;
* the number of commands in a discovery that finds none is not initialised.

`ZCL_LIGHT_LINK_ENHANCE` is taken as defined. Not reached by the instance: attribute
number 0xFFFF, after which a discovery would wrap, and an undivided write that names
an attribute twice.

## Findings

* `connrbtree_insert` can meet its `assert(0)` (connection.c:174): the loop closes a
  descriptor before it removes its connection, and the reconnect thread can be given
  the number in between (`gateway_insert`).
* `sendnonblocking` asserts that no write fails or is short (socket.c:158,162); a reset
  peer or a full socket ends the gateway (`gateway_send`).
* A serial frame with length 1 is dispatched as business data (`framing_damaged`).
* A request can report the status of an earlier one: the sender is released before
  its response is in the queue (rpc.c:377 and 384), against mtZdo.c:2804-2808
  (`rpc_status`).

The departures that properties name as exceptions, listed above with their runs,
contradict no line of the repository that could be quoted; they are not findings.

## Not modelled, and why

* The red-black tree and the linked list at the level of pointers. Two threads
  change both without a lock; what a compiled data race may do has no bound, so a
  model could only confirm that nothing is promised. `Gateway` takes each operation
  as atomic, the most that can be hoped for, and shows what goes wrong even so.
* `gateway.c`'s device table: `main` creates it empty and nothing in the process
  adds a device. `encode_login`, which would list them, and `encode_operback` are not
  called either.
* `ceconf.c`, `toolkit.c`, the CC2530 encoders, the test programs: constants,
  printing, linear layouts that nothing calls.
* On/Off, Level Control, Alarms and RSSI Location of `zcl_general.c` hand a field of
  the frame to a callback. `ZCL/zcl_ss.c`, `zcl_ha.c` and the other clusters in that
  directory are left out; the security cluster the gateway uses is its own copy's.
* The Makefile of `linux_example` builds nothing of `linux_example/ZCL`, and
  `zcl_general.c` could not be: it includes `zcl_ezmode.h`, which is not there.
* `dataSendRcv`'s chat loop, `servDisc` and `stressTest`: the start-up and callbacks
  modelled, with a different body. The console's completion of command names.

## What TLC shows and what TLAPS proves

| | for every value of the constants | on the instances only |
|---|---|---|
| `KFifo` | types, `Occupancy`, `CopiesIntact`, `IsByteQueue` | |
| `Gateway` | types, `TableConsistent`, `OpenedOncePerPeer`, `EntryOwnsDescriptor`, `NoLeak`, `Monitored`, `InputNotStranded` | `ServerReconnects`, `ExpiredLeave` |
| `Llq`, `Rpc` | types, `QueueIntact`, `IsMessageQueue`, `OneRequestAtATime`, `SpareTokens`, `SuccessMeansAnswered`, `NothingLostOrTwice` | `RequestEnds`, `QueueDrains` |
| `Startup`, `Topology` | types, `UpIsUp`, `NetworkIsTheOneAskedFor`, `Discovered` | `RoundEnds` |
| `ZclZones` | `NoSharedZone`, `RefusedOnlyWhenFull` | |
| `ZclScenes`, `Zcl` | `BelongToGroups`, `RestoredAsSaved`, `AnsweredOnce`, `AnswersAreHeard`, `DiscoveryIsExact` | `ParsedAsSent`, `WritesAsReported` |
| `Framing`, `Alarms` | types, `BytesConserved`, `AlarmsArrive`, `NoiseCostsOneFrame` | |
| `MtCodec` | | everything |

Out of the prover's reach is liveness under fairness. `Framing` and `Alarms` recurse by
functions over the buffer; `FramingProofs` finds their values by induction on the depth. What `MtCodec` says is about
data enumerated by the instance, a hundred and fifty layouts;
TLC evaluates all of them, and a proof would do the same case by case.
`ParsedAsSent` and `WritesAsReported` depend on bytes at computed places of a frame, of
which only the headers are within the provers' reach.
`PROJECT.json` lists the hazards with the
properties that cover them and, for those not covered, the reason.

# serverbench in TLA+

serverbench is a Linux server framework of three kinds of processes.  A
**controller** starts and watches the others.  A **proxy** accepts clients over
TCP (and UDP), cuts their bytes into requests and hands each request to a
**worker** through a ring in shared memory; the worker calls the plug-in and
hands the response back through a second ring, and the proxy writes it to the
client.  Proxy and workers are single-threaded event loops over edge-triggered
epoll; a fifo beside each ring wakes its reader.

This directory models those parts whose correctness depends on the order in
which processes, messages and events meet.  Modules are in TLA+ only; `MC*.tla`
and the `.cfg` files are the instances TLC checks, `*Proofs.tla` the proofs
TLAPS checks, `PROJECT.json` the index (components, runs, mutants, the lines of
source behind each definition, hazards, findings and theorems).  Paths in
comments, such as `client.cpp:30`, are files of `src/`.

    tlc -workers 2 -config ShmRing.cfg ShmRing
    tlapm ShmRingProofs.tla

## The system

| component | source | state | operations |
|---|---|---|---|
| shared-memory ring | `netcomm/cshmcommu.*` | in the segment: `head`, `tail` (plain words), two atomic counters, the block; in each caller: what it loaded and copied | `createShm`, `enqueue`, `dequeue` |
| producer, consumer, notifier | `netcomm/processcomm.*`, `netcomm/notifier.*` | two rings and two fifos for each group | `produce`, `consume`, `sendNotify`, `readNofiy` |
| proxy event loop | `netcomm/pollerunit.*`, `pollerobject.*`, `proxy/*` | epoll's interest and ready lists, the batch of the last wait, slots | `waitPollerEvents`, `processPollerEvents`, attach, modify, detach |
| slots | `comm/slot.h`, `pollerunit.cpp` | blocks of elements, the free list through `freenext`, the numbers of objects | `allocNewSlot`, `freeOldSlot`, `getSlotElement`, `expandBlock` |
| listener, client connections | `netcomm/listener.*`, `client.*`, `clientdata.*` | backlog; each connection's two caches and registered events | accept, `inputNotify`, `outputNotify`, `sendResponse`, `onConnOver` |
| worker event loop | `worker/*`, `module/example/*` | the request in hand | drain the fifo, empty the ring, answer |
| heartbeats | `comm/cprocmon.*`, `netcomm/cmqcommu.*` | a SysV message queue | `msgsnd` with `IPC_NOWAIT`, `msgrcv` by type |
| controller | `controller/*` | for each group the list of processes heard of, with times; the events found | `doRecv`, `doCheck`, `doEvent`, start, quit |
| listening sockets | `csocket.*`, `listener.*`, `udplistener.*`, `proxy/incoming.cpp` | who holds TCP port 8881 and UDP port 8882 | `bind`, `listen` as a proxy starts |
| client cache, framing | `clientdata.*`, `client.cpp`, `module/example/*` | buffer, capacity, read and write position | `write`, `alignPosition`, `haspackage`, `getPackage` |
| UDP socket and plug-in | `udplistener.*`, `client.cpp`, `module/udp` | the same cache; `demo::msg` with presence bits | receive, parse, merge |
| byte buffer, plug-in loading, utilities, tests, scripts, vendored and generated code | `utils`, `benchadapter.*`, `tools`, ... | | |

They interact in four ways: **shared memory** without locks (ring: proxy and
worker, load by load and store by store), **wake-ups** (fifos and epoll edges,
which may be merged but must not be lost), **messages** (heartbeats), and
**callbacks** in one loop (an event handled early in a batch closes objects that
later events name).  Proxy and worker know a connection only by the number of
its slot, which is used again.  The controller knows the other processes only by
their heartbeats.

What is hard, and what makes each part correct:

- *Ring*: the indices are read once by each side and used until the end of the
  call, a frame may be cut by the end of the block in its header, its body or
  its closing SPPX, and a process that starts resets a ring in use.  Correct
  means: no access outside the block whatever the other side does; a FIFO
  channel for one producer and one consumer; refusal only for want of room.
- *Slots*: any sequence of attach and detach keeps the free list whole and every
  number naming one object.
- *Request path*: every request taken from a connection is in one place on its
  way and is answered once or dropped once; no edge is lost; no connection is
  closed for a full or an empty socket; a response goes to its own client.
- *Bytes of a connection*: reads and writes end anywhere, the cache grows, shrinks
  and is moved in between, and a client's length is an `int` compared as a
  `size_t`.  Correct means: no position outside the buffer, the bytes once and
  in order, a whole message or none for the worker, no request kept waiting.
- *Controller*: a process that runs is not taken for silent because its
  heartbeat is under way; after a fault, groups come back to their size.

## Modules

| module | what it is | main definitions and their code |
|---|---|---|
| `Channel` | abstract: a FIFO channel | |
| `ShmRing` | the ring, one step for each load or store of shared memory | `EnqLoadHead` ... `EnqCount` are `CShmMQ::enqueue` in program order; `DeqLoadHead` ... `DeqHistory` are `dequeue` |
| `ShmRestart` | the same with processes killed and started at any point | `Boot*` are the stores of `createShm`; `Crash` |
| `ProcMonitor` | controller, processes, heartbeat queue, time in units of five seconds | `CtlStart` (`initconf`), `CtlRecv` (`doRecv`), `CtlCheck` (`doCheck`), `CtlDown` ... `CtlBury` (`doEvent`), `CtlSleep`, `CtlWake`; `StartProxy` (`CIncoming::init`, with `Listen`, `ListenUdp`), `StartWorker`, `Loop` (`realrun`); `Crash`, `Hang`, `StartByHand`, `CtlQuit`, `CtlCrash` |
| `Relay` | clients, kernel sockets, proxy loop, two rings, worker loop | `PxWait`, `PxAccept`, `PxOutput`, `PxInput`, `PxProduce`, `PxNotify`, `PxDrain`, `PxConsume`; `Wk*`; `Connect`, `Send`, `ClientReceive`, `Close`, `Reset` |
| `ClientData` | `CClientData` as operators on a cache | `Write`, `Expand`, `MoveToFront`, `Revert`, `AlignPosition` |
| `DemoMsg` | `demo::msg` as operators on messages and cells | `ParseStep` (`MergePartialFromCodedStream`: `ReadTag`, `ReadNum`, `ReadLength`, `ReadChar`, and `SkipField`, `ReadInGroup` for fields it does not know), `MergeFrom`; `SerializeMsg`, what a sender does (`tools/protobuf/test-src`) |
| `ByteStream` | abstract: bytes come out once and in order | |
| `Connection` | the bytes of one connection, or of the UDP socket, from the network through the caches, the framing and the plug-in and back | `SendBytes`, `SendDatagram`; `CloseClient`, `Abort`, `Reset`; `RecvData`, `RecvEnd` (`recvData`), `ProcessData`, `WorkerProcess` (`bench_handle_process`), `SentResponseCache`, `OutputNotify` (with `SendData`, `SendFails`) |
| `SlotMap` | abstract: a map from numbers to objects | |
| `Slot` | blocks, free list and lookup of `slot.h` | `Attach`, `AttachNew`, `AttachFails`, `Detach` |
| `Lemmas` | remainders, induction over a set of numbers, sequences laid end to end | |
| `ShmRingProofs` (also of `ShmRestart`), `SlotProofs`, `DemoMsgProofs`, `ConnectionProofs`, `RelayProofs`, `RelayFlowProofs`, `ProcMonitorProofs` | theorems | |

`ShmRing` is composed by `ShmRestart`.  `Relay` takes each ring as a bounded
FIFO, which is what `RingImplementsChannel` proves of a ring with one proxy and
one worker, and takes the slots as a sequence of free numbers, which is what
`FreeListSound` says of `freenext`.  `Connection` composes `ClientData` (twice, as the
two caches) with `DemoMsg` and refines `ByteStream` twice; `Relay` counts pieces
of requests where `Connection` has their bytes, and has the events, connections
and sockets that `Connection` leaves out.

### Decisions that carry weight

**Steps of the ring.** `head` and `tail` are ordinary words that the compiler
may not keep in registers at `-O0` (the makefiles pass no optimisation) and
x86-64 keeps the order of a process's stores and loads as far as the ring
depends on it, so one load or store is one step, and bytes are copied one by
one in address order.  A cell of the block names the message and the offset its
byte belongs to: bytes of two messages never look alike.  A length mixed from
bytes of two messages may be any of `TornLens`.  That a body contains the four
bytes SPPX is not modelled.

**One turn of a worker or proxy loop** in `ProcMonitor` is one step: only its end,
where heartbeat and quit flag are looked at, touches anything shared.

**epoll** in `Relay`: a descriptor is queued when something it watches happens,
or when it is added or modified while ready; `epoll_wait` takes descriptors off
the queue until it has `MaxEvents` events (`maxpollers`, `pollerunit.cpp:48`) or the
queue is empty, and reports what each is ready for *then*.  The queue is a set:
which ones are taken, and in which order, is left open, so what holds holds for
the kernel's list too.  `recvData` and the following
`enableInput` are one step, as are `write` and `enableOutput`: `EPOLL_CTL_MOD`
looks at readiness again, so what arrives between the two is reported either
way.

**Closing.** A connection is closed where `read` gives 0 or fails (`client.cpp:38-41`,
`101-123`), and where `write` fails (`client.cpp:64-68`, `192-196`).  `Connection` and
`Relay` have each: a client that leaves sends a FIN, or, with data unread or when
it dies, a reset at once (`Close` of `Relay`; `CloseClient` and `Abort` of
`Connection`); the `read` or the `write` that meets the reset fails.
A response to a client that has closed is answered with a reset (`Reset`); then a `write`
raises SIGPIPE.  No process ignores it, so `PxOutput` (`SendFails` in `Connection`)
ends the proxy, where the comment at `client.cpp:174` expects `-1`.  Clients that shut down one direction
only are left out.

**Numbers.** A number of a slot is `block * Shift + element`, as `slot.h:95`
packs it.

**Ports.** Where a proxy cannot bind, `init` returns -1, the caller does not look,
and the proxy runs on without that socket; its heartbeats are like any other's.
TCP and UDP are bound one after the other, so two proxies that start together
may get one each.  A process that ends, in whatever way, lets go of its ports
(`SO_REUSEADDR`).

**memcpy over itself.** `alignPosition` copies overlapping areas with `memcpy`, which
the language leaves undefined.  `MoveToFront` *assumes* that it does what
`memmove` does towards the front.  That depends on the C library and the
processor: some of glibc's x86-64 variants copy backwards.  So this hazard is
assumed away and not checked; the mutant, which copies from the back, shows
what the other outcome breaks (`ResponseStreamSpec`, `RequestStreamSpec`).

**A function without a return.** `sendData` of a UDP client flows off its end.  At
`-O0` the register it leaves holds nothing negative there, so the connection
is not closed; nothing is sent.  The UDP plug-in sends no response, but proxy and
worker load the example plug-in, and `incoming.cpp` opens UDP port 8882 beside
TCP: as the server comes, responses do reach the UDP socket.  They stay in its
send cache, which grows; and since a UDP socket is always writable, EPOLLOUT is
reported again at each `enableOutput` and the loop does not sleep.  In `Connection`
the bytes stay where the code leaves them (`OutputNotify`), up to `MaxBytes`;
`Relay` has TCP connections only.

**Bytes.** An `int` of a header is `HeaderLen` cells that know their value; four
bytes that are no header read as `TornInt`.  In `DemoMsg` a tag, a length, an
integer and a character are one cell each: how varints are packed, and the
library's limit on the depth of groups, are left out.
The length in a response's header counts the header, the one in a request's
does not (`service.cpp:64`, `message.cpp:49`); the test client looks at
neither, and no property is about it.

**A reference to a local.** `findProc` (`procmonitor.cpp`) returns a reference to
a local when nothing is found; the value is compared with -1 before anything else
uses the stack, and the build gives -1, which is what `Heard` does.

## Runs

| run | checks | shows |
|---|---|---|
| `ring` | `TypeOK`, `MemorySafe`, `UnreadIntact`, `DequeueNeverFails`, `CountersSettle`, `RefusedOnlyWhenFull`, `ChannelSpec` | With one producer and one consumer, at every interleaving and every position of the wrap, the ring is a FIFO channel; nothing published is overwritten; no message is refused that would fit. |
| `restart` | `RestartTypeOK`, `MemorySafe` | Kills and starts at any point never make an access leave the block or the buffer. |
| `restart_torn` | `DeliveredWhole`, **violated** | A start during a dequeue lets both SPPX checks pass on a message mixed from two. |
| `relay` | `TypeOK`, `Accounted`, `InOrder`, `InputNoticed`, `ClosedOnlyAfterClient`, `SlotsMatch` | Requests are never lost on the way, doubled or reordered except where a full ring or a leaving client drops them; no edge is lost; slots are safe to use again within a batch. |
| `relay_answers` | `Answered` | Clients that wait for each response, as the test client does, get it. |
| `relay_owner` | `OwnResponses`, **violated** | The response to a client that left goes to the next client in its slot. |
| `relay_flush` | `FlushesResponses`, **violated** | `enableInput` takes back the EPOLLOUT that a response has registered, and the response stays in the cache. |
| `slot` | `TypeOK`, `FreeListSound`, `LookupRight`, `Found`, `MapSpec` | The free list is sound through expansion, exhaustion and reuse, and the slots implement a map. |
| `monitor` | `TypeOK`, `OnlySilentKilled` | SIGKILL meets only processes that hung or whose heartbeat was dropped. |
| `monitor_converges` | `Converges` | After a crash, a hang or a start by hand, the group settles at its size and the list at the truth. |
| `monitor_usable` | `UsableKept`, **violated** | The proxy that listens is told to quit; one that could not bind, or the entry of a dead one, is kept. |
| `connection` | `TypeOK`, `CachesInside`, `MessagesFramed`, `RequestsWhole`, `NothingHeldBack`, `DatagramsMerged`, `EndsOnlyWithPeer`, `RequestStreamSpec`, `ResponseStreamSpec` | However the network cuts and joins, the caches implement byte streams and stay inside their buffers; requests are cut off as they were sent, and none waits that is complete; a negative length stops a connection's requests and reaches nobody; datagrams read at one event merge into one message; a TCP connection ends only by its client, with every byte read if it was closed and not reset. |

The four violated properties each state what a comment or document of the
repository says; `PROJECT.json` quotes it under `findings`.

Every property of a passing run has a mutant: an operator `Mut...`, defined next
to the definition it replaces, which is that definition with a plausible fault.
TLC finds the property violated under the mutant and the run's own
configuration.

### Bounds, and why they are enough

- `ring`: a block of 19 bytes (2024 in the code) with fields of 2, 1 and 2
  bytes (4 each in the code) and bodies of 1, 4, 11 and 12 bytes.  Frames of 8
  and 11 bytes move `head` to many offsets modulo 19, so each part of a frame
  is cut by the end of the block in some behaviour; 11 fills the ring to the
  last usable byte and 12 never fits.  Four messages are enough for the ring to
  be full, wrap and be emptied.  The theorems drop all of these bounds.
- `restart`: a block of 11 bytes; two kills; three
  messages.  A restart lets old bytes be dequeued again without end, so
  `RestartView` leaves the histories, on which nothing depends, out of the state.
- `relay`: two connections share slots, one pipelines two requests of two reads
  each and may leave; rings of one message and sockets of one response make
  both refusals and partial writes happen; `MaxEvents` is 2, of four descriptors, so
  that a wait leaves some behind.  The other runs of `Relay` have `MaxEvents` 4,
  which takes all: with fewer, a set could leave one descriptor behind for ever,
  which the kernel's list, first in first out, does not.  `relay_answers` has rings of two, so
  that two clients with one request each under way are never refused: with a
  full ring the request is dropped, which is what `Accounted` is about, not
  `Answered`.
- `slot`: two blocks of two elements and five objects, so that the table is
  extended twice, is exhausted and reused; `Shift` is 3, larger than the
  block, so that some numbers name elements past the end of a block.
- `connection`: caches and reads of 8 bytes (both 1024 in the code), headers of
  2 cells, integers of 6 bits and sizes of 7, at most 31 bytes in a cache.
  Twelve scenarios, over TCP and UDP and with either plug-in: a body that makes
  the cache grow and then shrink with requests behind it, one of length zero,
  a negative length, one longer than what follows, a datagram without bytes,
  messages with all fields, an empty string, a required field missing, and
  unknown fields of each wire type, groups included.  Within each, every cut of
  the stream, every partial write, every refusal of a ring and a close or a
  reset at any point happens.
- `monitor`: one group of one process, as `initconf` has for the proxies, two
  ids, two faults of any kind, a second start of the controller.  `CycleTime`,
  `LoopTime` and `StartTime` say how late the loops may be in units of five
  seconds: with a check every two units and a loop one unit late, a heartbeat
  is still within the twenty seconds of `DeadAfter`.
- `monitor_converges`: no proxy and one or two workers (`initconf` has one to
  four), so that a proxy started by hand is one too many and a second worker is
  not; three ids, since a dead one, its replacement and one
  started by hand exist at a time; one fault, after which all must settle;
  loops on time, as slower ones start more replacements than there are ids.

`CHECK_DEADLOCK FALSE` stands where a bound lets the system stop: clients that have
sent all they may (`Relay`, `Connection`), faults and starts used up (`ProcMonitor`).

### Fairness

`Relay`: weak fairness of the proxy's loop and of the worker's loop, each as a
whole (the kernel runs a process that is ready), and of each client that has a
response to read (`test_tcp_echo` blocks in `read`).  Nothing makes a client
send.  `ProcMonitor`: weak fairness of time, of the controller and of each
process that is not hung; `Resume` has none, a hung process may stay hung.
`Converges` assumes moreover that the controller is not down for ever and that
no process has a queue open that the controller has removed: such a process
can never be heard, and the code has no answer to that.

## Theorems

All are checked by `tlapm` with SMT, Zenon and LS4, from the modules' `ASSUME`s
only, for every value of the constants.

| theorem | says |
|---|---|
| `TypeCorrect`, `AccessesSafe` (`ShmRingProofs`) | `Spec => []TypeOK`, `Spec => []MemorySafe`, any number of producers and consumers |
| `RestartTypeCorrect`, `RestartAccessesSafe` (`ShmRingProofs`) | the same of `ShmRestart`, with kills and resets at any point |
| `UnreadNeverOverwritten`, `NoDamage`, `RefusalsJustified`, `RingImplementsChannel` (`ShmRingProofs`) | one producer and one consumer: `[]UnreadIntact`, `[]DequeueNeverFails`, `RefusedOnlyWhenFull`, `Spec => ChannelSpec` |
| `CountersAlwaysSettle` (`ShmRingProofs`) | `Spec => []CountersSettle`, any finite number of producers and consumers |
| `SlotTypeCorrect`, `FreeListAlwaysSound`, `AlwaysFound`, `LookupAlwaysRight`, `SlotImplementsMap` (`SlotProofs`) | the properties of the run `slot` for any number of objects, block size and number of blocks |
| `RelayTypes`, `RelaySlots`, `RelayCloses`, `RelayNoticed` (`RelayProofs`) | `Spec => []TypeOK`, `[]SlotsMatch`, `[]ClosedOnlyAfterClient`, `[]InputNoticed` of `Relay`, any number of connections, requests and reads, rings and sockets of any size |
| `RelayAccounted`, `RelayInOrder` (`RelayFlowProofs`) | `Spec => []Accounted`, `Spec => []InOrder` of `Relay`, likewise |
| `MonitorTypes` (`ProcMonitorProofs`) | `Spec => []TypeOK` of `ProcMonitor`, any groups, processes, queue and timing |
| `OnlySilentAreKilled` (`ProcMonitorProofs`) | `Patient` implies `Spec => OnlySilentKilled` |
| `PackageRight` (`ConnectionProofs`) | what `haspackage` returns is 0 or the length of a whole message that is there, for any bytes |
| `TypeCorrect`, `CachesRight`, `FramedRight` (`ConnectionProofs`) | `Spec => []TypeOK`, `[]CachesInside`, `[]MessagesFramed`, any scenario, sizes of cache and read |
| `RequestsImplement`, `ResponsesImplement` (`ConnectionProofs`) | `Spec => RequestStreamSpec`, `Spec => ResponseStreamSpec` |
| `EndsRight`, `WholeRight`, `HeldRight` (`ConnectionProofs`) | `Spec => []EndsOnlyWithPeer`, `[]RequestsWhole`, `[]NothingHeldBack`, any items, any way the network cuts and joins them, and reads and writes that fail after a reset |
| `MergedRight` (`ConnectionProofs`) | `Spec => []DatagramsMerged`, any messages in any datagrams that fit a read |

**Memory safety** needs `MemInv`: types, and what each call has established by
the time it touches the block (`CopyFits`, `FetchFits`).  It speaks of the
indices a call *loaded*, not of those in the segment, so it holds whatever the
others store there as long as it lies in the block; hence any number of
callers, and restarts.  It rests on `BuffSize >= BlockSize`
(`processcomm.cpp:130`) and on no total of a body that passes the buffer check
wrapping the word.

**The channel** needs `RingInv`, for one producer and one consumer (`OneEach`, an
assumption of the theorems, not of the module): the histories agree with the
indices modulo the block size and less than a block is in flight (`HistoryInv`),
published frames are intact, what the producer has copied lies beyond what is
published and fits by the tail of now (`EnqueueInv`: a stale tail only makes it
more careful), and what the consumer has copied is the beginning of the oldest
frame (`DequeueInv`).  `ModWindow` (`Lemmas`) then says that the bytes of one
side's frame and the other's have different cells.  TLC's run `ring` checks the
conjuncts through the properties they imply.

**Counters**: each step changes a counter, a history and at most one member of a
set of callers in the middle of counting; the sums agree modulo the word.

**Slots** need `SlotInv`: the history `chain` is the free list as a sequence
(`FreeListSound`), numbers of elements are what `setBlockIndex` computed
(`Numbered`), and elements and objects name each other (`Attached`).
`Numbering` shows that quotient and remainder give a number's parts back.  The
refinement maps `object` to the function from numbers to objects; attaching is
`Map!Add`, detaching `Map!Remove`.

**The relay** needs `RelayInv`: types with the account of a connection's reads
(`Within`: what is in the socket, in the cache and asked is no more than what
was sent), slots and objects that name each other (`SlotsMatch`), what is listed
or in the batch belongs to a slot in use and each slot has one event (`Watched`),
connections that wait for `accept` have no slot (`Waiting`), a socket reported
writable stays so until its event (`Output`), requests come from a connection's
event (`Producing`), and a connection ends with its client (`Leaving`).  Each
clause is needed: `Watched` and `Waiting` for the slots, which are as many as
connections (`SomeFree`, by counting); `Output` and `Leaving` for
`ClosedOnlyAfterClient`, since a `write` that writes nothing would be taken for
an error.  Given `RelayInv`, `InputNoticed` is inductive: `LaterKept`, `LaterStay`
and `LaterPop` say what of a batch survives a step.  The order of events in a
batch is any (`OrderOfReports`).

**The connection** needs `IInv`: types, `CachesInside`, `MessagesFramed`, and
`Bounded`, that neither the receive cache nor a message in the request ring
holds more than `MaxBytes`.  The lemmas on `ClientData` (`ReallocRight`,
`ExpandRight`, `WriteRight`, `AlignRight`, `SkipRight`) say of each operation
what it does to the positions and to `Readable`, as sequences; each action is
then one append or one cut of a stream.  `FramedRight` rests on
`MaxBytes <= IntMax`, caches under 2 GiB, and on `SizeMod > 2 * IntMax + 1`, a
`size_t` wider than an `int`: a negative length becomes a size no cache holds.

What becomes of the bytes needs two invariants more.  `NetInv` says where each
byte is: `Stream(s, n)` is what the proxy gets of the first `n` items (a
datagram loses what does not fit into a read), and over TCP what was read, what
is in the socket and what is left of the item being sent make up such a stream
(`TcpAt`), while over UDP what was read is the stream of the datagrams that are
neither unsent nor in the socket (`UdpAt`).  `EndsRight` follows
(with `Ended`): a TCP connection is closed only with nothing left in the socket and
`fin` set, where `TcpAt` gives the bytes, or after a reset instead of a close.  `RequestInv` says that what was
cut off and what is in the cache make up what was read (`Conserved`), that the
first `count` messages are the first `count` items (`WholeIn`), and that no
request is left whole in the cache of an idle object (`HeldIn`).  `PackageOf` is
the heart of it: with any beginning of a request in the cache, `haspackage`
says 0 or its length, and 0 only if it is not complete; with a negative length
it says 0 for ever.  `NextItem` says that what the cache begins with is the
next item, by induction over the stream (`StreamElements`).  The theorems need
that the header of a datagram is not cut (`HeaderLen <= ReadSize`: 4 and 1024).

**Merged datagrams** need two things.  `MessageInv`: the bytes handed on of the
UDP socket end where a datagram ends, so that what the plug-in takes next is whole
datagrams that follow each other (`TogetherCut`, since equal beginnings cancel).
And of the parser (`DemoMsgProofs`): `Alike` relates a parser that starts with
nothing to one that already has a message, and every cell read keeps it
(`AlikeStep`, by what a tag, a number, a length and a character do to each
field, and what stands in a group of unknown fields does to none of those it
knows); a string whose length is still to be read is excused, since `ReadLength`
empties it.  So a datagram parsed on top of others does what `MergeFrom` does
(`ParseMerges`), and by induction over the datagrams the whole is the merge
(`DatagramsParse`).  `FoldConcat` says that a fold goes on where that of the
beginning ended.  The theorem is about scenarios whose `msgs` are what each
datagram alone parses to, in datagrams a read takes whole (`MessageAssumption`).

**Where requests are** (`RelayFlowProofs`).  `FlowInv` speaks of three kinds of
place: what came to a connection (client, socket and send cache, `Received`),
what is on the way in both rings and the worker's hand (`OnTheWay`), and what was
lost.  They are `Typed`; numbers of one asker rise along the way, and what came
to any connection is earlier than what is on the way (`Sorted`); nothing is in
two places (`Disjoint`); and each request asked is in one (`Complete`).  Each
action of the relay moves requests from one place to the next or out, and one
lemma for each kind of move says that `Flow` survives it.  `Accounted` counts
places in a set, `InOrder` lays them end to end; both are read off `FlowInv`.

**The controller** needs `MonitorInv`: a process leaves messages and entries only
under its own group, and none before its loop runs (`Owned`), a list has a
process once (`Lists`), and `doEvent` is where its events say it is (`Control`).
Process ids come back after a death, so `Owned` is about a process of now, not of
the id.  `OnlySilentKilled` needs `SilenceInv`: the last word of a process that
is well, its newest message or else its entry, is as old as the process's own
clock says (`Fresh`); when `doCheck` looks, the queue has been found empty since,
so that no entry of such a process is older than a heartbeat, a late loop and the
time since then (`Drained`); and who is on the event list as dead was silent or is
gone (`Condemned`).  It assumes `Patient`: `HeartbeatEvery + LoopTime + CycleTime
<= DeadAfter`, which is what the code's numbers say of loops that are not
starved: a heartbeat is due every 5 s and may be sent a turn of 5 s late, the
controller checks every 10 s and waits for 20 s (`1 + 1 + 2 <= 4` in
`ProcMonitor.cfg`).  The condition is sufficient; with the other numbers of the
configuration TLC finds a process killed that was well only from a `CycleTime`
of 4.

Inductions over numbers and sequences (`Stream`, laying sequences end to end) are
proofs about sets of numbers that hold 0 and the successor of each member
(`Induction` in `Lemmas`).

Only model-checked: all liveness (`Answered`, `Converges`), which is out of the
prover's reach.  Of `DemoMsg`, that what `SerializeMsg` writes is read back: the
instances' datagrams are made with it, and TLC checks `MessageAssumption` of them.

## Not modelled, and why

- Descriptors running out: `accept` fails, and the connections in the backlog
  wait for the next one to arrive (`listener.cpp:53`).  `realloc` and `malloc`
  failing (`clientdata.cpp:120`).
- `ByteBuffer`: nothing in the server uses it.
- Plug-in loading, logging, checksums, string helpers: no state that a later
  step depends on.
- Starts that fail: `shmget`, `mkfifo`, `epoll_create` or a plug-in that is not
  there, where processes exit or die at their first use of what is missing
  (`ShmRestart` has that as a process that stays down).
- `message.cpp` of the UDP plug-in, which nothing calls; protobuf below the level
  of fields; the generated code of the test client, and of `tools` but for the
  writing of a message, which the server never does and the datagrams of
  `Connection` are made with; the demo server, and the test client's TLS and protobuf tests, which talk to other
  servers.
- The `cout` of request bytes as a string without an end (`client.cpp:154`).
- The names and keys of segments, fifos and queues; configuration files.
- Two proxies, or several workers, on the same two rings and fifos: `ShmRing` has
  any number of callers, for which memory safety and the counters are proved;
  the channel is for one of each, and so is `Relay`.  Two workers of one group
  can dequeue the same request.
- `SIGUSR2`, whose handler does nothing.
- The reuse by the kernel of a process id that the controller still knows.
- Several groups in the runs of `ProcMonitor`: the module has them, and events
  of groups meet only in one list that is worked off in order.
- Behaviours the modules have and no property excludes: a process that hangs
  before its first heartbeat is on no list and stays; a controller that starts
  while its processes run does not know them and starts others; a proxy that
  could not bind never tries again, so after `UsableKept` is violated nobody
  listens.

## Plan

Done: 1. ring, channel, restarts, with proofs.  2. controller and heartbeats,
and the ports, with proofs.  3. request path, with proofs.  4. slots, with
proofs.  5. client cache, framing and UDP, with proofs.

Left: descriptor exhaustion in `Relay`; that what `SerializeMsg` writes is read
back, for any message.

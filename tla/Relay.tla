------------------------------- MODULE Relay -------------------------------
(***************************************************************************)
(* The path of a request: from a client's socket through the proxy's       *)
(* event loop (netcomm/pollerunit.cpp, listener.cpp, client.cpp), the      *)
(* request ring, the worker's event loop (netcomm/notifier.cpp,            *)
(* module/example/service.cpp), the response ring and the proxy's          *)
(* notifier, back to a socket.  Each ring comes with a fifo, whose bytes   *)
(* wake the reader.                                                        *)
(*                                                                         *)
(* A ring is a bounded FIFO channel: with one proxy and one worker ShmRing *)
(* implements one (ShmRingProofs).  Requests take Pieces reads of a        *)
(* socket; responses are equal in size.  The descriptors are watched edge  *)
(* triggered: the kernel lists one when something it is watched for        *)
(* happens, or when it is ready as it is registered, and looks again at    *)
(* what it is ready for when epoll_wait takes it off the list.  In which   *)
(* order it takes them is left open.                                       *)
(***************************************************************************)
EXTENDS Naturals, Sequences, FiniteSets, SequencesExt

CONSTANTS
  Conns,        \* connections, one for each connect of a client
  None,         \* an empty slot
  Pieces,       \* reads that make one request
  MaxRequests,  \* bound: requests of each connection
  Pipelining,   \* whether a client sends without waiting for the response
  MayLeave,     \* bound: the connections whose client may leave
  RingCap,      \* messages a ring holds
  SndBuf,       \* responses a socket holds on their way to the client
  MaxEvents     \* maxpollers: events of one epoll_wait

ASSUME RelayAssumption ==
  /\ IsFiniteSet(Conns)
  /\ None \notin Conns
  /\ MayLeave \subseteq Conns
  /\ MaxRequests \in [Conns -> Nat]
  /\ {Pieces, RingCap, SndBuf, MaxEvents} \subseteq Nat \ {0}
  /\ Pipelining \in BOOLEAN

VARIABLES
  client,    \* the clients
  sock,      \* the proxy's end of each connection, in the kernel
  backlog,   \* connections to accept
  ready,     \* the ready list of the proxy's epoll, as slots
  obj,       \* the proxy's CClient objects
  slots,     \* CSlot: the object of each slot
  free,      \* CSlot::free, from the slot freed last
  px,        \* the proxy: where it is, and the events left of the last wait
  reqRing, respRing,
  fifo,      \* what is in the two fifos, and if the worker's is queued
  wk,        \* the worker
  lost       \* history: requests and responses dropped

vars == <<client, sock, backlog, ready, obj, slots, free, px, reqRing,
          respRing, fifo, wk, lost>>
kernel == <<sock, backlog, ready>>
rings == <<reqRing, respRing, fifo>>

NotifierSeq == 0
ListenerSeq == 1
Seqs == 2 .. Cardinality(Conns) + 1

NoClient == [st |-> "none", sent |-> 0, got |-> <<>>]
NoSock == [st |-> "none", in |-> 0, fin |-> FALSE, rst |-> "no", out |-> <<>>]
NoObj == [seq |-> 0, watchOut |-> FALSE, wcache |-> 0, asked |-> 0,
          rcache |-> <<>>]

(* The group's two rings, each with a fifo, which does not block.  A start *)
(* that fails (no fifo, no epoll, no plug-in) is left out.                 *)
NewFifo == [req |-> FALSE, resp |-> FALSE, queued |-> FALSE]
CommInit == reqRing = <<>> /\ respRing = <<>> /\ fifo = NewFifo

(* The proxy's epoll and its slots, the first two of which are taken.      *)
PollerInit ==
  /\ ready = {}
  /\ slots = [s \in Seqs |-> None]
  /\ free = [i \in 1 .. Cardinality(Conns) |-> i + 1]
  /\ px = [pc |-> "event", batch |-> <<>>]

WorkerInit == wk = [pc |-> "wait", msg |-> None]

Init ==
  /\ client = [c \in Conns |-> NoClient]
  /\ sock = [c \in Conns |-> NoSock]
  /\ backlog = <<>>
  /\ obj = [c \in Conns |-> NoObj]
  /\ PollerInit
  /\ CommInit
  /\ WorkerInit
  /\ lost = {}

-----------------------------------------------------------------------------
(* What a watched descriptor is ready for, and its place in the list.      *)
Readable(k) == k.in > 0 \/ k.fin \/ k.rst # "no"
Writable(k) == Len(k.out) < SndBuf \/ k.rst # "no"
Wake(r, s) == r \cup {s}
WakeSock(c) == IF obj[c].seq = 0 THEN ready ELSE Wake(ready, obj[c].seq)

(* EPOLL_CTL_ADD and EPOLL_CTL_MOD list a descriptor that is ready.        *)
Register(r, s, k, watchOut) ==
  IF Readable(k) \/ (watchOut /\ Writable(k)) THEN Wake(r, s) ELSE r

-----------------------------------------------------------------------------
(* The clients and the network.                                            *)

Connect(c) ==
  /\ client[c].st = "none"
  /\ client' = [client EXCEPT ![c].st = "open"]
  /\ sock' = [sock EXCEPT ![c].st = "open"]
  /\ backlog' = Append(backlog, c)
  /\ ready' = Wake(ready, ListenerSeq)
  /\ UNCHANGED <<obj, slots, free, px, rings, wk, lost>>

(* A client that does not pipeline ends a request it has begun, and begins *)
(* the next with the response at hand.                                     *)
Send(c) ==
  /\ client[c].st = "open"
  /\ client[c].sent < MaxRequests[c] * Pieces
  /\ Pipelining \/ client[c].sent < (Len(client[c].got) + 1) * Pieces
  /\ client' = [client EXCEPT ![c].sent = @ + 1]
  /\ IF sock[c].st = "open"
       THEN sock' = [sock EXCEPT ![c].in = @ + 1] /\ ready' = WakeSock(c)
       ELSE UNCHANGED <<sock, ready>>
  /\ UNCHANGED <<backlog, obj, slots, free, px, rings, wk, lost>>

(* Reading makes room, which wakes a socket that is watched for it.        *)
ClientReceive(c) ==
  /\ client[c].st = "open"
  /\ sock[c].out # <<>>
  /\ client' = [client EXCEPT ![c].got = Append(@, Head(sock[c].out))]
  /\ sock' = [sock EXCEPT ![c].out = Tail(@)]
  /\ ready' = IF obj[c].watchOut /\ ~Writable(sock[c])
                THEN WakeSock(c) ELSE ready
  /\ UNCHANGED <<backlog, obj, slots, free, px, rings, wk, lost>>

(* A client closes; or it closes with data unread, or dies, which resets   *)
(* the connection at once.                                                 *)
Close(c) ==
  /\ client[c].st = "open"
  /\ c \in MayLeave
  /\ client' = [client EXCEPT ![c].st = "left"]
  /\ IF sock[c].st = "open"
       THEN /\ ready' = WakeSock(c)
            /\ \/ sock' = [sock EXCEPT ![c].fin = TRUE]
               \/ sock' = [sock EXCEPT ![c].rst = "abort"]
       ELSE UNCHANGED <<sock, ready>>
  /\ UNCHANGED <<backlog, obj, slots, free, px, rings, wk, lost>>

(* A response reaches a client that has closed: its kernel answers with a  *)
(* reset, after the close.                                                 *)
Reset(c) ==
  /\ sock[c].st = "open"
  /\ sock[c].fin
  /\ sock[c].out # <<>>
  /\ sock[c].rst = "no"
  /\ sock' = [sock EXCEPT ![c].rst = "pipe"]
  /\ ready' = WakeSock(c)
  /\ UNCHANGED <<client, backlog, obj, slots, free, px, rings, wk, lost>>

-----------------------------------------------------------------------------
(* The proxy.                                                              *)

Event == Head(px.batch)
Popped == [px EXCEPT !.pc = "event", !.batch = Tail(@)]
At(pc) == px.pc = pc /\ px.batch # <<>>

(* What epoll_wait reports of a listed slot.                               *)
Report(s) ==
  IF s = NotifierSeq THEN [seq |-> s, in |-> fifo.resp, out |-> FALSE]
  ELSE IF s = ListenerSeq THEN [seq |-> s, in |-> backlog # <<>>, out |-> FALSE]
  ELSE LET c == slots[s] IN
       [seq |-> s, in |-> Readable(sock[c]),
        out |-> obj[c].watchOut /\ Writable(sock[c])]

Reported(taken) == {e \in {Report(s) : s \in taken} : e.in \/ e.out}

(* epoll_wait takes slots off the list until it has maxpollers events.     *)
PxWait ==
  /\ px.pc = "event"
  /\ px.batch = <<>>
  /\ ready # {}
  /\ \E taken \in SUBSET ready :
       /\ Cardinality(Reported(taken)) <= MaxEvents
       /\ taken = ready \/ Cardinality(Reported(taken)) = MaxEvents
       /\ \E batch \in SetToSeqs(Reported(taken)) :
            px' = [px EXCEPT !.batch = batch]
       /\ ready' = ready \ taken
  /\ UNCHANGED <<client, sock, backlog, obj, slots, free, rings, wk, lost>>

(* onConnOver: the descriptor is closed, which ends its watch, and its     *)
(* slot is freed.                                                          *)
(* Fault: freeOldSlot leaves the object in the slot.                       *)
MutFreeSlot(s) == free' = <<s>> \o free /\ UNCHANGED slots
FreeSlot(s) ==
  /\ slots' = [slots EXCEPT ![s] = None]
  /\ free' = <<s>> \o free

OnConnOver(c) ==
  /\ sock' = [sock EXCEPT ![c] = [NoSock EXCEPT !.st = "closed"]]
  /\ ready' = ready \ {obj[c].seq}
  /\ FreeSlot(obj[c].seq)
  /\ obj' = [obj EXCEPT ![c] = [NoObj EXCEPT !.asked = obj[c].asked]]
  /\ lost' = lost \cup ToSet(obj[c].rcache) \cup ToSet(sock[c].out)

(* A slot for the new object, which is watched under the slot's number.    *)
AddPollerObj(c) ==
  LET s == Head(free)
  IN /\ free' = Tail(free)
     /\ slots' = [slots EXCEPT ![s] = c]
     /\ obj' = [obj EXCEPT ![c].seq = s]
     /\ ready' = Register(ready, s, sock[c], FALSE)

(* A turn of accept's loop, and the end of the loop.                       *)
AcceptOne ==
  /\ backlog # <<>>
  /\ backlog' = Tail(backlog)
  /\ AddPollerObj(Head(backlog))
  /\ UNCHANGED sock

AcceptNone ==
  /\ backlog = <<>>
  /\ px' = Popped
  /\ UNCHANGED <<kernel, obj, slots, free>>

(* Fault: one accept for each event of the listener.                       *)
MutPxAccept ==
  /\ At("event")
  /\ Event.seq = ListenerSeq
  /\ AcceptNone \/ (AcceptOne /\ px' = Popped)
  /\ UNCHANGED <<client, rings, wk, lost>>

PxAccept ==
  /\ At("event")
  /\ Event.seq = ListenerSeq
  /\ AcceptNone \/ (AcceptOne /\ UNCHANGED px)
  /\ UNCHANGED <<client, rings, wk, lost>>

(* enableOutput, o being the object after what was done to its cache.      *)
EnableOutput(c, o, k) ==
  /\ obj' = [obj EXCEPT ![c] = [o EXCEPT !.watchOut = TRUE]]
  /\ ready' = Register(ready, o.seq, k, TRUE)

(* outputNotify writes what fits.  write fails with EAGAIN on a full       *)
(* socket and with ECONNRESET on a reset one; after a close and a reset it *)
(* raises SIGPIPE, which ends the process.                                 *)
OutputDone(in) == IF in THEN [px EXCEPT !.batch[1].out = FALSE] ELSE Popped

(* What a write takes of the cache, and what it leaves there.              *)
Fitting(cache, k) ==
  IF Len(cache) < SndBuf - Len(k.out) THEN Len(cache) ELSE SndBuf - Len(k.out)

(* Fault: after a partial write the cache is kept whole.                   *)
MutUnsent(cache, n) == IF n < Len(cache) THEN cache ELSE <<>>
Unsent(cache, n) == SubSeq(cache, n + 1, Len(cache))

(* Fault: a partial write is taken for an error.                           *)
MutWriteFails(cache, k) ==
  k.rst = "abort" \/ (k.rst = "no" /\ Fitting(cache, k) < Len(cache))
WriteFails(cache, k) ==
  k.rst = "abort" \/ (k.rst = "no" /\ cache # <<>> /\ Fitting(cache, k) = 0)

PxOutput ==
  /\ At("event")
  /\ Event.out
  /\ LET c == slots[Event.seq]
         k == sock[c]
         cache == obj[c].rcache
         n == Fitting(cache, k)
         left == Unsent(cache, n)
         written == [k EXCEPT !.out = @ \o SubSeq(cache, 1, n)]
     IN \/ /\ k.rst = "pipe"
           /\ px' = [px EXCEPT !.pc = "dead"]
           /\ UNCHANGED <<sock, ready, obj, slots, free, lost>>
        \/ /\ WriteFails(cache, k)
           /\ OnConnOver(c)
           /\ px' = Popped
        \/ /\ k.rst = "no"
           /\ ~WriteFails(cache, k)
           /\ sock' = [sock EXCEPT ![c] = written]
           /\ LET o == [obj[c] EXCEPT !.rcache = left]
              IN IF left # <<>> THEN EnableOutput(c, o, written)
                 ELSE obj' = [obj EXCEPT ![c] = o] /\ UNCHANGED ready
           /\ px' = OutputDone(Event.in)
           /\ UNCHANGED <<slots, free, lost>>
  /\ UNCHANGED <<client, backlog, rings, wk>>

(* recvData reads until EAGAIN or the end; what came before the end is     *)
(* dropped with the connection.                                            *)
Ended(k) == k.fin \/ k.rst # "no"

(* enableInput: EPOLLIN takes the place of what was watched.               *)
EnableInput(c, k) ==
  /\ obj' = [obj EXCEPT ![c].watchOut = FALSE, ![c].wcache = @ + sock[c].in]
  /\ ready' = Register(ready, obj[c].seq, k, FALSE)

PxInput ==
  /\ At("event")
  /\ Event.seq \in Seqs
  /\ ~Event.out
  /\ LET c == slots[Event.seq]
         read == [sock[c] EXCEPT !.in = 0]
     IN IF Ended(sock[c])
          THEN OnConnOver(c) /\ px' = Popped
          ELSE /\ sock' = [sock EXCEPT ![c] = read]
               /\ EnableInput(c, read)
               /\ px' = [px EXCEPT !.pc = "produce"]
               /\ UNCHANGED <<slots, free, lost>>
  /\ UNCHANGED <<client, backlog, rings, wk>>

(* A full ring refuses the message, and produce's result is not looked at. *)
(* Fault: the ring takes one message more.                                 *)
MutProduce(ring, m) ==
  IF Len(ring) <= RingCap THEN Append(ring, m) ELSE ring
Produce(ring, m) ==
  IF Len(ring) < RingCap THEN Append(ring, m) ELSE ring
Refused(ring, m) == IF Len(ring) < RingCap THEN {} ELSE {m}

PxProduce ==
  /\ At("produce")
  /\ LET c == slots[Event.seq]
         m == [seq |-> Event.seq, conn |-> c, num |-> obj[c].asked + 1]
     IN IF obj[c].wcache >= Pieces
          THEN /\ obj' = [obj EXCEPT ![c].wcache = @ - Pieces,
                                     ![c].asked = @ + 1]
               /\ reqRing' = Produce(reqRing, m)
               /\ lost' = lost \cup Refused(reqRing, m)
               /\ px' = [px EXCEPT !.pc = "notify"]
          ELSE /\ px' = Popped
               /\ UNCHANGED <<obj, reqRing, lost>>
  /\ UNCHANGED <<client, kernel, slots, free, respRing, fifo, wk>>

PxNotify ==
  /\ At("notify")
  /\ fifo' = [fifo EXCEPT !.req = TRUE, !.queued = TRUE]
  /\ px' = [px EXCEPT !.pc = "produce"]
  /\ UNCHANGED <<client, kernel, obj, slots, free, reqRing, respRing, wk, lost>>

(* sentResponseCache writes behind what is cached.                         *)
(* Fault: it writes at the read position.                                  *)
MutCached(cache, m) == <<m>> \o cache
Cached(cache, m) == Append(cache, m)

(* The notifier's event: readNofiy, then consume until the ring is empty.  *)
PxDrain ==
  /\ At("event")
  /\ Event.seq = NotifierSeq
  /\ fifo' = [fifo EXCEPT !.resp = FALSE]
  /\ px' = [px EXCEPT !.pc = "consume"]
  /\ UNCHANGED <<client, kernel, obj, slots, free, reqRing, respRing, wk, lost>>

PxConsume ==
  /\ At("consume")
  /\ IF respRing = <<>>
       THEN px' = Popped /\ UNCHANGED <<respRing, obj, ready, lost>>
       ELSE LET m == Head(respRing)
                c == slots[m.seq]
            IN /\ respRing' = Tail(respRing)
               /\ UNCHANGED px
               /\ IF c = None
                    THEN lost' = lost \cup {m} /\ UNCHANGED <<obj, ready>>
                    ELSE /\ EnableOutput(c, [obj[c] EXCEPT !.rcache = Cached(@, m)],
                                         sock[c])
                         /\ UNCHANGED lost
  /\ UNCHANGED <<client, sock, backlog, slots, free, reqRing, fifo, wk>>

PxNext == \/ PxWait \/ PxAccept \/ PxOutput \/ PxInput \/ PxProduce
          \/ PxNotify \/ PxDrain \/ PxConsume

-----------------------------------------------------------------------------
(* The worker.                                                             *)

WkWait ==
  /\ wk.pc = "wait"
  /\ fifo.queued
  /\ fifo' = [fifo EXCEPT !.queued = FALSE]
  /\ wk' = [wk EXCEPT !.pc = IF fifo.req THEN "drain" ELSE "wait"]
  /\ UNCHANGED <<client, kernel, obj, slots, free, px, reqRing, respRing, lost>>

WkDrain ==
  /\ wk.pc = "drain"
  /\ fifo' = [fifo EXCEPT !.req = FALSE]
  /\ wk' = [wk EXCEPT !.pc = "consume"]
  /\ UNCHANGED <<client, kernel, obj, slots, free, px, reqRing, respRing, lost>>

WkConsume ==
  /\ wk.pc = "consume"
  /\ IF reqRing = <<>>
       THEN wk' = [wk EXCEPT !.pc = "wait"] /\ UNCHANGED reqRing
       ELSE /\ wk' = [pc |-> "reply", msg |-> Head(reqRing)]
            /\ reqRing' = Tail(reqRing)
  /\ UNCHANGED <<client, kernel, obj, slots, free, px, respRing, fifo, lost>>

(* bench_handle_process: one response to a request, under its seq.         *)
WkReply ==
  /\ wk.pc = "reply"
  /\ respRing' = Produce(respRing, wk.msg)
  /\ lost' = lost \cup Refused(respRing, wk.msg)
  /\ wk' = [pc |-> "notify", msg |-> None]
  /\ UNCHANGED <<client, kernel, obj, slots, free, px, reqRing, fifo>>

(* Fault: one request for each event of the fifo.                          *)
MutWkNotify ==
  /\ wk.pc = "notify"
  /\ fifo' = [fifo EXCEPT !.resp = TRUE]
  /\ ready' = Wake(ready, NotifierSeq)
  /\ wk' = [wk EXCEPT !.pc = "wait"]
  /\ UNCHANGED <<client, sock, backlog, obj, slots, free, px, reqRing,
                 respRing, lost>>

WkNotify ==
  /\ wk.pc = "notify"
  /\ fifo' = [fifo EXCEPT !.resp = TRUE]
  /\ ready' = Wake(ready, NotifierSeq)
  /\ wk' = [wk EXCEPT !.pc = "consume"]
  /\ UNCHANGED <<client, sock, backlog, obj, slots, free, px, reqRing,
                 respRing, lost>>

WkNext == WkWait \/ WkDrain \/ WkConsume \/ WkReply \/ WkNotify

-----------------------------------------------------------------------------
ClientNext ==
  \E c \in Conns :
    Connect(c) \/ Send(c) \/ ClientReceive(c) \/ Close(c) \/ Reset(c)

Next == ClientNext \/ PxNext \/ WkNext

Spec == Init /\ [][Next]_vars

(* Both event loops run, and a client that stays reads what it is sent.    *)
(* Nothing makes a client send.                                            *)
FairSpec ==
  /\ Spec
  /\ WF_vars(PxNext)
  /\ WF_vars(WkNext)
  /\ \A c \in Conns : WF_vars(ClientReceive(c))

-----------------------------------------------------------------------------
(* Type correctness.                                                       *)
Messages ==
  {m \in [seq : Seqs, conn : Conns, num : Nat \ {0}] :
     m.num <= MaxRequests[m.conn]}
Descriptors == Seqs \cup {NotifierSeq, ListenerSeq}
Events == [seq : Descriptors, in : BOOLEAN, out : BOOLEAN]

Clients == [st : {"none", "open", "left"}, sent : Nat, got : Seq(Messages)]
Socks == [st : {"none", "open", "closed"}, in : Nat, fin : BOOLEAN,
          rst : {"no", "abort", "pipe"}, out : Seq(Messages)]
CClients == [seq : Seqs \cup {0}, watchOut : BOOLEAN, wcache : Nat, asked : Nat,
             rcache : Seq(Messages)]
Loops == [pc : {"event", "produce", "notify", "consume", "dead"},
          batch : Seq(Events)]
Workers == [pc : {"wait", "drain", "consume", "reply", "notify"},
            msg : Messages \cup {None}]
Fifos == [req : BOOLEAN, resp : BOOLEAN, queued : BOOLEAN]

(* No buffer holds more than it can, and the proxy has no more of a        *)
(* connection than its client has sent.                                    *)
Within(c) ==
  /\ sock[c].in + obj[c].wcache + Pieces * obj[c].asked <= client[c].sent
  /\ client[c].sent <= MaxRequests[c] * Pieces
  /\ Len(sock[c].out) <= SndBuf

(* Every variable has its type, and keeps within its bounds.               *)
TypeOK ==
  /\ client \in [Conns -> Clients]
  /\ sock \in [Conns -> Socks]
  /\ obj \in [Conns -> CClients]
  /\ \A c \in Conns : Within(c)
  /\ backlog \in Seq(Conns)
  /\ ready \subseteq Descriptors
  /\ slots \in [Seqs -> Conns \cup {None}]
  /\ free \in Seq(Seqs)
  /\ px \in Loops
  /\ \A q \in {reqRing, respRing} : q \in Seq(Messages) /\ Len(q) <= RingCap
  /\ fifo \in Fifos
  /\ wk \in Workers
  /\ wk.msg \in IF wk.pc = "reply" THEN Messages ELSE {None}

(* What a worker holds, as a sequence.                                     *)
InHand == IF wk.pc = "reply" THEN <<wk.msg>> ELSE <<>>

IsOf(m, c, n) == m.conn = c /\ m.num = n
PlacesIn(name, d, q, c, n) ==
  {<<name, d, i>> : i \in {j \in DOMAIN q : IsOf(q[j], c, n)}}
Places(c, n) ==
  PlacesIn("req", None, reqRing, c, n)
  \cup PlacesIn("worker", None, InHand, c, n)
  \cup PlacesIn("resp", None, respRing, c, n)
  \cup {<<"lost", None, m.seq>> : m \in {x \in lost : IsOf(x, c, n)}}
  \cup UNION {PlacesIn("client", d, client[d].got, c, n)
               \cup PlacesIn("socket", d, sock[d].out, c, n)
               \cup PlacesIn("cache", d, obj[d].rcache, c, n) : d \in Conns}

(* A request the proxy has taken from a connection is always in exactly    *)
(* one place on its way to the worker and back, or was dropped once: none  *)
(* disappears between the caches, the rings and the sockets, and none is   *)
(* answered twice (client.cpp:129, notifier.cpp:13, service.cpp:37).       *)
Accounted ==
  \A c \in Conns : \A n \in 1 .. obj[c].asked : Cardinality(Places(c, n)) = 1

(* What one connection asked, seen from any receiving connection back      *)
(* through its socket and cache, the response ring, the worker and the     *)
(* request ring, is in the order it was asked, with gaps where something   *)
(* was dropped (client.cpp:76, client.cpp:179, notifier.cpp:36).           *)
Received(d) == client[d].got \o sock[d].out \o obj[d].rcache
OnTheWay == respRing \o InHand \o reqRing
InAskedOrder(path) ==
  \A i, j \in DOMAIN path :
    i < j /\ path[i].conn = path[j].conn => path[i].num < path[j].num

InOrder == \A d \in Conns : InAskedOrder(Received(d) \o OnTheWay)

(* Edge triggering loses no input: with the proxy at any point of its      *)
(* loop, a socket with something to read, a connection to accept or a      *)
(* response in the ring is on the ready list, in an event still to be      *)
(* handled, or about to be announced by the worker; and a request in its   *)
(* ring is known to the worker or about to be announced (client.cpp:86,    *)
(* listener.cpp:38, notifier.cpp:26, processcomm.cpp:36).                  *)
Noticed(s) ==
  \/ s \in ready
  \/ \E i \in DOMAIN px.batch :
       px.batch[i].seq = s /\ px.batch[i].in /\ (i > 1 \/ px.pc = "event")

InputNoticed ==
  px.pc # "dead" =>
    /\ backlog # <<>> => Noticed(ListenerSeq)
    /\ \A c \in Conns :
         obj[c].seq # 0 /\ Readable(sock[c]) => Noticed(obj[c].seq)
    /\ respRing # <<>> => \/ Noticed(NotifierSeq) /\ fifo.resp
                          \/ px.pc = "consume"
                          \/ wk.pc = "notify"
    /\ reqRing # <<>> => \/ fifo.queued /\ fifo.req
                         \/ wk.pc # "wait"
                         \/ px.pc = "notify"

(* The proxy closes no connection under a client that is still there:      *)
(* output is tried when there is room, and input ends when the client does *)
(* (client.cpp:24, client.cpp:47).                                         *)
ClosedOnlyAfterClient ==
  \A c \in Conns : sock[c].st = "closed" => client[c].st = "left"

(* The slots and the objects name each other, and a slot is either free,   *)
(* once, or in use; so no event in a batch is handed to the object of      *)
(* another connection, though slots are reused within a batch              *)
(* (pollerunit.cpp:79, slot.h:146).                                        *)
SlotsMatch ==
  /\ \A s \in Seqs : \A c \in Conns : (slots[s] = c) = (obj[c].seq = s)
  /\ IsInjective(free)
  /\ ToSet(free) = {s \in Seqs : slots[s] = None}
  /\ px.pc # "dead" =>
       \A i \in DOMAIN px.batch :
         px.batch[i].seq \in Seqs => slots[px.batch[i].seq] # None

(* Of clients that stay, and that wait for each response as the test       *)
(* client does (testclient/client.cpp:69), every request is answered with  *)
(* its own response (README.md:7, "receives the responses and returns them *)
(* to the client").                                                        *)
Answered ==
  \A c \in Conns : \A n \in 1 .. MaxRequests[c] :
    (client[c].sent >= n * Pieces)
      ~> (\E i \in DOMAIN client[c].got : IsOf(client[c].got[i], c, n))

(* README.md:7 and notifier.cpp:30: what the ring returns goes to the      *)
(* client that asked.                                                      *)
OwnResponses ==
  \A c \in Conns : \A i \in DOMAIN client[c].got : client[c].got[i].conn = c

(* pollerobject.cpp:86: until the data is sent, EPOLLOUT is registered     *)
(* again, so what is cached for a client that stays and reads is sent.     *)
FlushesResponses ==
  \A c \in Conns :
    (obj[c].rcache # <<>>) ~> (obj[c].rcache = <<>> \/ px.pc = "dead")
=============================================================================

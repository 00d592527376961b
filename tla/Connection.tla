----------------------------- MODULE Connection -----------------------------
(***************************************************************************)
(* The bytes of one connection, which Relay counts only: from a TCP client *)
(* or from the datagrams of the UDP socket into the receive cache          *)
(* (netcomm/client.cpp, udplistener.cpp), cut into messages by the plug-in *)
(* (module/example, module/udp), answered by the worker, and back through  *)
(* the send cache.  The rings are queues here, the proxy's loop hands an   *)
(* event of the connection at a time.                                      *)
(***************************************************************************)
EXTENDS ClientData, DemoMsg

CONSTANTS
  Scenarios,  \* records: link, plugin, items, what each write or datagram
              \*   of the clients holds, and msgs, the messages in datagrams
  ReadSize,   \* bytes a read takes: sizeof(buff) in recvData
  HeaderLen,  \* sizeof(dataheader) = sizeof(int)
  IntMax,     \* INT_MAX
  SizeMod,    \* one more than the largest size_t
  TornInt,    \* what four bytes that are no integer read as
  MaxBytes    \* bound: the bytes a cache holds at most

Ints == -IntMax - 1 .. IntMax

(* The datagrams fit a read, and each one alone is read to its end as the  *)
(* message it holds.                                                       *)
Encoded(s) ==
  LET end(i) == FoldLeft(ParseStep, StartParse, s.items[i])
  IN  /\ \A i \in DOMAIN s.items : Len(s.items[i]) <= ReadSize /\ end(i).at = "tag"
      /\ s.msgs = [i \in DOMAIN s.items |-> end(i).msg]

ASSUME ConnectionAssumption ==
  /\ {ReadSize, HeaderLen} \subseteq Nat \ {0} /\ HeaderLen <= ReadSize
  /\ {IntMax, SizeMod, MaxBytes} \subseteq Nat
  /\ SizeMod > 2 * IntMax + 1
  /\ MaxBytes <= IntMax
  /\ TornInt \in Ints
  /\ \A v \in Ints : \A k \in 1 .. HeaderLen : <<"int", v, k>> \in Bytes
  /\ \A s \in Scenarios : /\ s.items \in Seq(Seq(Bytes))
                           /\ s.link \in {"tcp", "udp"}
                           /\ s.plugin \in {"example", "udp"}

ASSUME MessageAssumption == \A s \in Scenarios : s.msgs # <<>> => Encoded(s)

VARIABLES
  scene,     \* the scenario
  unsent,    \* the items still to be sent
  arrived,   \* the socket's receive queue: datagrams, or one piece of stream
  fin,       \* the TCP client has closed
  reset,     \* the connection was reset: "no", instead of a close ("abort"),
             \*   or after it ("pipe")
  wCache,    \* wDataCache: what was read
  rCache,    \* rDataCache: what is to be written
  pc,        \* the connection's object: between events, or in inputNotify
  toWorker, toProxy,   \* the rings
  count,     \* history: messages cut off the receive cache
  read, cut,           \* history: bytes put into, taken out of wCache
  answered, got        \* history: bytes put into, taken out of rCache

vars == <<scene, unsent, arrived, fin, reset, wCache, rCache, pc, toWorker, toProxy,
          count, read, cut, answered, got>>
network == <<unsent, arrived, fin, reset>>
requests == <<wCache, count, read, cut>>
responses == <<rCache, answered, got>>

IsTcp == scene.link = "tcp"

Init ==
  /\ scene \in Scenarios
  /\ unsent = scene.items
  /\ arrived = <<>>
  /\ fin = FALSE
  /\ reset = "no"
  /\ wCache = NewCache
  /\ rCache = NewCache
  /\ pc = "idle"
  /\ toWorker = <<>>
  /\ toProxy = <<>>
  /\ count = 0
  /\ read = <<>> /\ cut = <<>>
  /\ answered = <<>> /\ got = <<>>

-----------------------------------------------------------------------------
(* The clients and the network.                                            *)

(* The client has ended the connection, or the proxy has.                  *)
Gone == fin \/ reset # "no" \/ pc \in {"closed", "dead"}

(* TCP splits what is written, and joins it with what has not been read.   *)
SendBytes ==
  /\ IsTcp
  /\ unsent # <<>>
  /\ \E n \in 1 .. Len(Head(unsent)) :
       LET s == SubSeq(Head(unsent), 1, n)
           rest == SubSeq(Head(unsent), n + 1, Len(Head(unsent)))
       IN  /\ unsent' = IF rest = <<>> THEN Tail(unsent)
                        ELSE <<rest>> \o Tail(unsent)
           /\ arrived' = IF arrived = <<>> THEN <<s>> ELSE <<arrived[1] \o s>>
  /\ ~Gone
  /\ UNCHANGED <<scene, fin, reset, requests, responses, pc, toWorker, toProxy>>

SendDatagram ==
  /\ ~IsTcp
  /\ unsent # <<>>
  /\ arrived' = Append(arrived, Head(unsent))
  /\ unsent' = Tail(unsent)
  /\ UNCHANGED <<scene, fin, reset, requests, responses, pc, toWorker, toProxy>>

CloseClient ==
  /\ IsTcp
  /\ ~Gone
  /\ fin' = TRUE
  /\ UNCHANGED <<scene, unsent, arrived, reset, requests, responses, pc,
                 toWorker, toProxy>>

(* The client closes with bytes unread, or dies, or cannot be reached any  *)
(* more.  What has arrived can still be read.                              *)
Abort ==
  /\ IsTcp
  /\ ~Gone
  /\ reset' = "abort"
  /\ UNCHANGED <<scene, unsent, arrived, fin, requests, responses, pc,
                 toWorker, toProxy>>

(* What was written reaches a client that has closed.                      *)
Reset ==
  /\ fin
  /\ reset = "no"
  /\ got # <<>>
  /\ pc \notin {"closed", "dead"}
  /\ reset' = "pipe"
  /\ UNCHANGED <<scene, unsent, arrived, fin, requests, responses, pc,
                 toWorker, toProxy>>

-----------------------------------------------------------------------------
(* inputNotify.                                                            *)

(* A turn of recvData's loop that reads.  A datagram ends with its read,   *)
(* whatever did not fit.  One without bytes reads as the end.              *)
RecvData ==
  LET piece == Head(arrived)
      n == IF Len(piece) < ReadSize THEN Len(piece) ELSE ReadSize
      s == SubSeq(piece, 1, n)
      rest == SubSeq(piece, n + 1, Len(piece))
  IN  /\ pc \in {"idle", "recv"}
      /\ arrived # <<>>
      /\ wCache.w + n <= MaxBytes
      /\ arrived' = IF IsTcp /\ rest # <<>> THEN <<rest>> ELSE Tail(arrived)
      /\ IF n = 0
         THEN pc' = "closed" /\ UNCHANGED <<wCache, read>>
         ELSE /\ pc' = "recv"
              /\ wCache' = Write(wCache, s)
              /\ read' = read \o s
      /\ UNCHANGED <<scene, unsent, fin, reset, responses, toWorker, toProxy,
                     count, cut>>

(* The turn that finds the end, the one that finds an error, and the one   *)
(* that finds nothing more; read is not interrupted, or tries again.       *)
(* Fault: EAGAIN is taken for an error.                                    *)
MutRecvEnd ==
  /\ arrived = <<>>
  /\ pc \in {"idle", "recv"}
  /\ Gone \/ pc = "recv"
  /\ pc' = "closed"
  /\ UNCHANGED <<scene, network, requests, responses, toWorker, toProxy>>

RecvEnd ==
  /\ arrived = <<>>
  /\ \/ pc \in {"idle", "recv"} /\ fin /\ pc' = "closed"
     \/ pc \in {"idle", "recv"} /\ ~fin /\ reset = "abort" /\ pc' = "closed"
     \/ pc = "recv" /\ ~Gone /\ pc' = "process"
  /\ UNCHANGED <<scene, network, requests, responses, toWorker, toProxy>>

(* The bytes of an int, the int in the first bytes of a sequence, and what *)
(* it becomes where it meets a size_t.                                     *)
IntBytes(v) == [k \in 1 .. HeaderLen |-> <<"int", v, k>>]
IntAt(s) ==
  IF \E v \in Ints : SubSeq(s, 1, HeaderLen) = IntBytes(v)
  THEN CHOOSE v \in Ints : SubSeq(s, 1, HeaderLen) = IntBytes(v)
  ELSE TornInt
ToSize(n) == n % SizeMod

(* haspackage compares as size_t, to which mDataLength is converted.       *)
(* Fault: the length is compared as an int.                                *)
MutHasPackage(s) ==
  IF Len(s) < HeaderLen THEN 0
  ELSE IF IntAt(s) > Len(s) - HeaderLen THEN 0
  ELSE HeaderLen + IntAt(s)
(* Fault: the length returned is that of the body.                         *)
MutPackageLength(s) ==
  IF Len(s) < HeaderLen THEN 0
  ELSE IF ToSize(IntAt(s)) > Len(s) - HeaderLen THEN 0
  ELSE IntAt(s)
(* Fault: one byte more is waited for.                                     *)
MutPackageThere(s) ==
  IF Len(s) < HeaderLen THEN 0
  ELSE IF ToSize(IntAt(s)) >= Len(s) - HeaderLen THEN 0
  ELSE HeaderLen + IntAt(s)
HasPackage(s) ==
  IF Len(s) < HeaderLen THEN 0
  ELSE IF ToSize(IntAt(s)) > Len(s) - HeaderLen THEN 0
  ELSE HeaderLen + IntAt(s)

(* bench_handle_input of the two plug-ins: the length of the next message. *)
HandleInput(c) ==
  IF scene.plugin = "example" THEN HasPackage(Readable(c)) ELSE c.w - c.r

(* A turn of processData's loop.  A full ring refuses the message, and the *)
(* cache moves on.                                                         *)
ProcessData ==
  LET n == HandleInput(wCache)
      m == SubSeq(Readable(wCache), 1, n)
  IN  /\ pc = "process"
      /\ IF n > 0
         THEN /\ toWorker' \in {Append(toWorker, m), toWorker}
              /\ wCache' = AlignPositionBy(wCache, n)
              /\ cut' = cut \o m
              /\ count' = count + 1
              /\ UNCHANGED pc
         ELSE pc' = "idle" /\ UNCHANGED <<toWorker, wCache, cut, count>>
      /\ UNCHANGED <<scene, network, responses, toProxy, read>>

-----------------------------------------------------------------------------
(* bench_handle_process of the two plug-ins.  The example answers with the *)
(* body under a header; the other one parses the message and prints it.    *)
Body(m) == SubSeq(m, HeaderLen + 1, HeaderLen + IntAt(m))
Response(m) == IntBytes(IntAt(m) + HeaderLen) \o Body(m)

WorkerProcess ==
  /\ toWorker # <<>>
  /\ toWorker' = Tail(toWorker)
  /\ toProxy' \in IF scene.plugin = "example"
                  THEN {Append(toProxy, Response(Head(toWorker))), toProxy}
                  ELSE {toProxy}
  /\ UNCHANGED <<scene, network, requests, responses, pc>>

(* The notifier finds the object by its number, if it is still there.      *)
SentResponseCache ==
  /\ pc \in {"idle", "closed"}
  /\ toProxy # <<>>
  /\ toProxy' = Tail(toProxy)
  /\ IF pc = "closed"
     THEN UNCHANGED <<rCache, answered>>
     ELSE /\ rCache.w + Len(Head(toProxy)) <= MaxBytes
          /\ rCache' = Write(rCache, Head(toProxy))
          /\ answered' = answered \o Head(toProxy)
  /\ UNCHANGED <<scene, network, requests, got, pc, toWorker>>

(* sendData: what was written is skipped, and the cache is aligned when    *)
(* all of it was.  A socket that reports EPOLLOUT takes a byte at least.   *)
(* Nothing is sent over UDP, and sendData returns no value; the register   *)
(* it leaves is not negative, so the cache stays.                          *)
Taken(s) == IF IsTcp /\ s # <<>> THEN 1 .. Len(s) ELSE {0}

(* Fault: the positions are reset without the cache being read out.        *)
MutSendData ==
  LET s == Readable(rCache)
  IN  \E n \in Taken(s) :
        /\ rCache' = Cache(rCache.data, 0, rCache.w - n, rCache.cap)
        /\ got' = got \o SubSeq(s, 1, n)

SendData ==
  LET s == Readable(rCache)
  IN  \E n \in Taken(s) :
        /\ rCache' = IF n = Len(s)
                     THEN AlignPositionBy(rCache, n)
                     ELSE Cache(rCache.data, rCache.r + n, rCache.w, rCache.cap)
        /\ got' = got \o SubSeq(s, 1, n)

(* The write fails, and outputNotify closes; or it raises SIGPIPE, which   *)
(* ends the proxy.                                                         *)
SendFails ==
  /\ \/ reset = "abort" /\ pc' = "closed"
     \/ reset = "pipe" /\ pc' = "dead"
  /\ UNCHANGED <<rCache, got>>

OutputNotify ==
  /\ pc = "idle"
  /\ SendFails \/ (reset = "no" /\ SendData /\ UNCHANGED pc)
  /\ UNCHANGED <<scene, network, requests, answered, toWorker, toProxy>>

Next ==
  \/ SendBytes \/ SendDatagram \/ CloseClient \/ Abort \/ Reset
  \/ RecvData \/ RecvEnd \/ ProcessData
  \/ WorkerProcess \/ SentResponseCache \/ OutputNotify

Spec == Init /\ [][Next]_vars

-----------------------------------------------------------------------------
(* Properties.                                                             *)

IsCache(c) ==
  /\ c = Cache(c.data, c.r, c.w, c.cap)
  /\ {c.r, c.w, c.cap} \subseteq Nat
  /\ c.data \in [0 .. c.cap - 1 -> Bytes]

(* Every variable has its type; the stream of a TCP socket is in one piece.*)
TypeOK ==
  /\ scene \in Scenarios
  /\ {unsent, arrived, toWorker, toProxy} \subseteq Seq(Seq(Bytes))
  /\ IsTcp => arrived = <<>> \/ (Len(arrived) = 1 /\ arrived[1] # <<>>)
  /\ fin \in BOOLEAN
  /\ reset \in {"no", "abort", "pipe"}
  /\ IsCache(wCache)
  /\ IsCache(rCache)
  /\ pc \in {"idle", "recv", "process", "closed", "dead"}
  /\ count \in Nat
  /\ {read, cut, answered, got} \subseteq Seq(Bytes)

(* Reads and writes stay inside the caches however they grow, shrink and   *)
(* are partly read, and a cache has grown only while it is needed          *)
(* (clientdata.cpp:100, clientdata.cpp:130).                               *)
InsideCache(c) ==
  /\ c.r <= c.w
  /\ c.w <= c.cap
  /\ c.cap >= BuffSize
  /\ c.cap > BuffSize => c.w >= BuffSize

CachesInside == InsideCache(wCache) /\ InsideCache(rCache)

(* However the reads cut what a client wrote, the receive cache hands the  *)
(* bytes on once, unchanged and in order (clientdata.cpp:79, client.cpp:99,*)
(* client.cpp:166).                                                        *)
RequestStream ==
  INSTANCE ByteStream WITH input <- read, stream <- Readable(wCache),
                           output <- cut
RequestStreamSpec == RequestStream!Spec

(* However the socket cuts what is written, and whatever is added in the   *)
(* meantime, the client gets the bytes of the responses in order, each one *)
(* once (client.cpp:54, client.cpp:78, client.cpp:185).                    *)
ResponseStream ==
  INSTANCE ByteStream WITH input <- answered, stream <- Readable(rCache),
                           output <- got
ResponseStreamSpec == ResponseStream!Spec

(* What the proxy puts into the request ring is one whole message in the   *)
(* sense of the worker, which copies as many bytes as the header says      *)
(* without another test, whatever length a client declares                 *)
(* (message.cpp:43, message.cpp:76, client.cpp:152).                       *)
Framed(m) == Len(m) >= HeaderLen /\ IntAt(m) = Len(m) - HeaderLen

MessagesFramed ==
  scene.plugin = "example" => \A i \in DOMAIN toWorker : Framed(toWorker[i])

(* The first n items are requests, which a read of a datagram takes whole. *)
Items(n) == FlattenSeq(SubSeq(scene.items, 1, n))
Good(n) ==
  /\ n <= Len(scene.items)
  /\ \A i \in 1 .. n : /\ Framed(scene.items[i])
                       /\ IsTcp \/ Len(scene.items[i]) <= ReadSize

Negative(m) == Len(m) >= HeaderLen /\ IntAt(m) < 0

(* Requests are cut off as the clients sent them, up to the first one that *)
(* is none; a negative length stops the connection's requests, and does    *)
(* not become a message (message.cpp:43, client.cpp:136).                  *)
RequestsWhole ==
  scene.plugin = "example" =>
    /\ \A n \in 0 .. count : Good(n) => IsPrefix(Items(n), cut)
    /\ Good(count) => cut = Items(count)
    /\ \A i \in DOMAIN scene.items :
         Good(i - 1) /\ Negative(scene.items[i]) => count < i

(* When the object waits for its next event, no request that was read to   *)
(* its last byte stays in the cache: an edge-triggered socket would not    *)
(* report it (client.cpp:136, client.cpp:169).                             *)
NothingHeldBack ==
  pc = "idle" =>
    IF scene.plugin = "udp" THEN cut = read
    ELSE \A n \in DOMAIN scene.items :
           Good(n) /\ Len(read) >= Len(Items(n)) => count >= n

(* The UDP plug-in takes all that is cached for one message.  When several *)
(* datagrams were read at one event, their messages merge: the worker gets *)
(* each field from the last datagram that has it, and neither more nor     *)
(* fewer datagrams (udp/service.cpp:29, udp/service.cpp:65).               *)
Merged(a, b) ==
  FoldLeft(MergeFrom, NewMsg, SubSeq(scene.msgs, a, b))

DatagramsMerged ==
  scene.plugin = "udp" /\ ~IsTcp /\ scene.msgs # <<>> =>
    \A i \in DOMAIN toWorker :
      \E a \in DOMAIN scene.items : \E b \in a .. Len(scene.items) :
        /\ toWorker[i] = FlattenSeq(SubSeq(scene.items, a, b))
        /\ ParseFromArray(toWorker[i]) =
             [msg |-> Merged(a, b), ok |-> IsInitialized(Merged(a, b))]

(* The object of a TCP client goes only with the client: after a reset,    *)
(* which the next read or write reports as an error, or after a close and  *)
(* every byte written before it, however the reads cut them; and a signal  *)
(* ends the proxy only over a response that came after the close           *)
(* (client.cpp:24, client.cpp:64, client.cpp:101, client.cpp:117).         *)
EndsOnlyWithPeer ==
  IsTcp =>
    /\ pc = "closed" /\ reset # "abort" =>
         fin /\ read \o FlattenSeq(unsent) = FlattenSeq(scene.items)
    /\ pc = "dead" => fin /\ reset = "pipe"
=============================================================================

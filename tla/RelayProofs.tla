---------------------------- MODULE RelayProofs ----------------------------
(* Of the relay, for any number of connections, requests and reads, and    *)
(* for rings and sockets of any size: its types, the agreement of slots    *)
(* and objects, that no connection is closed under its client, and that    *)
(* edge triggering loses no input.                                         *)
EXTENDS Relay, FiniteSetTheorems, TLAPS

-----------------------------------------------------------------------------
(* The inductive invariant.                                                *)

(* What is listed or reported is watched: a slot in use, if not one of the *)
(* two that always are.  A descriptor is reported once.                    *)
InUse(s) == s \in Seqs => slots[s] # None

Watched ==
  /\ \A s \in ready : InUse(s)
  /\ \A i \in DOMAIN px.batch : InUse(px.batch[i].seq)
  /\ \A i, j \in DOMAIN px.batch : px.batch[i].seq = px.batch[j].seq => i = j

(* A connection that waits to be accepted has no slot, and waits once.     *)
Waiting ==
  /\ \A i, j \in DOMAIN backlog : backlog[i] = backlog[j] => i = j
  /\ \A i \in DOMAIN backlog : /\ obj[backlog[i]].seq = 0
                               /\ client[backlog[i]].st # "none"
  /\ \A c \in Conns : client[c].st = "none" => obj[c].seq = 0

(* A socket reported as writable is one, until the event is handled.       *)
Output ==
  \A i \in DOMAIN px.batch :
    px.batch[i].out => /\ px.batch[i].seq \in Seqs
                       /\ Writable(sock[slots[px.batch[i].seq]])

(* Requests are produced from the event of a connection.                   *)
Producing ==
  px.pc \in {"produce", "notify"} => px.batch # <<>> /\ Event.seq \in Seqs

(* A connection ends when its client leaves.                               *)
Leaving ==
  \A c \in Conns : Ended(sock[c]) => client[c].st = "left"

RelayInv ==
  /\ TypeOK /\ SlotsMatch /\ Watched /\ Waiting /\ Output /\ Producing
  /\ Leaving /\ ClosedOnlyAfterClient

-----------------------------------------------------------------------------
(* The slots are as many as the connections, so one is free for each       *)
(* connection that has none.                                               *)
LEMMA Sizes ==
  /\ Cardinality(Conns) \in Nat
  /\ Seqs \subseteq Nat /\ 0 \notin Seqs /\ 1 \notin Seqs
  /\ IsFiniteSet(Seqs) /\ Cardinality(Seqs) = Cardinality(Conns)
  /\ IsFiniteSet(Descriptors)
<1> DEFINE n == Cardinality(Conns)
<1>1. n \in Nat
  BY RelayAssumption, FS_CardinalityType
<1> HIDE DEF n
<1>2. IsFiniteSet(2 .. n + 1) /\ Cardinality(2 .. n + 1) = n
  <2>1. /\ IsFiniteSet(2 .. n + 1)
        /\ Cardinality(2 .. n + 1) = IF 2 > n + 1 THEN 0 ELSE (n + 1) - 2 + 1
    BY <1>1, FS_Interval
  <2>2. (IF 2 > n + 1 THEN 0 ELSE (n + 1) - 2 + 1) = n
    BY <1>1, SMT
  <2> QED
    BY <2>1, <2>2
<1>3. IsFiniteSet({NotifierSeq, ListenerSeq})
  <2>1. IsFiniteSet({NotifierSeq})
    BY FS_Singleton
  <2>2. IsFiniteSet({NotifierSeq} \cup {ListenerSeq})
    BY <2>1, FS_AddElement
  <2>3. {NotifierSeq} \cup {ListenerSeq} = {NotifierSeq, ListenerSeq}
    OBVIOUS
  <2> QED
    BY <2>2, <2>3
<1>4. IsFiniteSet(Descriptors)
  <2>1. IsFiniteSet(Seqs)
    BY <1>2 DEF Seqs, n
  <2> QED
    BY <1>3, <2>1, FS_Union DEF Descriptors
<1>5. Seqs = 2 .. n + 1
  BY DEF Seqs, n
<1>6. Seqs \subseteq Nat /\ 0 \notin Seqs /\ 1 \notin Seqs
  BY <1>1, <1>5, SMT
<1>7. IsFiniteSet(Seqs) /\ Cardinality(Seqs) = n
  BY <1>2, <1>5
<1> QED
  BY <1>1, <1>4, <1>6, <1>7 DEF n

LEMMA SomeFree ==
  ASSUME TypeOK, SlotsMatch, NEW c \in Conns, obj[c].seq = 0
  PROVE  free # <<>>
<1> SUFFICES ASSUME free = <<>> PROVE FALSE
  OBVIOUS
<1>1. \A s \in Seqs : slots[s] \in Conns
  BY DEF SlotsMatch, TypeOK, ToSet
<1>2. slots \in Injection(Seqs, Conns)
  <2>1. slots \in [Seqs -> Conns]
    BY <1>1 DEF TypeOK
  <2>2. \A s, t \in Seqs : slots[s] = slots[t] => s = t
    BY <1>1 DEF SlotsMatch
  <2> QED
    BY <2>1, <2>2 DEF Injection, IsInjective
<1>3. slots \in Surjection(Seqs, Conns)
  BY <1>2, Sizes, RelayAssumption, FS_Injection
<1>4. PICK s \in Seqs : slots[s] = c
  BY <1>3 DEF Surjection
<1>5. obj[c].seq = s
  BY <1>4 DEF SlotsMatch
<1> QED
  BY <1>5, Sizes

(* epoll_wait reports of what it takes off the list each descriptor once,  *)
(* and all that is ready.                                                  *)
LEMMA ReportType ==
  ASSUME TypeOK, NEW s \in Descriptors, InUse(s)
  PROVE  /\ Report(s) \in Events
         /\ Report(s).seq = s
         /\ Report(s).out => s \in Seqs /\ Writable(sock[slots[s]])
<1>1. CASE s \in {NotifierSeq, ListenerSeq}
  BY <1>1, Sizes DEF Report, Events, TypeOK, Socks, Fifos, NotifierSeq,
                      ListenerSeq, Descriptors
<1>2. CASE s \in Seqs
  <2>1. s # NotifierSeq /\ s # ListenerSeq
    BY <1>2, Sizes DEF NotifierSeq, ListenerSeq
  <2>2. slots[s] \in Conns
    BY <1>2 DEF InUse, TypeOK
  <2>3. /\ Readable(sock[slots[s]]) \in BOOLEAN
        /\ Writable(sock[slots[s]]) \in BOOLEAN
        /\ obj[slots[s]].watchOut \in BOOLEAN
    BY <2>2 DEF Readable, Writable, TypeOK, Socks, CClients
  <2>4. Report(s) = [seq |-> s, in |-> Readable(sock[slots[s]]),
                     out |-> obj[slots[s]].watchOut /\ Writable(sock[slots[s]])]
    BY <2>1 DEF Report
  <2> QED
    BY <1>2, <2>3, <2>4 DEF Events, Descriptors
<1> QED
  BY <1>1, <1>2 DEF Descriptors

LEMMA OrderOfReports ==
  ASSUME TypeOK, Watched, NEW taken \in SUBSET ready,
         NEW b \in SetToSeqs(Reported(taken))
  PROVE  /\ b \in Seq(Events)
         /\ \A i \in DOMAIN b : \E s \in ready : b[i] = Report(s)
         /\ \A i, j \in DOMAIN b : b[i].seq = b[j].seq => i = j
         /\ \A s \in taken : Report(s).in => \E i \in DOMAIN b : b[i] = Report(s)
<1> DEFINE E == Reported(taken)
           n == Cardinality(E)
<1>1. \A s \in ready : /\ s \in Descriptors /\ InUse(s)
                       /\ Report(s) \in Events /\ Report(s).seq = s
  BY ReportType DEF TypeOK, Watched
<1>2. IsFiniteSet(E)
  <2> DEFINE f == [s \in taken |-> Report(s)]
             T == {Report(s) : s \in taken}
  <2>1. IsFiniteSet(taken)
    BY Sizes, FS_Subset DEF TypeOK
  <2>2. f \in Surjection(taken, T)
    BY DEF Surjection
  <2>3. IsFiniteSet(T)
    BY <2>1, <2>2, FS_Surjection
  <2> QED
    BY <2>3, FS_Subset DEF Reported
<1>3. n \in Nat /\ IsFiniteSet(1 .. n) /\ Cardinality(1 .. n) = n
  BY <1>2, FS_CardinalityType, FS_Interval
<1>4. b \in [1 .. n -> E] /\ \A i, j \in 1 .. n : i # j => b[i] # b[j]
  BY DEF SetToSeqs
<1>5. b \in Injection(1 .. n, E)
  BY <1>4 DEF Injection, IsInjective
<1>6. b \in Surjection(1 .. n, E)
  BY <1>2, <1>3, <1>5, FS_Injection
<1>7. \A e \in E : e \in Events /\ \E s \in ready : e = Report(s)
  BY <1>1 DEF Reported
<1>8. b \in Seq(Events) /\ DOMAIN b = 1 .. n
  BY <1>3, <1>4, <1>7
<1>9. \A i \in DOMAIN b : \E s \in ready : b[i] = Report(s)
  BY <1>4, <1>7, <1>8
<1>10. \A i, j \in DOMAIN b : b[i].seq = b[j].seq => i = j
  <2> SUFFICES ASSUME NEW i \in DOMAIN b, NEW j \in DOMAIN b, b[i].seq = b[j].seq
               PROVE  i = j
    OBVIOUS
  <2>1. PICK s \in ready : b[i] = Report(s)
    BY <1>9
  <2>2. PICK t \in ready : b[j] = Report(t)
    BY <1>9
  <2>3. s = t
    BY <1>1, <2>1, <2>2
  <2> QED
    BY <1>4, <1>8, <2>1, <2>2, <2>3
<1>11. \A s \in taken : Report(s).in => \E i \in DOMAIN b : b[i] = Report(s)
  <2> SUFFICES ASSUME NEW s \in taken, Report(s).in
               PROVE  \E i \in DOMAIN b : b[i] = Report(s)
    OBVIOUS
  <2>1. Report(s) \in E
    BY DEF Reported
  <2> QED
    BY <1>6, <1>8, <2>1 DEF Surjection
<1> QED
  BY <1>8, <1>9, <1>10, <1>11

-----------------------------------------------------------------------------
(* The handled event taken off: the others move up.                        *)
LEMMA PoppedBatch ==
  ASSUME TypeOK, px.batch # <<>>
  PROVE  /\ Popped.pc = "event" /\ Popped.batch \in Seq(Events)
         /\ Popped \in Loops
         /\ \A i \in DOMAIN Popped.batch :
              /\ i + 1 \in DOMAIN px.batch /\ i + 1 # 1
              /\ Popped.batch[i] = px.batch[i + 1]
         /\ \A i \in DOMAIN px.batch :
              i # 1 => /\ i - 1 \in DOMAIN Popped.batch
                       /\ Popped.batch[i - 1] = px.batch[i]
<1>1. px.batch \in Seq(Events)
  BY DEF TypeOK, Loops
<1>2. Popped.pc = "event" /\ Popped.batch = Tail(px.batch)
  BY DEF Popped, TypeOK
<1> DEFINE q == px.batch
<1>3. q \in Seq(Events) /\ q # <<>>
  BY <1>1
<1> HIDE DEF q
<1>4. /\ Tail(q) \in Seq(Events)
      /\ DOMAIN q = 1 .. Len(q) /\ DOMAIN Tail(q) = 1 .. Len(q) - 1
      /\ Len(q) \in Nat /\ \A i \in DOMAIN Tail(q) : Tail(q)[i] = q[i + 1]
  BY <1>3
<1>5. \A i \in DOMAIN Tail(q) : i + 1 \in DOMAIN q /\ i + 1 # 1
  BY <1>4
<1>6. \A i \in DOMAIN q : i # 1 => i - 1 \in DOMAIN Tail(q) /\ (i - 1) + 1 = i
  BY <1>4
<1>7. Popped \in Loops
  BY <1>4 DEF Popped, TypeOK, Loops, q
<1> QED
  BY <1>2, <1>4, <1>5, <1>6, <1>7 DEF q

(* A step that opens and frees no slot and lists and reports only what is  *)
(* in use keeps the agreement.                                             *)
LEMMA QuietStep ==
  ASSUME RelayInv, TypeOK', Producing',
         UNCHANGED <<slots, free, backlog>>,
         \A c \in Conns :
           /\ obj'[c].seq = obj[c].seq
           /\ sock'[c].st = sock[c].st
           /\ client'[c].st = client[c].st \/ client'[c].st = "left"
           /\ Ended(sock'[c]) => Ended(sock[c]) \/ client'[c].st = "left",
         \A s \in ready' : s \in ready \/ InUse(s),
         NEW h \in Nat,
         \A i \in DOMAIN px'.batch :
           /\ i + h \in DOMAIN px.batch
           /\ px'.batch[i].seq = px.batch[i + h].seq
           /\ px'.batch[i].out =>
                /\ px.batch[i + h].out
                /\ LET c == slots[px'.batch[i].seq]
                   IN  Writable(sock[c]) => Writable(sock'[c])
  PROVE  RelayInv'
<1>1. SlotsMatch'
  <2>1. \A s \in Seqs : \A c \in Conns : (slots'[s] = c) = (obj'[c].seq = s)
    BY DEF RelayInv, SlotsMatch
  <2>2. \A i \in DOMAIN px'.batch :
          px'.batch[i].seq \in Seqs => slots'[px'.batch[i].seq] # None
    BY DEF RelayInv, Watched, InUse
  <2> QED
    BY <2>1, <2>2 DEF RelayInv, SlotsMatch
<1>2. Watched'
  <2>1. \A s \in ready' : s \in Seqs => slots'[s] # None
    BY DEF RelayInv, Watched, InUse
  <2>2. \A i \in DOMAIN px'.batch :
          px'.batch[i].seq \in Seqs => slots'[px'.batch[i].seq] # None
    BY DEF RelayInv, Watched, InUse
  <2>3. \A i, j \in DOMAIN px'.batch : px'.batch[i].seq = px'.batch[j].seq => i = j
    <3> SUFFICES ASSUME NEW i \in DOMAIN px'.batch, NEW j \in DOMAIN px'.batch,
                        px'.batch[i].seq = px'.batch[j].seq
                 PROVE  i = j
      OBVIOUS
    <3>1. i + h = j + h
      BY DEF RelayInv, Watched
    <3>2. i \in Nat /\ j \in Nat
      BY DEF TypeOK, Loops
    <3> QED
      BY <3>1, <3>2
  <2> QED
    BY <2>1, <2>2, <2>3 DEF Watched, InUse
<1>3. Waiting'
  <2>1. \A i \in DOMAIN backlog : backlog[i] \in Conns
    BY SMTT(20) DEF RelayInv, TypeOK
  <2>2. \A c \in Conns : client'[c].st = "none" => client[c].st = "none"
    OBVIOUS
  <2> QED
    BY <2>1, <2>2 DEF RelayInv, Waiting
<1>4. Output'
  BY DEF RelayInv, Output
<1>5. Leaving'
  BY DEF RelayInv, Leaving
<1>6. ClosedOnlyAfterClient'
  BY DEF RelayInv, ClosedOnlyAfterClient
<1> QED
  BY <1>1, <1>2, <1>3, <1>4, <1>5, <1>6 DEF RelayInv

-----------------------------------------------------------------------------
(* Types, action by action.                                                *)
LEMMA Sorts ==
  /\ Pieces \in Nat /\ RingCap \in Nat /\ SndBuf \in Nat /\ Pieces > 0
  /\ RingCap > 0 /\ SndBuf > 0
  /\ \A c \in Conns : MaxRequests[c] \in Nat /\ MaxRequests[c] * Pieces \in Nat
BY RelayAssumption

LEMMA WakeSockType ==
  ASSUME TypeOK, NEW c \in Conns
  PROVE  WakeSock(c) \subseteq Descriptors
BY DEF TypeOK, WakeSock, Wake, CClients, Descriptors

LEMMA OfType ==
  ASSUME TypeOK
  PROVE  /\ client \in [Conns -> Clients]
         /\ sock \in [Conns -> Socks]
         /\ obj \in [Conns -> CClients]
         /\ \A c \in Conns :
              /\ client[c].st \in {"none", "open", "left"}
              /\ client[c].sent \in Nat /\ client[c].got \in Seq(Messages)
              /\ sock[c].in \in Nat /\ sock[c].out \in Seq(Messages)
              /\ Len(sock[c].out) \in Nat /\ Len(sock[c].out) <= SndBuf
              /\ obj[c].seq \in Seqs \cup {0} /\ obj[c].watchOut \in BOOLEAN
              /\ obj[c].wcache \in Nat /\ obj[c].asked \in Nat
              /\ obj[c].rcache \in Seq(Messages)
              /\ Pieces * obj[c].asked \in Nat
              /\ Within(c)
<1>1. /\ client \in [Conns -> Clients] /\ sock \in [Conns -> Socks]
      /\ obj \in [Conns -> CClients] /\ \A c \in Conns : Within(c)
  BY DEF TypeOK
<1>2. \A c \in Conns :
        /\ client[c].st \in {"none", "open", "left"}
        /\ client[c].sent \in Nat /\ client[c].got \in Seq(Messages)
  BY <1>1 DEF Clients
<1>3. \A c \in Conns : sock[c].in \in Nat /\ sock[c].out \in Seq(Messages)
  BY <1>1 DEF Socks
<1>4. \A c \in Conns :
        /\ obj[c].seq \in Seqs \cup {0} /\ obj[c].watchOut \in BOOLEAN
        /\ obj[c].wcache \in Nat /\ obj[c].asked \in Nat
        /\ obj[c].rcache \in Seq(Messages)
  BY <1>1 DEF CClients
<1>5. \A c \in Conns : Len(sock[c].out) \in Nat /\ Len(sock[c].out) <= SndBuf
  BY <1>1, <1>3 DEF Within
<1>6. \A c \in Conns : Pieces * obj[c].asked \in Nat
  BY <1>4, Sorts
<1> QED
  BY <1>1, <1>2, <1>3, <1>4, <1>5, <1>6

LEMMA SockFields ==
  ASSUME NEW k \in Socks
  PROVE  /\ [k EXCEPT !.st = "open"] \in Socks
         /\ [k EXCEPT !.fin = TRUE] \in Socks
         /\ [k EXCEPT !.rst = "abort"] \in Socks
         /\ [k EXCEPT !.rst = "pipe"] \in Socks
         /\ \A n \in Nat : [k EXCEPT !.in = n] \in Socks
         /\ \A q \in Seq(Messages) : [k EXCEPT !.out = q] \in Socks
         /\ k = [st |-> k.st, in |-> k.in, fin |-> k.fin, rst |-> k.rst,
                 out |-> k.out]
BY DEF Socks

LEMMA ClientFields ==
  ASSUME NEW k \in Clients
  PROVE  /\ [k EXCEPT !.st = "open"] \in Clients
         /\ [k EXCEPT !.st = "left"] \in Clients
         /\ [k EXCEPT !.sent = @ + 1] \in Clients
         /\ \A q \in Seq(Messages) : [k EXCEPT !.got = q] \in Clients
BY DEF Clients

(* Nothing to count has changed.                                           *)
LEMMA WithinFrame ==
  ASSUME TypeOK, NEW c \in Conns,
         client'[c].sent = client[c].sent, sock'[c].in = sock[c].in,
         Len(sock'[c].out) \in Nat, Len(sock'[c].out) <= Len(sock[c].out),
         obj'[c].wcache = obj[c].wcache, obj'[c].asked = obj[c].asked
  PROVE  Within(c)'
BY OfType, Sorts DEF Within

LEMMA ConnectType ==
  ASSUME TypeOK, NEW c \in Conns, Connect(c)
  PROVE  TypeOK'
<1>1. client' \in [Conns -> Clients] /\ sock' \in [Conns -> Socks]
  BY ZenonT(40) DEF TypeOK, Connect, Clients, Socks
<1>2. \A d \in Conns : /\ client'[d].sent = client[d].sent
                       /\ sock'[d].in = sock[d].in /\ sock'[d].out = sock[d].out
  BY DEF TypeOK, Connect, Clients, Socks
<1>3. \A d \in Conns : Within(d)'
  BY <1>2 DEF TypeOK, Connect, Within
<1>4. backlog' \in Seq(Conns) /\ ready' \subseteq Descriptors
  BY DEF TypeOK, Connect, Wake, Descriptors
<1> QED
  BY <1>1, <1>3, <1>4 DEF TypeOK, Connect, rings

LEMMA SendType ==
  ASSUME TypeOK, NEW c \in Conns, Send(c)
  PROVE  TypeOK'
<1>1. client' \in [Conns -> Clients]
  BY OfType, ClientFields DEF Send
<1>2. sock' \in [Conns -> Socks]
  <2>1. CASE sock[c].st = "open"
    <3>1. sock[c].in + 1 \in Nat /\ sock[c] \in Socks
      BY OfType
    <3>2. [sock[c] EXCEPT !.in = sock[c].in + 1] \in Socks
      BY <3>1, SockFields
    <3>3. sock' = [sock EXCEPT ![c] = [sock[c] EXCEPT !.in = sock[c].in + 1]]
      BY <2>1 DEF Send
    <3> QED
      BY <3>2, <3>3, OfType
  <2>2. CASE sock[c].st # "open"
    BY <2>2, OfType DEF Send
  <2> QED
    BY <2>1, <2>2
<1>3. \A d \in Conns : Within(d)'
  <2> SUFFICES ASSUME NEW d \in Conns PROVE Within(d)'
    OBVIOUS
  <2>1. CASE d = c
    <3>1. client'[c].sent = client[c].sent + 1
      BY OfType DEF Send, Clients
    <3>2. sock'[c].in <= sock[c].in + 1 /\ sock'[c].out = sock[c].out
      BY OfType DEF Send, Socks
    <3>3. client[c].sent + 1 <= MaxRequests[c] * Pieces
      BY OfType, Sorts DEF Send
    <3>4. sock'[c].in \in Nat /\ obj' = obj
      BY <1>2 DEF Socks, Send
    <3> DEFINE x == Pieces * obj[c].asked
    <3>5. /\ x \in Nat
          /\ sock[c].in + obj[c].wcache + x <= client[c].sent
      BY OfType DEF Within
    <3> HIDE DEF x
    <3>6. sock'[c].in + obj[c].wcache + x <= client[c].sent + 1
      BY <3>2, <3>4, <3>5, OfType, SMTT(20)
    <3> QED
      BY <2>1, <3>1, <3>2, <3>3, <3>4, <3>6, OfType DEF Within, x
  <2>2. CASE d # c
    <3>1. client'[d] = client[d] /\ sock'[d] = sock[d] /\ obj' = obj
      BY <2>2, OfType DEF Send
    <3> QED
      BY <3>1, OfType DEF Within
  <2> QED
    BY <2>1, <2>2
<1>4. ready' \subseteq Descriptors
  BY WakeSockType DEF TypeOK, Send
<1> QED
  BY <1>1, <1>2, <1>3, <1>4 DEF TypeOK, Send, rings

LEMMA ClientReceiveType ==
  ASSUME TypeOK, NEW c \in Conns, ClientReceive(c)
  PROVE  TypeOK'
<1>1. /\ sock[c].out \in Seq(Messages) /\ sock[c].out # <<>>
      /\ client[c].got \in Seq(Messages)
  BY OfType DEF ClientReceive
<1>2. /\ Head(sock[c].out) \in Messages /\ Tail(sock[c].out) \in Seq(Messages)
      /\ Append(client[c].got, Head(sock[c].out)) \in Seq(Messages)
      /\ Len(Tail(sock[c].out)) \in Nat
      /\ Len(Tail(sock[c].out)) <= Len(sock[c].out)
  BY <1>1
<1>3. client' \in [Conns -> Clients]
  BY <1>2, OfType DEF ClientReceive, Clients
<1>4. sock' \in [Conns -> Socks]
  BY <1>2, OfType, SockFields DEF ClientReceive
<1>5. \A d \in Conns : Within(d)'
  <2> SUFFICES ASSUME NEW d \in Conns PROVE Within(d)'
    OBVIOUS
  <2>1. client'[d].sent = client[d].sent /\ sock'[d].in = sock[d].in
    BY OfType DEF ClientReceive, Clients, Socks
  <2>2. sock'[d].out = IF d = c THEN Tail(sock[c].out) ELSE sock[d].out
    BY OfType, SockFields DEF ClientReceive
  <2>3. Len(sock'[d].out) \in Nat /\ Len(sock'[d].out) <= Len(sock[d].out)
    BY <1>2, <2>2, OfType
  <2> QED
    BY <2>1, <2>3, WithinFrame DEF ClientReceive
<1>6. ready' \subseteq Descriptors
  BY WakeSockType DEF TypeOK, ClientReceive
<1> QED
  BY <1>3, <1>4, <1>5, <1>6 DEF TypeOK, ClientReceive, rings

LEMMA CloseType ==
  ASSUME TypeOK, NEW c \in Conns, Close(c)
  PROVE  TypeOK'
<1>1. client' \in [Conns -> Clients]
  BY OfType DEF Close, Clients
<1>2. sock' \in [Conns -> Socks]
  <2>1. CASE sock[c].st = "open"
    <3>1. CASE sock' = [sock EXCEPT ![c].fin = TRUE]
      BY <3>1, OfType, SockFields
    <3>2. CASE sock' = [sock EXCEPT ![c].rst = "abort"]
      BY <3>2, OfType, SockFields
    <3> QED
      BY <2>1, <3>1, <3>2 DEF Close
  <2>2. CASE sock[c].st # "open"
    BY <2>2, OfType DEF Close
  <2> QED
    BY <2>1, <2>2
<1>3. \A d \in Conns : /\ client'[d].sent = client[d].sent
                       /\ sock'[d].in = sock[d].in /\ sock'[d].out = sock[d].out
  BY OfType DEF Close, Clients, Socks
<1>4. \A d \in Conns : Within(d)'
  BY <1>3, OfType, WithinFrame DEF Close
<1>5. ready' \subseteq Descriptors
  BY WakeSockType DEF TypeOK, Close
<1> QED
  BY <1>1, <1>2, <1>4, <1>5 DEF TypeOK, Close, rings

LEMMA ResetType ==
  ASSUME TypeOK, NEW c \in Conns, Reset(c)
  PROVE  TypeOK'
<1>1. sock' \in [Conns -> Socks]
  BY OfType DEF Reset, Socks
<1>2. \A d \in Conns : sock'[d].in = sock[d].in /\ sock'[d].out = sock[d].out
  BY OfType DEF Reset, Socks
<1>3. \A d \in Conns : Within(d)'
  BY <1>2, OfType, WithinFrame, SMTT(20) DEF Reset
<1>4. ready' \subseteq Descriptors
  BY WakeSockType DEF TypeOK, Reset
<1> QED
  BY <1>1, <1>3, <1>4 DEF TypeOK, Reset, rings

LEMMA PxWaitType ==
  ASSUME TypeOK, Watched, PxWait
  PROVE  TypeOK' /\ Producing' /\ px'.pc = "event"
<1>1. PICK taken \in SUBSET ready :
        /\ ready' = ready \ taken
        /\ \E batch \in SetToSeqs(Reported(taken)) : px' = [px EXCEPT !.batch = batch]
  BY DEF PxWait
<1>2. PICK batch \in SetToSeqs(Reported(taken)) : px' = [px EXCEPT !.batch = batch]
  BY <1>1
<1>3. batch \in Seq(Events)
  BY OrderOfReports
<1>4. px' \in Loops /\ px'.pc = "event"
  BY <1>1, <1>2, <1>3 DEF TypeOK, Loops, PxWait
<1>5. \A c \in Conns : Within(c)'
  BY DEF TypeOK, PxWait, Within
<1>6. ready' \subseteq Descriptors
  BY <1>1, <1>2 DEF TypeOK
<1> QED
  BY <1>4, <1>5, <1>6 DEF TypeOK, PxWait, rings, Producing

LEMMA AcceptNoneType ==
  ASSUME TypeOK, At("event"), AcceptNone, UNCHANGED <<client, rings, wk, lost>>
  PROVE  TypeOK' /\ Producing'
<1>1. px' \in Loops /\ px'.pc = "event"
  BY PoppedBatch DEF AcceptNone, At
<1>2. \A c \in Conns : Within(c)'
  BY DEF TypeOK, AcceptNone, kernel, Within
<1> QED
  BY <1>1, <1>2 DEF TypeOK, AcceptNone, kernel, rings, Producing

LEMMA AcceptOneType ==
  ASSUME TypeOK, SlotsMatch, Waiting, Producing, AcceptOne,
         UNCHANGED <<client, rings, px, wk, lost>>
  PROVE  TypeOK' /\ Producing' /\ free # <<>> /\ Head(free) \in Seqs
<1> DEFINE c == Head(backlog)
           s == Head(free)
<1>1. /\ backlog \in Seq(Conns) /\ backlog # <<>> /\ c \in Conns
      /\ Tail(backlog) \in Seq(Conns) /\ c = backlog[1] /\ 1 \in DOMAIN backlog
  BY DEF TypeOK, AcceptOne
<1>2. obj[c].seq = 0
  BY <1>1 DEF Waiting
<1>3. free # <<>>
  BY <1>1, <1>2, SomeFree
<1>4. s \in Seqs /\ Tail(free) \in Seq(Seqs)
  BY <1>3 DEF TypeOK
<1> HIDE DEF c, s
<1>5. /\ backlog' = Tail(backlog) /\ free' = Tail(free)
      /\ slots' = [slots EXCEPT ![s] = c] /\ obj' = [obj EXCEPT ![c].seq = s]
      /\ ready' = Register(ready, s, sock[c], FALSE) /\ UNCHANGED sock
  BY DEF AcceptOne, AddPollerObj, c, s
<1>6. obj' \in [Conns -> CClients]
  <2>1. [obj[c] EXCEPT !.seq = s] \in CClients
    BY <1>1, <1>4, OfType, ZenonT(40) DEF CClients
  <2> QED
    BY <1>5, <2>1, OfType
<1>7. slots' \in [Seqs -> Conns \cup {None}]
  BY <1>1, <1>4, <1>5 DEF TypeOK
<1>8. ready' \subseteq Descriptors
  BY <1>4, <1>5 DEF TypeOK, Register, Wake, Descriptors
<1>9. \A d \in Conns : obj'[d].wcache = obj[d].wcache /\ obj'[d].asked = obj[d].asked
  BY <1>5, OfType DEF CClients
<1>10. \A d \in Conns : Within(d)'
  BY <1>5, <1>9, OfType, WithinFrame
<1>11. TypeOK'
  BY <1>1, <1>4, <1>5, <1>6, <1>7, <1>8, <1>10 DEF TypeOK, rings
<1> QED
  BY <1>3, <1>4, <1>11 DEF Producing, Event, s

LEMMA OverType ==
  ASSUME TypeOK, NEW c \in Conns, obj[c].seq \in Seqs, OnConnOver(c), At("event"),
         px' = Popped, UNCHANGED <<client, backlog, rings, wk>>
  PROVE  TypeOK' /\ Producing'
<1>1. <<>> \in Seq(Messages) /\ Len(<<>>) = 0
  OBVIOUS
<1>2. sock' \in [Conns -> Socks]
  <2>1. [NoSock EXCEPT !.st = "closed"] \in Socks
    BY <1>1 DEF NoSock, Socks
  <2> QED
    BY <2>1, OfType DEF OnConnOver
<1>3. obj' \in [Conns -> CClients]
  <2>1. [NoObj EXCEPT !.asked = obj[c].asked] \in CClients
    BY <1>1, OfType DEF NoObj, CClients
  <2> QED
    BY <2>1, OfType DEF OnConnOver
<1>4. ready' \subseteq Descriptors /\ slots' \in [Seqs -> Conns \cup {None}]
  BY DEF TypeOK, OnConnOver, FreeSlot
<1>5. free' \in Seq(Seqs)
  <2>1. free \in Seq(Seqs) /\ free' = <<obj[c].seq>> \o free
    BY DEF TypeOK, OnConnOver, FreeSlot
  <2> QED
    BY <2>1
<1>6. px' \in Loops /\ px'.pc = "event"
  BY PoppedBatch DEF At
<1>7. \A d \in Conns : Within(d)'
  <2> SUFFICES ASSUME NEW d \in Conns PROVE Within(d)'
    OBVIOUS
  <2>1. CASE d = c
    <3>1. sock'[c].in = 0 /\ sock'[c].out = <<>>
      BY OfType DEF OnConnOver, NoSock
    <3>2. obj'[c].wcache = 0 /\ obj'[c].asked = obj[c].asked
      BY OfType DEF OnConnOver, NoObj
    <3> DEFINE x == Pieces * obj[c].asked
    <3>3. /\ x \in Nat /\ sock[c].in + obj[c].wcache + x <= client[c].sent
          /\ client[c].sent <= MaxRequests[c] * Pieces
      BY OfType DEF Within
    <3> HIDE DEF x
    <3>4. 0 + 0 + x <= client[c].sent
      BY <3>3, OfType
    <3>5. Pieces * obj'[c].asked = x /\ Len(sock'[c].out) <= SndBuf
      BY <3>1, <3>2, <1>1, Sorts DEF x
    <3> QED
      BY <2>1, <3>1, <3>2, <3>3, <3>4, <3>5 DEF Within
  <2>2. CASE d # c
    <3>1. sock'[d] = sock[d] /\ obj'[d] = obj[d]
      BY <2>2, OfType DEF OnConnOver
    <3> QED
      BY <3>1, OfType DEF Within
  <2> QED
    BY <2>1, <2>2
<1> QED
  BY <1>2, <1>3, <1>4, <1>5, <1>6, <1>7 DEF TypeOK, rings, Producing

(* What a write takes of the cache fits the socket.                        *)
LEMMA Parts ==
  ASSUME NEW q \in Seq(Messages), NEW n \in 0 .. Len(q)
  PROVE  /\ SubSeq(q, 1, n) \in Seq(Messages) /\ Len(SubSeq(q, 1, n)) = n
         /\ SubSeq(q, n + 1, Len(q)) \in Seq(Messages)
OBVIOUS

LEMMA Joined ==
  ASSUME NEW q \in Seq(Messages), NEW r \in Seq(Messages)
  PROVE  q \o r \in Seq(Messages) /\ Len(q \o r) = Len(q) + Len(r)
OBVIOUS

LEMMA FittingType ==
  ASSUME TypeOK, NEW c \in Conns
  PROVE  LET n == Fitting(obj[c].rcache, sock[c]) IN
         /\ n \in 0 .. Len(obj[c].rcache)
         /\ Len(sock[c].out) + n <= SndBuf
<1> DEFINE a == Len(obj[c].rcache)
           b == Len(sock[c].out)
           n == IF a < SndBuf - b THEN a ELSE SndBuf - b
<1>1. a \in Nat /\ b \in Nat /\ b <= SndBuf /\ SndBuf \in Nat
  BY OfType, Sorts
<1> HIDE DEF a, b
<1>2. n \in 0 .. a /\ b + n <= SndBuf
  BY <1>1
<1> QED
  BY <1>2 DEF Fitting, a, b

LEMMA RegisterType ==
  ASSUME TypeOK, NEW s \in Seqs, NEW k, NEW w
  PROVE  Register(ready, s, k, w) \subseteq Descriptors
BY DEF TypeOK, Register, Wake, Descriptors

LEMMA ObjFields ==
  ASSUME NEW o \in CClients
  PROVE  /\ [o EXCEPT !.watchOut = TRUE] \in CClients
         /\ \A n \in Nat : [o EXCEPT !.watchOut = FALSE, !.wcache = n] \in CClients
         /\ \A q \in Seq(Messages) : [o EXCEPT !.rcache = q] \in CClients
         /\ \A q \in Seq(Messages) :
              [[o EXCEPT !.rcache = q] EXCEPT !.watchOut = TRUE] \in CClients
BY DEF CClients

(* An object's cache and watch change, and its socket's output.            *)
LEMMA WriteType ==
  ASSUME TypeOK, NEW c \in Conns, NEW o \in CClients,
         o.wcache = obj[c].wcache, o.asked = obj[c].asked,
         NEW out \in Seq(Messages), Len(out) <= SndBuf,
         sock' = [sock EXCEPT ![c] = [sock[c] EXCEPT !.out = out]],
         obj' = [obj EXCEPT ![c] = o],
         UNCHANGED client
  PROVE  /\ sock' \in [Conns -> Socks] /\ obj' \in [Conns -> CClients]
         /\ \A d \in Conns : Within(d)'
<1>1. sock' \in [Conns -> Socks]
  BY OfType, SockFields
<1>2. obj' \in [Conns -> CClients]
  BY OfType
<1>3. \A d \in Conns : Within(d)'
  <2> SUFFICES ASSUME NEW d \in Conns PROVE Within(d)'
    OBVIOUS
  <2>1. /\ sock'[d].in = sock[d].in /\ obj'[d].wcache = obj[d].wcache
        /\ obj'[d].asked = obj[d].asked
    BY OfType DEF Socks
  <2>2. Len(sock'[d].out) <= SndBuf
    <3>1. sock'[d].out = IF d = c THEN out ELSE sock[d].out
      BY OfType DEF Socks
    <3> QED
      BY <3>1, OfType
  <2> QED
    BY <2>1, <2>2, OfType DEF Within
<1> QED
  BY <1>1, <1>2, <1>3

(* What a turn of the loop takes from the head of the batch.               *)
LEMMA OutputDoneType ==
  ASSUME TypeOK, At("event"), NEW in \in BOOLEAN
  PROVE  /\ OutputDone(in) \in Loops /\ OutputDone(in).pc = "event"
         /\ in => /\ DOMAIN OutputDone(in).batch = DOMAIN px.batch
                  /\ \A i \in DOMAIN px.batch :
                       /\ OutputDone(in).batch[i].seq = px.batch[i].seq
                       /\ OutputDone(in).batch[i].in = px.batch[i].in
                       /\ OutputDone(in).batch[i].out => px.batch[i].out /\ i # 1
         /\ ~in => OutputDone(in) = Popped
<1>1. CASE in
  <2> DEFINE q == px.batch
             b == [q EXCEPT ![1] = [q[1] EXCEPT !.out = FALSE]]
  <2>1. q \in Seq(Events) /\ q # <<>> /\ px.pc = "event"
    BY DEF TypeOK, Loops, At
  <2>2. OutputDone(in) = [px EXCEPT !.batch = b]
    BY <1>1 DEF OutputDone
  <2> HIDE DEF q
  <2>3. 1 \in DOMAIN q /\ q[1] \in Events /\ \A i \in DOMAIN q : q[i] \in Events
    BY <2>1
  <2>4. [q[1] EXCEPT !.out = FALSE] \in Events
    BY <2>3 DEF Events
  <2>5. b \in Seq(Events) /\ DOMAIN b = DOMAIN q
    BY <2>1, <2>3, <2>4
  <2>6. \A i \in DOMAIN q : /\ b[i].seq = q[i].seq /\ b[i].in = q[i].in
                            /\ b[i].out => q[i].out /\ i # 1
    BY <2>1, <2>3 DEF Events
  <2> HIDE DEF b
  <2>7. /\ OutputDone(in) \in Loops /\ OutputDone(in).batch = b
        /\ OutputDone(in).pc = "event"
    BY <2>1, <2>2, <2>5 DEF TypeOK, Loops
  <2> QED
    BY <1>1, <2>5, <2>6, <2>7 DEF q
<1>2. CASE ~in
  BY <1>2, PoppedBatch DEF OutputDone, At
<1> QED
  BY <1>1, <1>2

(* The object that is handed an event.                                     *)
LEMMA Handed ==
  ASSUME TypeOK, SlotsMatch, px.pc # "dead", px.batch # <<>>, Event.seq \in Seqs
  PROVE  /\ slots[Event.seq] \in Conns
         /\ obj[slots[Event.seq]].seq = Event.seq
         /\ Event = px.batch[1] /\ 1 \in DOMAIN px.batch /\ Event \in Events
<1>1. px.batch \in Seq(Events)
  BY DEF TypeOK, Loops
<1>2. Event = px.batch[1] /\ 1 \in DOMAIN px.batch /\ Event \in Events
  BY <1>1 DEF Event
<1>3. slots[Event.seq] \in Conns
  BY <1>2 DEF SlotsMatch, TypeOK
<1> QED
  BY <1>2, <1>3 DEF SlotsMatch

LEMMA HandedOutput ==
  ASSUME RelayInv, At("event"), Event.out
  PROVE  /\ TypeOK /\ Event.seq \in Seqs /\ Event = px.batch[1]
         /\ 1 \in DOMAIN px.batch /\ Event \in Events
         /\ slots[Event.seq] \in Conns /\ obj[slots[Event.seq]].seq = Event.seq
         /\ Writable(sock[slots[Event.seq]])
<1>1. TypeOK /\ px.batch \in Seq(Events) /\ px.batch # <<>> /\ px.pc = "event"
  BY DEF TypeOK, Loops, At, RelayInv
<1>2. 1 \in DOMAIN px.batch /\ Event = px.batch[1] /\ Event \in Events
  BY <1>1 DEF Event
<1>3. Event.seq \in Seqs /\ Writable(sock[slots[Event.seq]])
  BY <1>2 DEF RelayInv, Output
<1> QED
  BY <1>1, <1>2, <1>3, Handed DEF RelayInv

LEMMA WrittenType ==
  ASSUME RelayInv, At("event"), Event.out, NEW c \in Conns, c = slots[Event.seq],
         UNCHANGED <<client, backlog, rings, wk, slots, free>>,
         NEW out \in Seq(Messages), Len(out) <= SndBuf,
         sock' = [sock EXCEPT ![c] = [sock[c] EXCEPT !.out = out]],
         NEW o \in CClients, o.wcache = obj[c].wcache, o.asked = obj[c].asked,
         o.seq = obj[c].seq, obj' = [obj EXCEPT ![c] = o],
         ready' \subseteq ready \cup {Event.seq},
         px' = OutputDone(Event.in)
  PROVE  /\ TypeOK' /\ Producing'
         /\ \A d \in Conns :
              /\ obj'[d].seq = obj[d].seq /\ sock'[d].st = sock[d].st
              /\ Ended(sock'[d]) => Ended(sock[d])
              /\ d # c => sock'[d] = sock[d]
<1>1. TypeOK /\ Event.seq \in Seqs /\ Event \in Events
  BY HandedOutput
<1>2. /\ sock' \in [Conns -> Socks] /\ obj' \in [Conns -> CClients]
      /\ \A d \in Conns : Within(d)'
  BY <1>1, WriteType
<1>3. px' \in Loops /\ px'.pc = "event"
  BY <1>1, OutputDoneType DEF Events
<1>4. TypeOK'
  BY <1>1, <1>2, <1>3 DEF TypeOK, rings, Descriptors
<1>5. sock \in [Conns -> Socks] /\ obj \in [Conns -> CClients]
  BY <1>1, OfType
<1>6. \A d \in Conns : obj'[d].seq = obj[d].seq /\ (d # c => sock'[d] = sock[d])
  BY <1>5
<1>7. sock'[c] = [sock[c] EXCEPT !.out = out] /\ sock[c] \in Socks
  BY <1>5
<1>8. /\ sock'[c].st = sock[c].st /\ sock'[c].fin = sock[c].fin
      /\ sock'[c].rst = sock[c].rst
  BY <1>7, SMTT(20) DEF Socks
<1>9. Ended(sock'[c]) => Ended(sock[c])
  BY <1>8 DEF Ended
<1>10. \A d \in Conns : sock'[d].st = sock[d].st /\ (Ended(sock'[d]) => Ended(sock[d]))
  BY <1>6, <1>8, <1>9
<1>11. Producing'
  BY <1>3 DEF Producing
<1> QED
  BY <1>4, <1>6, <1>10, <1>11

LEMMA ReadType ==
  ASSUME RelayInv, At("event"), NEW c \in Conns, c = slots[Event.seq],
         Event.seq \in Seqs,
         UNCHANGED <<client, backlog, rings, wk, slots, free>>,
         sock' = [sock EXCEPT ![c] = [sock[c] EXCEPT !.in = 0]],
         EnableInput(c, [sock[c] EXCEPT !.in = 0]),
         px' = [px EXCEPT !.pc = "produce"]
  PROVE  /\ TypeOK' /\ Producing'
         /\ \A d \in Conns :
              /\ obj'[d].seq = obj[d].seq /\ sock'[d].st = sock[d].st
              /\ Ended(sock'[d]) => Ended(sock[d])
              /\ sock'[d].out = sock[d].out /\ sock'[d].rst = sock[d].rst
         /\ ready' \subseteq ready \cup {Event.seq}
<1>0. TypeOK /\ obj[c].seq = Event.seq /\ px.batch # <<>>
  BY Handed DEF At, RelayInv
<1>1. sock' \in [Conns -> Socks]
  BY <1>0, OfType, SockFields
<1> DEFINE w == obj[c].wcache + sock[c].in
           o == [obj[c] EXCEPT !.watchOut = FALSE, !.wcache = w]
<1>2. w \in Nat /\ o \in CClients
  <2>1. w \in Nat /\ obj[c] \in CClients
    BY <1>0, OfType
  <2> HIDE DEF w
  <2> QED
    BY <2>1, ObjFields
<1>3. obj' = [obj EXCEPT ![c] = o]
  BY <1>0, OfType DEF EnableInput
<1>4. obj' \in [Conns -> CClients]
  BY <1>0, <1>2, <1>3, OfType
<1>5. o.wcache = w /\ o.seq = obj[c].seq /\ o.asked = obj[c].asked
  BY <1>0, OfType DEF CClients
<1>6. \A d \in Conns :
        /\ obj'[d].seq = obj[d].seq /\ obj'[d].asked = obj[d].asked
        /\ obj'[d].wcache = IF d = c THEN w ELSE obj[d].wcache
  BY <1>0, <1>3, <1>5, OfType
<1>7. \A d \in Conns :
        /\ sock'[d].st = sock[d].st /\ sock'[d].fin = sock[d].fin
        /\ sock'[d].out = sock[d].out /\ sock'[d].rst = sock[d].rst
        /\ sock'[d].in = IF d = c THEN 0 ELSE sock[d].in
  BY <1>0, OfType, SMTT(20) DEF Socks
<1>8. \A d \in Conns : Within(d)'
  <2> SUFFICES ASSUME NEW d \in Conns PROVE Within(d)'
    OBVIOUS
  <2>1. sock'[d].in + obj'[d].wcache = sock[d].in + obj[d].wcache
    BY <1>0, <1>6, <1>7, OfType, SMTT(20)
  <2>2. obj'[d].asked = obj[d].asked /\ sock'[d].out = sock[d].out
    BY <1>6, <1>7
  <2> QED
    BY <1>0, <2>1, <2>2, OfType DEF Within
<1>9. px' \in Loops /\ px'.batch = px.batch
  BY <1>0 DEF TypeOK, Loops
<1>10. ready' \subseteq ready \cup {Event.seq}
  BY <1>0 DEF EnableInput, Register, Wake
<1>11. TypeOK'
  BY <1>0, <1>1, <1>4, <1>8, <1>9, <1>10 DEF TypeOK, rings, Descriptors
<1>12. Producing'
  BY <1>0, <1>9 DEF Producing, Event
<1> QED
  BY <1>6, <1>7, <1>10, <1>11, <1>12 DEF Ended

LEMMA Fewer ==
  ASSUME NEW p \in Nat, p > 0, NEW a \in Nat, NEW m \in Nat, p * a + p <= m * p
  PROVE  a + 1 <= m /\ p * (a + 1) = p * a + p
<1>1. p * (a + 1) = p * a + p
  BY SMT
<1>2. p * (a + 1) <= p * m
  BY <1>1, SMT
<1>3. m < a + 1 => p * m < p * (a + 1)
  <2> SUFFICES ASSUME m < a + 1 PROVE p * m < p * (a + 1)
    OBVIOUS
  <2>1. PICK d \in Nat : a + 1 = m + d + 1
    <3>1. a - m \in Nat /\ a + 1 = m + (a - m) + 1
      BY SMT
    <3> QED
      BY <3>1
  <2>2. p * (m + d + 1) = p * m + p * d + p /\ p * m \in Nat /\ p * d \in Nat
    BY SMT
  <2> QED
    BY <2>1, <2>2
<1>4. p * m \in Nat /\ p * (a + 1) \in Nat
  BY SMT
<1> QED
  BY <1>1, <1>2, <1>3, <1>4

LEMMA ProduceKept ==
  ASSUME NEW ring \in Seq(Messages), Len(ring) <= RingCap, NEW m \in Messages
  PROVE  /\ Produce(ring, m) \in Seq(Messages)
         /\ Len(Produce(ring, m)) <= RingCap
BY Sorts DEF Produce

LEMMA PxProduceType ==
  ASSUME RelayInv, PxProduce
  PROVE  /\ TypeOK' /\ Producing'
         /\ \A c \in Conns : obj'[c].seq = obj[c].seq
         /\ px' = Popped \/ px'.batch = px.batch
<1>1. TypeOK /\ px.batch # <<>> /\ px.pc = "produce" /\ Event.seq \in Seqs
  BY DEF RelayInv, Producing, PxProduce, At
<1>0. PICK c \in Conns : c = slots[Event.seq]
  BY <1>1, Handed DEF RelayInv
<1> DEFINE a == obj[c].asked
           w == obj[c].wcache
           m == [seq |-> Event.seq, conn |-> c, num |-> a + 1]
<1>2. obj[c] \in CClients /\ w \in Nat /\ a \in Nat
  BY <1>1, OfType
<1>3. reqRing \in Seq(Messages) /\ Len(reqRing) <= RingCap
  BY <1>1 DEF TypeOK
<1> HIDE DEF a, w, m
<1>4. CASE w >= Pieces
  <2> DEFINE o == [obj[c] EXCEPT !.wcache = w - Pieces, !.asked = a + 1]
  <2>1. /\ obj' = [obj EXCEPT ![c] = o] /\ reqRing' = Produce(reqRing, m)
        /\ px' = [px EXCEPT !.pc = "notify"]
        /\ UNCHANGED <<client, kernel, slots, free, respRing, fifo, wk>>
    BY <1>0, <1>4 DEF PxProduce, a, w, m
  <2>2. Within(c) /\ client[c].sent \in Nat /\ sock[c].in \in Nat
        /\ MaxRequests[c] \in Nat /\ Pieces \in Nat /\ Pieces > 0
    BY <1>1, <1>2, OfType, Sorts
  <2> DEFINE x == Pieces * a
             y == MaxRequests[c] * Pieces
  <2>3. x \in Nat /\ y \in Nat
    BY <1>2, <2>2
  <2>4. sock[c].in + w + x <= client[c].sent /\ client[c].sent <= y
    BY <2>2 DEF Within, a, w
  <2> HIDE DEF x, y
  <2>5. x + Pieces <= y
    BY <1>2, <1>4, <2>2, <2>3, <2>4
  <2>6. a + 1 <= MaxRequests[c] /\ Pieces * (a + 1) = x + Pieces
    BY <1>2, <2>2, <2>5, Fewer DEF x, y
  <2>7. m \in Messages
    BY <1>1, <1>2, <2>6 DEF m, Messages
  <2>8. /\ o \in CClients /\ o.seq = obj[c].seq /\ o.wcache = w - Pieces
        /\ o.asked = a + 1
    <3>1. w - Pieces \in Nat /\ a + 1 \in Nat
      BY <1>2, <1>4, <2>2
    <3> QED
      BY <1>2, <3>1 DEF CClients
  <2>9. obj' \in [Conns -> CClients] /\ obj'[c] = o
        /\ \A d \in Conns : d # c => obj'[d] = obj[d]
    BY <1>1, <1>2, <2>1, <2>8, OfType
  <2>10. Within(c)'
    <3>1. w \in Nat /\ Pieces \in Nat /\ sock[c].in \in Nat
      BY <1>2, <2>2
    <3>2. sock[c].in + (w - Pieces) + (x + Pieces) = sock[c].in + w + x
      BY <2>3, <3>1
    <3>3. sock[c].in + (w - Pieces) + Pieces * (a + 1) <= client[c].sent
      BY <2>4, <2>6, <3>2
    <3>4. sock' = sock /\ client' = client
      BY <2>1 DEF kernel
    <3>5. obj'[c].wcache = w - Pieces /\ obj'[c].asked = a + 1
      BY <2>8, <2>9
    <3>6. /\ client[c].sent <= MaxRequests[c] * Pieces
          /\ Len(sock[c].out) <= SndBuf
      BY <2>2 DEF Within
    <3> HIDE DEF o
    <3> QED
      BY <3>3, <3>4, <3>5, <3>6 DEF Within
  <2>11. \A d \in Conns : Within(d)'
    <3>1. sock' = sock /\ client' = client
      BY <2>1 DEF kernel
    <3>2. \A d \in Conns : d # c => Within(d)'
      BY <1>1, <2>9, <3>1, OfType DEF Within
    <3> QED
      BY <2>10, <3>2
  <2>12. px' \in Loops /\ px'.batch = px.batch /\ px'.pc = "notify"
    BY <1>1, <2>1 DEF TypeOK, Loops
  <2>13. reqRing' \in Seq(Messages) /\ Len(reqRing') <= RingCap
    BY <1>3, <2>1, <2>7, ProduceKept
  <2>14. TypeOK'
    BY <1>1, <2>1, <2>9, <2>11, <2>12, <2>13 DEF TypeOK, kernel
  <2>15. Producing'
    BY <1>1, <2>12 DEF Producing, Event
  <2> QED
    BY <2>8, <2>9, <2>12, <2>14, <2>15
<1>5. CASE ~(w >= Pieces)
  <2>1. px' = Popped /\ UNCHANGED <<obj, reqRing, client, kernel, slots, free,
                                    respRing, fifo, wk>>
    BY <1>0, <1>5 DEF PxProduce, a, w, m
  <2>2. px' \in Loops /\ px'.pc = "event"
    BY <1>1, <2>1, PoppedBatch
  <2>3. \A d \in Conns : Within(d)'
    BY <1>1, <2>1, OfType DEF Within, kernel
  <2>4. TypeOK'
    BY <1>1, <2>1, <2>2, <2>3 DEF TypeOK, kernel
  <2> QED
    BY <2>1, <2>2, <2>4 DEF Producing
<1> QED
  BY <1>4, <1>5

Held(w) == w.msg \in IF w.pc = "reply" THEN Messages ELSE {None}

(* A step that leaves the connections alone, and changes a few of the rest *)
(* within their types.                                                     *)
LEMMA RestType ==
  ASSUME TypeOK, UNCHANGED <<client, sock, backlog, obj, slots, free>>,
         ready' \subseteq Descriptors, px' \in Loops, fifo' \in Fifos,
         wk' \in Workers, Held(wk'),
         reqRing' \in Seq(Messages), Len(reqRing') <= RingCap,
         respRing' \in Seq(Messages), Len(respRing') <= RingCap
  PROVE  TypeOK'
<1>1. \A d \in Conns : Within(d)'
  BY OfType DEF Within
<1> QED
  BY <1>1 DEF TypeOK, Held

LEMMA RestOfType ==
  ASSUME TypeOK
  PROVE  /\ ready \subseteq Descriptors /\ px \in Loops /\ fifo \in Fifos
         /\ wk \in Workers /\ Held(wk)
         /\ reqRing \in Seq(Messages) /\ Len(reqRing) <= RingCap
         /\ respRing \in Seq(Messages) /\ Len(respRing) <= RingCap
BY DEF TypeOK, Held

LEMMA PxNotifyType ==
  ASSUME RelayInv, PxNotify
  PROVE  TypeOK' /\ Producing' /\ px'.batch = px.batch
<1>1. TypeOK
  BY DEF RelayInv
<1>2. fifo' \in Fifos
  BY <1>1, RestOfType DEF PxNotify, Fifos
<1>3. px' \in Loops /\ px'.batch = px.batch
  BY <1>1, RestOfType DEF PxNotify, Loops
<1>4. TypeOK'
  BY <1>1, <1>2, <1>3, RestOfType, RestType DEF PxNotify, kernel
<1> QED
  BY <1>3, <1>4 DEF PxNotify, At, RelayInv, Producing, Event

LEMMA PxDrainType ==
  ASSUME RelayInv, PxDrain
  PROVE  TypeOK' /\ Producing' /\ px'.batch = px.batch
<1>1. TypeOK
  BY DEF RelayInv
<1>2. fifo' \in Fifos
  BY <1>1, RestOfType DEF PxDrain, Fifos
<1>3. px' \in Loops /\ px'.batch = px.batch /\ px'.pc = "consume"
  BY <1>1, RestOfType DEF PxDrain, Loops
<1>4. TypeOK'
  BY <1>1, <1>2, <1>3, RestOfType, RestType DEF PxDrain, kernel
<1> QED
  BY <1>3, <1>4 DEF Producing

LEMMA PxConsumeType ==
  ASSUME RelayInv, PxConsume
  PROVE  /\ TypeOK' /\ Producing'
         /\ \A c \in Conns : obj'[c].seq = obj[c].seq
         /\ \A s \in ready' : s \in ready \/ InUse(s)
         /\ px' = Popped \/ px'.batch = px.batch
<1>1. TypeOK /\ px.batch # <<>> /\ px.pc = "consume" /\ SlotsMatch
  BY DEF RelayInv, PxConsume, At
<1>2. respRing \in Seq(Messages) /\ Len(respRing) <= RingCap
  BY <1>1, RestOfType
<1>3. CASE respRing = <<>>
  <2>1. px' = Popped /\ UNCHANGED <<respRing, obj, ready, client, sock, backlog,
                                    slots, free, reqRing, fifo, wk>>
    BY <1>3 DEF PxConsume
  <2>2. px' \in Loops /\ px'.pc = "event"
    BY <1>1, <2>1, PoppedBatch
  <2>3. TypeOK'
    BY <1>1, <2>1, <2>2, RestOfType, RestType
  <2> QED
    BY <2>1, <2>2, <2>3 DEF Producing
<1>4. CASE respRing # <<>>
  <2> DEFINE m == Head(respRing)
             c == slots[m.seq]
  <2>1. m \in Messages /\ Tail(respRing) \in Seq(Messages)
        /\ Len(Tail(respRing)) <= RingCap
    BY <1>2, <1>4, Sorts
  <2>2. m.seq \in Seqs /\ c \in Conns \cup {None}
    BY <1>1, <2>1 DEF Messages, TypeOK
  <2> HIDE DEF m
  <2>3. /\ respRing' = Tail(respRing)
        /\ UNCHANGED <<px, client, sock, backlog, slots, free, reqRing, fifo, wk>>
        /\ c = None => UNCHANGED <<obj, ready>>
        /\ c # None =>
             EnableOutput(c, [obj[c] EXCEPT !.rcache = Cached(@, m)], sock[c])
    BY <1>4 DEF PxConsume, m
  <2>4. CASE c = None
    <3>1. TypeOK'
      BY <1>1, <2>1, <2>3, <2>4, RestOfType, RestType
    <3> QED
      BY <1>1, <2>3, <2>4, <3>1 DEF Producing
  <2>5. CASE c \in Conns
    <3> DEFINE q == Append(obj[c].rcache, m)
               o1 == [obj[c] EXCEPT !.rcache = q]
               o == [o1 EXCEPT !.watchOut = TRUE]
    <3>1. q \in Seq(Messages) /\ obj[c].seq = m.seq
      BY <1>1, <2>1, <2>2, <2>5, OfType DEF SlotsMatch
    <3>2. c # None
      BY <2>5, RelayAssumption
    <3> HIDE DEF c, q
    <3>3. /\ o1 \in CClients /\ o1.seq = m.seq
          /\ o \in CClients /\ o.wcache = obj[c].wcache /\ o.asked = obj[c].asked
          /\ o.seq = m.seq
      <4>1. obj[c] \in CClients
        BY <1>1, <2>5, OfType
      <4>2. o1 \in CClients /\ o \in CClients
        BY <3>1, <4>1, ObjFields
      <4>3. /\ o1.seq = m.seq /\ o.wcache = obj[c].wcache
            /\ o.asked = obj[c].asked /\ o.seq = m.seq
        BY <3>1, <4>1 DEF CClients
      <4> QED
        BY <4>2, <4>3
    <3>4. obj' = [obj EXCEPT ![c] = o] /\ ready' = Register(ready, m.seq, sock[c], TRUE)
      BY <2>3, <3>2, <3>3 DEF EnableOutput, Cached, q
    <3>5. sock[c].out \in Seq(Messages) /\ Len(sock[c].out) <= SndBuf
      BY <1>1, <2>5, OfType
    <3>6. obj' \in [Conns -> CClients] /\ \A d \in Conns : obj'[d].seq = obj[d].seq
      BY <1>1, <2>5, <3>1, <3>3, <3>4, OfType
    <3>7. \A d \in Conns : Within(d)'
      <4>1. \A d \in Conns : obj'[d].wcache = obj[d].wcache /\ obj'[d].asked = obj[d].asked
        BY <1>1, <2>5, <3>3, <3>4, OfType
      <4> QED
        BY <1>1, <2>3, <4>1, OfType, WithinFrame
    <3>8. ready' \subseteq ready \cup {m.seq}
      BY <3>4 DEF Register, Wake
    <3>9. TypeOK'
      BY <1>1, <2>1, <2>2, <2>3, <3>6, <3>7, <3>8 DEF TypeOK, Descriptors
    <3>10. InUse(m.seq)
      BY <3>2 DEF InUse, c
    <3> QED
      BY <1>1, <2>3, <3>6, <3>8, <3>9, <3>10 DEF Producing
  <2> QED
    BY <2>2, <2>4, <2>5
<1> QED
  BY <1>3, <1>4

LEMMA WkNextType ==
  ASSUME RelayInv, WkNext
  PROVE  /\ TypeOK' /\ Producing'
         /\ UNCHANGED <<client, sock, backlog, obj, slots, free, px>>
         /\ ready' \subseteq ready \cup {NotifierSeq}
<1>1. TypeOK
  BY DEF RelayInv
<1>2. /\ UNCHANGED <<client, sock, backlog, obj, slots, free, px>>
      /\ ready' \subseteq ready \cup {NotifierSeq}
  BY DEF WkNext, WkWait, WkDrain, WkConsume, WkReply, WkNotify, kernel, Wake
<1>3. ready' \subseteq Descriptors /\ px' \in Loops
  BY <1>1, <1>2, RestOfType DEF Descriptors
<1>4. fifo' \in Fifos
  BY <1>1, RestOfType DEF WkNext, WkWait, WkDrain, WkConsume, WkReply, WkNotify, Fifos
<1>5. reqRing' \in Seq(Messages) /\ Len(reqRing') <= RingCap
  <2>1. reqRing # <<>> => /\ Tail(reqRing) \in Seq(Messages)
                          /\ Len(Tail(reqRing)) <= RingCap
    BY <1>1, RestOfType, Sorts
  <2> QED
    BY <1>1, <2>1, RestOfType DEF WkNext, WkWait, WkDrain, WkConsume, WkReply, WkNotify
<1>6. respRing' \in Seq(Messages) /\ Len(respRing') <= RingCap
  <2>1. CASE WkReply
    <3>1. wk.msg \in Messages /\ respRing' = Produce(respRing, wk.msg)
      BY <1>1, <2>1, RestOfType DEF WkReply, Workers, Held
    <3> QED
      BY <1>1, <3>1, RestOfType, ProduceKept
  <2>2. CASE ~WkReply
    BY <1>1, <2>2, RestOfType DEF WkNext, WkWait, WkDrain, WkConsume, WkNotify
  <2> QED
    BY <2>1, <2>2
<1>7. wk' \in Workers /\ Held(wk')
  <2>1. reqRing # <<>> => Head(reqRing) \in Messages
    BY <1>1, RestOfType
  <2>2. wk \in Workers /\ Held(wk)
    BY <1>1, RestOfType
  <2>3. CASE WkWait \/ WkDrain \/ WkNotify
    BY <2>2, <2>3 DEF WkWait, WkDrain, WkNotify, Workers, Held
  <2>4. CASE WkConsume
    BY <2>1, <2>2, <2>4 DEF WkConsume, Workers, Held
  <2>5. CASE WkReply
    BY <2>2, <2>5 DEF WkReply, Workers, Held
  <2> QED
    BY <2>3, <2>4, <2>5 DEF WkNext
<1>8. TypeOK'
  BY <1>1, <1>2, <1>3, <1>4, <1>5, <1>6, <1>7, RestType
<1> QED
  BY <1>2, <1>8 DEF RelayInv, Producing, Event

-----------------------------------------------------------------------------
(* The inductive invariant, action by action.                              *)
LEMMA InUseSlot ==
  ASSUME TypeOK, SlotsMatch, NEW c \in Conns
  PROVE  InUse(obj[c].seq)
<1>1. obj[c].seq \in Seqs => slots[obj[c].seq] = c
  BY DEF SlotsMatch
<1> QED
  BY <1>1, RelayAssumption DEF InUse

(* A client, or the network, changes one connection.                       *)
LEMMA ClientQuiet ==
  ASSUME RelayInv, TypeOK', NEW c \in Conns,
         UNCHANGED <<backlog, obj, slots, free, px>>,
         ready' \subseteq ready \cup WakeSock(c),
         \A d \in Conns : d # c => sock'[d] = sock[d] /\ client'[d] = client[d],
         sock'[c].st = sock[c].st,
         client'[c].st = client[c].st \/ client'[c].st = "left",
         Ended(sock'[c]) => Ended(sock[c]) \/ client'[c].st = "left",
         Writable(sock[c]) => Writable(sock'[c])
  PROVE  RelayInv'
<1>0. TypeOK /\ SlotsMatch
  BY DEF RelayInv
<1>1. Producing'
  BY DEF RelayInv, Producing, Event
<1>2. \A s \in ready' : s \in ready \/ InUse(s)
  BY <1>0, InUseSlot DEF WakeSock, Wake
<1>3. \A d \in Conns : Writable(sock[d]) => Writable(sock'[d])
  OBVIOUS
<1>4. \A d \in Conns :
        /\ obj'[d].seq = obj[d].seq
        /\ sock'[d].st = sock[d].st
        /\ client'[d].st = client[d].st \/ client'[d].st = "left"
        /\ Ended(sock'[d]) => Ended(sock[d]) \/ client'[d].st = "left"
  OBVIOUS
<1>5. \A i \in DOMAIN px'.batch :
        /\ i + 0 \in DOMAIN px.batch
        /\ px'.batch[i].seq = px.batch[i + 0].seq
        /\ px'.batch[i].out =>
             /\ px.batch[i + 0].out
             /\ LET d == slots[px'.batch[i].seq]
                IN  Writable(sock[d]) => Writable(sock'[d])
  <2> SUFFICES ASSUME NEW i \in DOMAIN px'.batch
               PROVE  /\ i + 0 \in DOMAIN px.batch
                      /\ px'.batch[i].seq = px.batch[i + 0].seq
                      /\ px'.batch[i].out =>
                           /\ px.batch[i + 0].out
                           /\ LET d == slots[px'.batch[i].seq]
                              IN  Writable(sock[d]) => Writable(sock'[d])
    OBVIOUS
  <2>1. i + 0 = i /\ px' = px
    <3>1. px.batch \in Seq(Events)
      BY <1>0 DEF TypeOK, Loops
    <3>2. i \in Nat
      BY <3>1
    <3> QED
      BY <3>2
  <2>2. px.batch[i].out => slots[px.batch[i].seq] \in Conns
    BY <1>0, <2>1 DEF RelayInv, Output, Watched, InUse, TypeOK
  <2> QED
    BY <1>3, <2>1, <2>2
<1> HIDE DEF RelayInv
<1> QED
  BY <1>1, <1>2, <1>4, <1>5, QuietStep

LEMMA ClientSteps ==
  ASSUME RelayInv, NEW c \in Conns, Send(c) \/ ClientReceive(c) \/ Close(c) \/ Reset(c)
  PROVE  RelayInv'
<1>0. TypeOK
  BY DEF RelayInv
<1>1. CASE Send(c)
  <2>1. TypeOK'
    BY <1>0, <1>1, SendType
  <2>2. /\ UNCHANGED <<backlog, obj, slots, free, px>>
        /\ ready' \subseteq ready \cup WakeSock(c)
        /\ \A d \in Conns : d # c => sock'[d] = sock[d] /\ client'[d] = client[d]
    BY <1>0, <1>1, OfType DEF Send
  <2>3. /\ sock'[c].st = sock[c].st /\ sock'[c].fin = sock[c].fin
        /\ sock'[c].rst = sock[c].rst /\ sock'[c].out = sock[c].out
        /\ client'[c].st = client[c].st
    BY <1>0, <1>1, OfType DEF Send, Socks, Clients
  <2> QED
    BY <2>1, <2>2, <2>3, ClientQuiet DEF Ended, Writable
<1>2. CASE ClientReceive(c)
  <2>1. TypeOK'
    BY <1>0, <1>2, ClientReceiveType
  <2>2. /\ UNCHANGED <<backlog, obj, slots, free, px>>
        /\ ready' \subseteq ready \cup WakeSock(c)
        /\ \A d \in Conns : d # c => sock'[d] = sock[d] /\ client'[d] = client[d]
    BY <1>0, <1>2, OfType DEF ClientReceive
  <2>3. /\ sock'[c].st = sock[c].st /\ sock'[c].fin = sock[c].fin
        /\ sock'[c].rst = sock[c].rst /\ sock'[c].out = Tail(sock[c].out)
        /\ client'[c].st = client[c].st
    BY <1>0, <1>2, OfType DEF ClientReceive, Socks, Clients
  <2>4. Writable(sock[c]) => Writable(sock'[c])
    <3>1. sock[c].out \in Seq(Messages) /\ sock[c].out # <<>>
      BY <1>0, <1>2, OfType DEF ClientReceive
    <3>2. Len(Tail(sock[c].out)) < SndBuf
      BY <1>0, <3>1, OfType, Sorts
    <3> QED
      BY <2>3, <3>2 DEF Writable
  <2> QED
    BY <2>1, <2>2, <2>3, <2>4, ClientQuiet DEF Ended
<1>3. CASE Close(c)
  <2>1. TypeOK'
    BY <1>0, <1>3, CloseType
  <2>2. /\ UNCHANGED <<backlog, obj, slots, free, px>>
        /\ ready' \subseteq ready \cup WakeSock(c)
        /\ \A d \in Conns : d # c => sock'[d] = sock[d] /\ client'[d] = client[d]
    BY <1>0, <1>3, OfType DEF Close
  <2>3. /\ sock'[c].st = sock[c].st /\ sock'[c].out = sock[c].out
        /\ sock'[c].rst \in {sock[c].rst, "abort"}
        /\ client'[c].st = "left"
    BY <1>0, <1>3, OfType DEF Close, Socks, Clients
  <2> QED
    BY <2>1, <2>2, <2>3, ClientQuiet DEF Writable
<1>4. CASE Reset(c)
  <2>1. TypeOK'
    BY <1>0, <1>4, ResetType
  <2>2. /\ UNCHANGED <<backlog, obj, slots, free, px>>
        /\ ready' \subseteq ready \cup WakeSock(c)
        /\ \A d \in Conns : d # c => sock'[d] = sock[d] /\ client'[d] = client[d]
    BY <1>0, <1>4, OfType DEF Reset
  <2>3. /\ sock'[c].st = sock[c].st /\ sock'[c].rst = "pipe" /\ sock[c].fin
        /\ client'[c].st = client[c].st
    BY <1>0, <1>4, OfType DEF Reset, Socks, Clients
  <2> QED
    BY <2>1, <2>2, <2>3, ClientQuiet DEF Writable, Ended
<1> QED
  BY <1>1, <1>2, <1>3, <1>4

LEMMA ConnectStep ==
  ASSUME RelayInv, NEW c \in Conns, Connect(c)
  PROVE  RelayInv'
<1>0. TypeOK /\ TypeOK' /\ client[c].st = "none"
  BY ConnectType DEF RelayInv, Connect
<1>1. /\ UNCHANGED <<obj, slots, free, px>> /\ backlog' = Append(backlog, c)
      /\ ready' = ready \cup {ListenerSeq}
  BY DEF Connect, Wake
<1>2. \A d \in Conns : d # c => sock'[d] = sock[d] /\ client'[d] = client[d]
  BY <1>0, OfType DEF Connect
<1>3. /\ sock'[c].st = "open" /\ sock'[c].out = sock[c].out
      /\ sock'[c].fin = sock[c].fin /\ sock'[c].rst = sock[c].rst
      /\ client'[c].st = "open"
  BY <1>0, OfType DEF Connect, Socks, Clients
<1>4. SlotsMatch' /\ Producing'
  BY <1>1 DEF RelayInv, SlotsMatch, Producing, Event
<1>5. Watched'
  <2>1. \A s \in ready' : s \in Seqs => slots[s] # None
    BY <1>1, Sizes DEF RelayInv, Watched, InUse, ListenerSeq
  <2> QED
    BY <1>1, <2>1 DEF RelayInv, Watched, InUse
<1>6. Waiting'
  <2> DEFINE b == backlog'
  <2>1. /\ backlog \in Seq(Conns) /\ Len(backlog) \in Nat
        /\ DOMAIN backlog = 1 .. Len(backlog)
        /\ DOMAIN b = 1 .. Len(backlog) + 1
        /\ \A i \in DOMAIN backlog : b[i] = backlog[i] /\ backlog[i] \in Conns
        /\ b[Len(backlog) + 1] = c
    BY <1>0, <1>1 DEF TypeOK
  <2> HIDE DEF b
  <2>2. \A i \in DOMAIN b : i \in DOMAIN backlog \/ i = Len(backlog) + 1
    BY <2>1
  <2>3. \A i \in DOMAIN backlog : b[i] # c /\ obj[b[i]].seq = 0
                                  /\ client[b[i]].st # "none"
    BY <1>0, <2>1 DEF RelayInv, Waiting
  <2>4. obj[c].seq = 0
    BY <1>0 DEF RelayInv, Waiting
  <2>5. \A i, j \in DOMAIN b : b[i] = b[j] => i = j
    BY <2>1, <2>2, <2>3 DEF RelayInv, Waiting
  <2>6. \A i \in DOMAIN b : obj'[b[i]].seq = 0 /\ client'[b[i]].st # "none"
    BY <1>1, <1>2, <1>3, <2>1, <2>2, <2>3, <2>4
  <2>7. \A d \in Conns : client'[d].st = "none" => obj'[d].seq = 0
    BY <1>1, <1>2, <2>4 DEF RelayInv, Waiting
  <2> QED
    BY <2>5, <2>6, <2>7 DEF Waiting, b
<1>7. Output'
  <2>1. \A d \in Conns : Writable(sock[d]) => Writable(sock'[d])
    BY <1>2, <1>3 DEF Writable
  <2>2. \A i \in DOMAIN px.batch :
          px.batch[i].out => slots[px.batch[i].seq] \in Conns
    BY <1>0 DEF RelayInv, Output, Watched, InUse, TypeOK
  <2> QED
    BY <1>1, <2>1, <2>2 DEF RelayInv, Output
<1>8. Leaving' /\ ClosedOnlyAfterClient'
  BY <1>0, <1>2, <1>3 DEF RelayInv, Leaving, ClosedOnlyAfterClient, Ended
<1> QED
  BY <1>0, <1>4, <1>5, <1>6, <1>7, <1>8 DEF RelayInv

LEMMA PxWaitStep ==
  ASSUME RelayInv, PxWait
  PROVE  RelayInv'
<1>0. TypeOK /\ TypeOK' /\ Producing'
  BY PxWaitType DEF RelayInv
<1>1. PICK taken \in SUBSET ready :
        /\ ready' = ready \ taken
        /\ \E batch \in SetToSeqs(Reported(taken)) : px' = [px EXCEPT !.batch = batch]
  BY DEF PxWait
<1>2. PICK batch \in SetToSeqs(Reported(taken)) : px' = [px EXCEPT !.batch = batch]
  BY <1>1
<1>3. px'.batch = batch
  BY <1>0, <1>1, <1>2 DEF TypeOK, Loops
<1>4. /\ UNCHANGED <<client, sock, backlog, obj, slots, free>>
      /\ ready' \subseteq ready
  BY <1>1, <1>2 DEF PxWait
<1>5. /\ \A i \in DOMAIN batch : \E s \in ready : batch[i] = Report(s)
      /\ \A i, j \in DOMAIN batch : batch[i].seq = batch[j].seq => i = j
  BY <1>1, <1>2, OrderOfReports DEF RelayInv
<1>6. \A i \in DOMAIN batch :
        /\ InUse(batch[i].seq)
        /\ batch[i].out => /\ batch[i].seq \in Seqs
                           /\ Writable(sock[slots[batch[i].seq]])
  <2> SUFFICES ASSUME NEW i \in DOMAIN batch
               PROVE  /\ InUse(batch[i].seq)
                      /\ batch[i].out => /\ batch[i].seq \in Seqs
                                         /\ Writable(sock[slots[batch[i].seq]])
    OBVIOUS
  <2>1. PICK s \in ready : batch[i] = Report(s)
    BY <1>5
  <2>2. s \in Descriptors /\ InUse(s)
    BY <1>0 DEF TypeOK, RelayInv, Watched
  <2> QED
    BY <1>0, <2>1, <2>2, ReportType
<1>7. SlotsMatch'
  BY <1>3, <1>4, <1>6 DEF RelayInv, SlotsMatch, InUse
<1>8. Watched'
  BY <1>3, <1>4, <1>5, <1>6 DEF RelayInv, Watched, InUse
<1>9. Output'
  BY <1>3, <1>4, <1>6 DEF Output
<1>10. Waiting' /\ Leaving' /\ ClosedOnlyAfterClient'
  BY <1>4 DEF RelayInv, Waiting, Leaving, ClosedOnlyAfterClient
<1> QED
  BY <1>0, <1>7, <1>8, <1>9, <1>10 DEF RelayInv

LEMMA TailSet ==
  ASSUME NEW S, NEW q \in Seq(S), q # <<>>, IsInjective(q)
  PROVE  /\ IsInjective(Tail(q)) /\ Head(q) \in ToSet(q)
         /\ ToSet(Tail(q)) = ToSet(q) \ {Head(q)}
<1>1. /\ DOMAIN q = 1 .. Len(q) /\ Len(q) \in Nat \ {0} /\ Head(q) = q[1]
      /\ DOMAIN Tail(q) = 1 .. Len(q) - 1
      /\ \A i \in 1 .. Len(q) - 1 : Tail(q)[i] = q[i + 1]
  OBVIOUS
<1>2. \A i \in DOMAIN Tail(q) : i + 1 \in DOMAIN q /\ i + 1 # 1
  BY <1>1
<1>3. \A i \in DOMAIN q : i # 1 => i - 1 \in DOMAIN Tail(q) /\ Tail(q)[i - 1] = q[i]
  BY <1>1
<1>4. IsInjective(Tail(q))
  <2>1. \A i, j \in DOMAIN Tail(q) : i + 1 = j + 1 => i = j
    BY <1>1
  <2> QED
    BY <1>1, <1>2, <2>1 DEF IsInjective
<1>5. 1 \in DOMAIN q
  BY <1>1
<1>6. ToSet(Tail(q)) \subseteq ToSet(q) \ {Head(q)}
  BY <1>1, <1>2, <1>5 DEF ToSet, IsInjective
<1>7. ToSet(q) \ {Head(q)} \subseteq ToSet(Tail(q))
  <2> SUFFICES ASSUME NEW v \in ToSet(q), v # Head(q) PROVE v \in ToSet(Tail(q))
    OBVIOUS
  <2>1. PICK i \in DOMAIN q : q[i] = v
    BY DEF ToSet
  <2>2. i - 1 \in DOMAIN Tail(q) /\ Tail(q)[i - 1] = v
    BY <1>1, <1>3, <2>1
  <2> QED
    BY <2>2 DEF ToSet
<1> QED
  BY <1>1, <1>4, <1>5, <1>6, <1>7 DEF ToSet

LEMMA FrontSet ==
  ASSUME NEW S, NEW q \in Seq(S), NEW x \in S, x \notin ToSet(q), IsInjective(q)
  PROVE  IsInjective(<<x>> \o q) /\ ToSet(<<x>> \o q) = ToSet(q) \cup {x}
<1> DEFINE r == <<x>> \o q
<1>1. /\ DOMAIN r = 1 .. Len(q) + 1 /\ Len(q) \in Nat /\ DOMAIN q = 1 .. Len(q)
      /\ r[1] = x /\ \A i \in 1 .. Len(q) : r[i + 1] = q[i]
  OBVIOUS
<1> HIDE DEF r
<1>2. \A i \in DOMAIN r : i # 1 => i - 1 \in DOMAIN q /\ r[i] = q[i - 1]
  <2> SUFFICES ASSUME NEW i \in DOMAIN r, i # 1
               PROVE  i - 1 \in DOMAIN q /\ r[i] = q[i - 1]
    OBVIOUS
  <2>1. i - 1 \in 1 .. Len(q) /\ (i - 1) + 1 = i
    BY <1>1
  <2> QED
    BY <1>1, <2>1
<1>3. \A i \in DOMAIN q : i + 1 \in DOMAIN r /\ r[i + 1] = q[i]
  BY <1>1
<1>4. 1 \in DOMAIN r
  BY <1>1
<1>5. IsInjective(r)
  <2> SUFFICES ASSUME NEW i \in DOMAIN r, NEW j \in DOMAIN r, r[i] = r[j]
               PROVE  i = j
    BY DEF IsInjective
  <2>1. CASE i = 1 \/ j = 1
    BY <1>1, <1>2, <2>1 DEF ToSet
  <2>2. CASE i # 1 /\ j # 1
    <3>1. i - 1 = j - 1
      BY <1>2, <2>2 DEF IsInjective
    <3> QED
      BY <1>1, <3>1
  <2> QED
    BY <2>1, <2>2
<1>6. ToSet(r) = ToSet(q) \cup {x}
  <2>1. ToSet(r) \subseteq ToSet(q) \cup {x}
    BY <1>1, <1>2 DEF ToSet
  <2>2. x \in ToSet(r)
    BY <1>1, <1>4 DEF ToSet
  <2>3. ToSet(q) \subseteq ToSet(r)
    <3> SUFFICES ASSUME NEW v \in ToSet(q) PROVE v \in ToSet(r)
      OBVIOUS
    <3>1. PICK i \in DOMAIN q : q[i] = v
      BY DEF ToSet
    <3> QED
      BY <1>3, <3>1 DEF ToSet
  <2> QED
    BY <2>1, <2>2, <2>3
<1> QED
  BY <1>5, <1>6 DEF r

LEMMA AcceptOneStep ==
  ASSUME RelayInv, AcceptOne, UNCHANGED <<client, rings, px, wk, lost>>
  PROVE  RelayInv'
<1>0. /\ TypeOK /\ SlotsMatch /\ TypeOK' /\ Producing'
      /\ free # <<>> /\ Head(free) \in Seqs
  BY AcceptOneType DEF RelayInv
<1>1. PICK s \in Seqs : s = Head(free)
  BY <1>0
<1>2. /\ backlog \in Seq(Conns) /\ backlog # <<>> /\ Head(backlog) \in Conns
      /\ Head(backlog) = backlog[1] /\ DOMAIN backlog = 1 .. Len(backlog)
      /\ Len(backlog) \in Nat /\ 1 \in DOMAIN backlog
      /\ DOMAIN Tail(backlog) = 1 .. Len(backlog) - 1
      /\ \A i \in 1 .. Len(backlog) - 1 : Tail(backlog)[i] = backlog[i + 1]
  BY <1>0 DEF TypeOK, AcceptOne
<1>3. PICK c \in Conns : c = Head(backlog)
  BY <1>2
<1>4. /\ backlog' = Tail(backlog) /\ free' = Tail(free)
      /\ slots' = [slots EXCEPT ![s] = c] /\ obj' = [obj EXCEPT ![c].seq = s]
      /\ ready' \subseteq ready \cup {s} /\ UNCHANGED <<sock, client, px>>
  BY <1>1, <1>3 DEF AcceptOne, AddPollerObj, Register, Wake
<1>5. c # None /\ obj[c].seq = 0 /\ client[c].st # "none" /\ s # 0
  BY <1>2, <1>3, RelayAssumption, Sizes DEF RelayInv, Waiting
<1>6. /\ slots'[s] = c /\ obj'[c].seq = s
      /\ \A t \in Seqs : t # s => slots'[t] = slots[t]
      /\ \A d \in Conns : d # c => obj'[d] = obj[d]
  BY <1>0, <1>4, OfType DEF TypeOK, CClients
<1>7. /\ IsInjective(free') /\ ToSet(free') = ToSet(free) \ {s} /\ s \in ToSet(free)
  BY <1>0, <1>1, <1>4, TailSet DEF TypeOK, SlotsMatch
<1>8. slots[s] = None
  BY <1>0, <1>7 DEF SlotsMatch
<1>9. SlotsMatch'
  <2>1. \A t \in Seqs : \A d \in Conns : (slots'[t] = d) = (obj'[d].seq = t)
    <3> SUFFICES ASSUME NEW t \in Seqs, NEW d \in Conns
                 PROVE  (slots'[t] = d) = (obj'[d].seq = t)
      OBVIOUS
    <3>1. (slots[t] = d) = (obj[d].seq = t)
      BY <1>0 DEF SlotsMatch
    <3>2. t # 0 /\ d # None
      BY Sizes, RelayAssumption
    <3>3. CASE t = s
      BY <1>6, <1>8, <3>1, <3>2, <3>3
    <3>4. CASE t # s
      BY <1>5, <1>6, <3>1, <3>2, <3>4
    <3> QED
      BY <3>3, <3>4
  <2>2. ToSet(free') = {t \in Seqs : slots'[t] = None}
    <3>1. \A t \in Seqs : slots'[t] = None <=> t # s /\ slots[t] = None
      BY <1>5, <1>6
    <3>2. ToSet(free) = {t \in Seqs : slots[t] = None}
      BY <1>0 DEF SlotsMatch
    <3> QED
      BY <1>7, <3>1, <3>2
  <2>3. \A i \in DOMAIN px.batch :
          px.batch[i].seq \in Seqs => slots'[px.batch[i].seq] # None
    BY <1>5, <1>6 DEF RelayInv, Watched, InUse
  <2> QED
    BY <1>4, <1>7, <2>1, <2>2, <2>3 DEF SlotsMatch
<1>10. Watched'
  <2>1. \A t \in Seqs : slots[t] # None => slots'[t] # None
    BY <1>5, <1>6
  <2>2. slots'[s] # None
    BY <1>5, <1>6
  <2> QED
    BY <1>4, <2>1, <2>2 DEF RelayInv, Watched, InUse
<1>11. Waiting'
  <2> DEFINE b == Tail(backlog)
  <2>1. \A i \in DOMAIN b : /\ i + 1 \in DOMAIN backlog /\ i + 1 # 1
                           /\ b[i] = backlog[i + 1]
    BY <1>2
  <2>2. DOMAIN b \subseteq Nat /\ \A i, j \in DOMAIN b : i + 1 = j + 1 => i = j
    BY <1>2
  <2> HIDE DEF b
  <2>3. \A i, j \in DOMAIN b : b[i] = b[j] => i = j
    BY <2>1, <2>2 DEF RelayInv, Waiting
  <2>4. \A i \in DOMAIN b : b[i] \in Conns /\ b[i] # c
    BY <1>2, <1>3, <2>1 DEF RelayInv, Waiting
  <2>5. \A i \in DOMAIN b : obj'[b[i]].seq = 0 /\ client'[b[i]].st # "none"
    BY <1>4, <1>6, <2>1, <2>4 DEF RelayInv, Waiting
  <2>6. \A d \in Conns : client'[d].st = "none" => obj'[d].seq = 0
    BY <1>4, <1>5, <1>6 DEF RelayInv, Waiting
  <2> QED
    BY <1>4, <2>3, <2>5, <2>6 DEF Waiting, b
<1>12. Output'
  <2>1. \A i \in DOMAIN px.batch :
          px.batch[i].seq \in Seqs => slots'[px.batch[i].seq] = slots[px.batch[i].seq]
    BY <1>6, <1>8 DEF RelayInv, Watched, InUse
  <2> QED
    BY <1>4, <2>1 DEF RelayInv, Output, Writable
<1>13. Leaving' /\ ClosedOnlyAfterClient'
  BY <1>4 DEF RelayInv, Leaving, ClosedOnlyAfterClient
<1> QED
  BY <1>0, <1>9, <1>10, <1>11, <1>12, <1>13 DEF RelayInv

(* A connection closed while its event is handled has left no other event. *)
LEMMA OverStep ==
  ASSUME RelayInv, At("event"), NEW c \in Conns, Event.seq \in Seqs,
         c = slots[Event.seq], Ended(sock[c]), OnConnOver(c), px' = Popped,
         UNCHANGED <<client, backlog, rings, wk>>
  PROVE  RelayInv'
<1>0. TypeOK /\ SlotsMatch /\ px.pc # "dead" /\ px.batch # <<>>
  BY DEF RelayInv, At
<1>1. PICK s \in Seqs : s = Event.seq
  OBVIOUS
<1>2. slots[s] = c /\ obj[c].seq = s /\ Event = px.batch[1] /\ 1 \in DOMAIN px.batch
  BY <1>0, <1>1, Handed
<1>3. TypeOK' /\ Producing'
  BY <1>0, <1>1, <1>2, OverType
<1>4. /\ sock' = [sock EXCEPT ![c] = [NoSock EXCEPT !.st = "closed"]]
      /\ ready' = ready \ {s} /\ slots' = [slots EXCEPT ![s] = None]
      /\ free' = <<s>> \o free
      /\ obj' = [obj EXCEPT ![c] = [NoObj EXCEPT !.asked = obj[c].asked]]
  BY <1>2 DEF OnConnOver, FreeSlot
<1>5. /\ slots'[s] = None /\ \A t \in Seqs : t # s => slots'[t] = slots[t]
      /\ obj'[c].seq = 0 /\ \A d \in Conns : d # c => obj'[d] = obj[d]
      /\ sock'[c].fin = FALSE /\ sock'[c].rst = "no"
      /\ \A d \in Conns : d # c => sock'[d] = sock[d]
  BY <1>0, <1>4, OfType DEF TypeOK, NoObj, NoSock
<1>6. s # 0 /\ c # None
  BY Sizes, RelayAssumption
<1>7. \A i \in DOMAIN px'.batch :
        /\ i + 1 \in DOMAIN px.batch /\ px'.batch[i] = px.batch[i + 1]
        /\ px'.batch[i].seq # s
  <2>1. \A i \in DOMAIN px'.batch : /\ i + 1 \in DOMAIN px.batch /\ i + 1 # 1
                                   /\ px'.batch[i] = px.batch[i + 1]
    BY <1>0, PoppedBatch
  <2> QED
    BY <1>1, <1>2, <2>1 DEF RelayInv, Watched
<1>8. SlotsMatch'
  <2>1. \A t \in Seqs : \A d \in Conns : (slots'[t] = d) = (obj'[d].seq = t)
    <3> SUFFICES ASSUME NEW t \in Seqs, NEW d \in Conns
                 PROVE  (slots'[t] = d) = (obj'[d].seq = t)
      OBVIOUS
    <3>1. (slots[t] = d) = (obj[d].seq = t)
      BY <1>0 DEF SlotsMatch
    <3>2. t # 0 /\ d # None
      BY Sizes, RelayAssumption
    <3>3. CASE t = s
      BY <1>2, <1>5, <3>1, <3>2, <3>3
    <3>4. CASE t # s
      BY <1>2, <1>5, <3>1, <3>2, <3>4
    <3> QED
      BY <3>3, <3>4
  <2>2. ToSet(free) = {t \in Seqs : slots[t] = None} /\ IsInjective(free)
        /\ free \in Seq(Seqs)
    BY <1>0 DEF SlotsMatch, TypeOK
  <2>3. IsInjective(free') /\ ToSet(free') = ToSet(free) \cup {s}
    <3>1. s \notin ToSet(free)
      BY <1>2, <1>6, <2>2
    <3> QED
      BY <1>4, <2>2, <3>1, FrontSet
  <2>4. ToSet(free') = {t \in Seqs : slots'[t] = None}
    BY <1>5, <2>2, <2>3
  <2>5. \A i \in DOMAIN px'.batch :
          px'.batch[i].seq \in Seqs => slots'[px'.batch[i].seq] # None
    BY <1>5, <1>7 DEF RelayInv, Watched, InUse
  <2> QED
    BY <2>1, <2>3, <2>4, <2>5 DEF SlotsMatch
<1>9. Watched'
  <2>1. \A t \in ready' : t \in Seqs => slots'[t] # None
    BY <1>4, <1>5 DEF RelayInv, Watched, InUse
  <2>2. \A i \in DOMAIN px'.batch :
          px'.batch[i].seq \in Seqs => slots'[px'.batch[i].seq] # None
    BY <1>5, <1>7 DEF RelayInv, Watched, InUse
  <2>3. \A i, j \in DOMAIN px'.batch : px'.batch[i].seq = px'.batch[j].seq => i = j
    <3> SUFFICES ASSUME NEW i \in DOMAIN px'.batch, NEW j \in DOMAIN px'.batch,
                        px'.batch[i].seq = px'.batch[j].seq
                 PROVE  i = j
      OBVIOUS
    <3>1. i + 1 = j + 1
      BY <1>7 DEF RelayInv, Watched
    <3>2. i \in Nat /\ j \in Nat
      BY <1>3 DEF TypeOK, Loops
    <3> QED
      BY <3>1, <3>2
  <2> QED
    BY <2>1, <2>2, <2>3 DEF Watched, InUse
<1>10. Waiting'
  <2>1. \A i \in DOMAIN backlog : backlog[i] \in Conns
    BY <1>0 DEF TypeOK
  <2> QED
    BY <1>5, <2>1 DEF RelayInv, Waiting
<1>11. Output'
  <2> SUFFICES ASSUME NEW i \in DOMAIN px'.batch, px'.batch[i].out
               PROVE  /\ px'.batch[i].seq \in Seqs
                      /\ Writable(sock'[slots'[px'.batch[i].seq]])
    BY DEF Output, Writable
  <2> DEFINE t == px.batch[i + 1].seq
  <2>1. t \in Seqs /\ Writable(sock[slots[t]]) /\ t # s /\ px'.batch[i].seq = t
    BY <1>7 DEF RelayInv, Output
  <2>2. slots[t] \in Conns /\ slots[t] # c
    <3>1. slots[t] # None
      BY <1>7, <2>1 DEF RelayInv, Watched, InUse
    <3>2. slots[t] \in Conns
      BY <1>0, <2>1, <3>1 DEF TypeOK
    <3>3. \A z \in Conns : (slots[t] = z) = (obj[z].seq = t)
      BY <1>0, <2>1 DEF SlotsMatch
    <3>4. obj[c].seq # t
      BY <1>0, <1>2, <2>1
    <3> QED
      BY <3>2, <3>3, <3>4
  <2> QED
    BY <1>5, <2>1, <2>2
<1>12. Leaving'
  BY <1>5 DEF RelayInv, Leaving, Ended
<1>13. ClosedOnlyAfterClient'
  BY <1>5 DEF RelayInv, Leaving, ClosedOnlyAfterClient
<1> QED
  BY <1>3, <1>8, <1>9, <1>10, <1>11, <1>12, <1>13 DEF RelayInv

(* The proxy moves on in its batch, and touches only the connection whose  *)
(* event it has handled.                                                   *)
LEMMA QuietPop ==
  ASSUME RelayInv, TypeOK', Producing', px.batch # <<>>, px' = Popped,
         UNCHANGED <<client, slots, free, backlog>>,
         \A d \in Conns :
           /\ obj'[d].seq = obj[d].seq /\ sock'[d].st = sock[d].st
           /\ Ended(sock'[d]) => Ended(sock[d])
           /\ obj[d].seq # Event.seq => sock'[d] = sock[d],
         \A s \in ready' : s \in ready \/ InUse(s)
  PROVE  RelayInv'
<1>0. TypeOK /\ SlotsMatch /\ Event = px.batch[1] /\ 1 \in DOMAIN px.batch
  <2>1. TypeOK /\ SlotsMatch /\ px.batch \in Seq(Events)
    BY DEF RelayInv, TypeOK, Loops
  <2> QED
    BY <2>1 DEF Event
<1>1. \A i \in DOMAIN px'.batch :
        /\ i + 1 \in DOMAIN px.batch /\ i + 1 # 1
        /\ px'.batch[i] = px.batch[i + 1]
  BY <1>0, PoppedBatch
<1>2. \A i \in DOMAIN px'.batch :
        px'.batch[i].out => LET d == slots[px'.batch[i].seq]
                            IN  Writable(sock[d]) => Writable(sock'[d])
  <2> SUFFICES ASSUME NEW i \in DOMAIN px'.batch, px'.batch[i].out
               PROVE  LET d == slots[px'.batch[i].seq]
                      IN  Writable(sock[d]) => Writable(sock'[d])
    OBVIOUS
  <2> DEFINE t == px.batch[i + 1].seq
  <2>1. px'.batch[i].seq = t /\ t \in Seqs /\ t # Event.seq
    BY <1>0, <1>1 DEF RelayInv, Output, Watched
  <2>2. slots[t] \in Conns
    BY <1>0, <1>1, <2>1 DEF RelayInv, Watched, InUse, TypeOK
  <2>3. obj[slots[t]].seq # Event.seq
    BY <1>0, <2>1, <2>2 DEF SlotsMatch
  <2> QED
    BY <2>1, <2>2, <2>3
<1>3. \A i \in DOMAIN px'.batch :
        /\ i + 1 \in DOMAIN px.batch
        /\ px'.batch[i].seq = px.batch[i + 1].seq
        /\ px'.batch[i].out =>
             /\ px.batch[i + 1].out
             /\ LET d == slots[px'.batch[i].seq]
                IN  Writable(sock[d]) => Writable(sock'[d])
  BY <1>1, <1>2
<1> HIDE DEF RelayInv
<1> QED
  BY <1>3, QuietStep

(* The proxy stays with the head of its batch.                             *)
LEMMA QuietStay ==
  ASSUME RelayInv, TypeOK', Producing', DOMAIN px'.batch = DOMAIN px.batch,
         UNCHANGED <<client, slots, free, backlog>>,
         \A d \in Conns :
           /\ obj'[d].seq = obj[d].seq /\ sock'[d].st = sock[d].st
           /\ Ended(sock'[d]) => Ended(sock[d]),
         \A i \in DOMAIN px.batch :
           /\ px'.batch[i].seq = px.batch[i].seq
           /\ px'.batch[i].out =>
                /\ px.batch[i].out
                /\ LET d == slots[px.batch[i].seq]
                   IN  Writable(sock[d]) => Writable(sock'[d]),
         \A s \in ready' : s \in ready \/ InUse(s)
  PROVE  RelayInv'
<1>1. \A i \in DOMAIN px.batch : i + 0 = i
  <2>1. px.batch \in Seq(Events)
    BY DEF RelayInv, TypeOK, Loops
  <2> QED
    BY <2>1
<1>2. \A i \in DOMAIN px'.batch :
        /\ i + 0 \in DOMAIN px.batch
        /\ px'.batch[i].seq = px.batch[i + 0].seq
        /\ px'.batch[i].out =>
             /\ px.batch[i + 0].out
             /\ LET d == slots[px'.batch[i].seq]
                IN  Writable(sock[d]) => Writable(sock'[d])
  BY <1>1
<1> HIDE DEF RelayInv
<1> QED
  BY <1>2, QuietStep

LEMMA PxAcceptStep ==
  ASSUME RelayInv, PxAccept
  PROVE  RelayInv'
<1>0. /\ At("event") /\ px.batch # <<>> /\ UNCHANGED <<client, rings, wk, lost>>
      /\ TypeOK
  BY DEF PxAccept, At, RelayInv
<1>1. CASE AcceptNone
  <2>1. px' = Popped /\ UNCHANGED <<sock, backlog, ready, obj, slots, free>>
    BY <1>1 DEF AcceptNone, kernel
  <2>2. TypeOK' /\ Producing'
    BY <1>0, <1>1, AcceptNoneType
  <2> HIDE DEF RelayInv
  <2> QED
    BY <1>0, <2>1, <2>2, QuietPop
<1>2. CASE AcceptOne /\ UNCHANGED px
  BY <1>0, <1>2, AcceptOneStep
<1> QED
  BY <1>1, <1>2 DEF PxAccept

LEMMA PxOutputStep ==
  ASSUME RelayInv, PxOutput
  PROVE  RelayInv'
<1>0. At("event") /\ Event.out /\ px.batch # <<>>
  BY DEF PxOutput, At
<1>1. /\ TypeOK /\ Event.seq \in Seqs /\ Event = px.batch[1]
      /\ 1 \in DOMAIN px.batch /\ Event.in \in BOOLEAN
      /\ Writable(sock[slots[Event.seq]]) /\ obj[slots[Event.seq]].seq = Event.seq
      /\ slots[Event.seq] \in Conns
  BY <1>0, HandedOutput DEF Events
<1>2. PICK c \in Conns : c = slots[Event.seq]
  BY <1>1
<1> DEFINE n == Fitting(obj[c].rcache, sock[c])
           left == Unsent(obj[c].rcache, n)
           out == sock[c].out \o SubSeq(obj[c].rcache, 1, n)
           written == [sock[c] EXCEPT !.out = out]
           o1 == [obj[c] EXCEPT !.rcache = left]
           o2 == [o1 EXCEPT !.watchOut = TRUE]
<1>3. UNCHANGED <<client, backlog, rings, wk>>
  BY DEF PxOutput
<1>4. CASE /\ px' = [px EXCEPT !.pc = "dead"]
           /\ UNCHANGED <<sock, ready, obj, slots, free, lost>>
  <2>1. px' \in Loops /\ px'.pc = "dead" /\ px'.batch = px.batch
    BY <1>1, <1>4 DEF TypeOK, Loops
  <2>2. TypeOK'
    BY <1>1, <1>3, <1>4, <2>1, RestOfType, RestType DEF rings
  <2>3. Producing'
    BY <2>1 DEF Producing
  <2> HIDE DEF RelayInv
  <2> QED
    BY <1>3, <1>4, <2>1, <2>2, <2>3, QuietStay
<1>5. CASE /\ WriteFails(obj[c].rcache, sock[c])
           /\ OnConnOver(c)
           /\ px' = Popped
  <2>1. Ended(sock[c])
    <3>1. obj[c].rcache \in Seq(Messages) /\ sock[c].out \in Seq(Messages)
          /\ Len(sock[c].out) \in Nat
      BY <1>1, OfType
    <3>2. CASE sock[c].rst = "no"
      <4>1. Len(sock[c].out) < SndBuf
        BY <1>1, <1>2, <3>2 DEF Writable
      <4>2. obj[c].rcache # <<>> /\ n = 0
        BY <1>5, <3>2 DEF WriteFails
      <4>3. Len(obj[c].rcache) > 0
        BY <3>1, <4>2
      <4> QED
        BY <3>1, <4>1, <4>2, <4>3, Sorts DEF Fitting
    <3> QED
      BY <3>2 DEF Ended
  <2> HIDE DEF RelayInv
  <2> QED
    BY <1>0, <1>1, <1>2, <1>3, <1>5, <2>1, OverStep
<1>6. CASE /\ sock' = [sock EXCEPT ![c] = written]
           /\ IF left # <<>> THEN EnableOutput(c, o1, written)
              ELSE obj' = [obj EXCEPT ![c] = o1] /\ UNCHANGED ready
           /\ px' = OutputDone(Event.in)
           /\ UNCHANGED <<slots, free, lost>>
  <2>1. /\ n \in 0 .. Len(obj[c].rcache) /\ Len(sock[c].out) + n <= SndBuf
        /\ obj[c].rcache \in Seq(Messages) /\ sock[c].out \in Seq(Messages)
        /\ obj[c] \in CClients
    BY <1>1, FittingType, OfType
  <2> HIDE DEF n
  <2>2. /\ SubSeq(obj[c].rcache, 1, n) \in Seq(Messages)
        /\ Len(SubSeq(obj[c].rcache, 1, n)) = n /\ left \in Seq(Messages)
    BY <2>1, Parts DEF Unsent
  <2>3. out \in Seq(Messages) /\ Len(out) <= SndBuf
    BY <2>1, <2>2, Joined, ZenonT(40)
  <2> HIDE DEF left, out
  <2>4. o1 \in CClients /\ o2 \in CClients
    BY <2>1, <2>2, ObjFields
  <2>5. \A o \in {o1, o2} : /\ o.wcache = obj[c].wcache /\ o.asked = obj[c].asked
                            /\ o.seq = obj[c].seq
    BY <2>1 DEF CClients
  <2>6. /\ obj' \in {[obj EXCEPT ![c] = o] : o \in {o1, o2}}
        /\ ready' \subseteq ready \cup {Event.seq}
    BY <1>1, <1>2, <1>6, <2>5, ZenonT(40) DEF EnableOutput, Register, Wake
  <2>7. PICK o \in {o1, o2} : obj' = [obj EXCEPT ![c] = o]
    BY <2>6
  <2> HIDE DEF o1, o2
  <2>8. /\ o \in CClients /\ o.wcache = obj[c].wcache /\ o.asked = obj[c].asked
        /\ o.seq = obj[c].seq
    BY <2>4, <2>5
  <2>9. /\ TypeOK' /\ Producing'
        /\ \A d \in Conns :
             /\ obj'[d].seq = obj[d].seq /\ sock'[d].st = sock[d].st
             /\ Ended(sock'[d]) => Ended(sock[d])
             /\ d # c => sock'[d] = sock[d]
    <3> HIDE DEF RelayInv
    <3> QED
      BY <1>0, <1>2, <1>3, <1>6, <2>3, <2>6, <2>7, <2>8, WrittenType
  <2>10. \A d \in Conns : obj[d].seq # Event.seq => sock'[d] = sock[d]
    BY <1>1, <1>2, <2>9
  <2>11. \A s \in ready' : s \in ready \/ InUse(s)
    BY <1>2, <2>6, RelayAssumption DEF InUse
  <2>12. CASE Event.in
    <3>1. /\ DOMAIN px'.batch = DOMAIN px.batch
          /\ \A i \in DOMAIN px.batch :
               /\ px'.batch[i].seq = px.batch[i].seq
               /\ px'.batch[i].out => px.batch[i].out /\ i # 1
      BY <1>0, <1>1, <1>6, <2>12, OutputDoneType
    <3>2. \A i \in DOMAIN px.batch :
            px'.batch[i].out => LET d == slots[px.batch[i].seq]
                                IN  Writable(sock[d]) => Writable(sock'[d])
      <4> SUFFICES ASSUME NEW i \in DOMAIN px.batch, px'.batch[i].out
                   PROVE  LET d == slots[px.batch[i].seq]
                          IN  Writable(sock[d]) => Writable(sock'[d])
        OBVIOUS
      <4>1. px.batch[i].seq \in Seqs /\ px.batch[i].seq # Event.seq
        BY <1>1, <3>1 DEF RelayInv, Output, Watched
      <4>2. slots[px.batch[i].seq] \in Conns
        BY <1>1, <4>1 DEF RelayInv, Watched, InUse, TypeOK
      <4>3. obj[slots[px.batch[i].seq]].seq # Event.seq
        BY <4>1, <4>2 DEF RelayInv, SlotsMatch
      <4> QED
        BY <2>10, <4>2, <4>3
    <3> HIDE DEF RelayInv
    <3> QED
      BY <1>3, <1>6, <2>9, <2>11, <3>1, <3>2, QuietStay
  <2>13. CASE ~Event.in
    <3>1. px' = Popped
      BY <1>0, <1>1, <1>6, <2>13, OutputDoneType
    <3> HIDE DEF RelayInv
    <3> QED
      BY <1>0, <1>3, <1>6, <2>9, <2>10, <2>11, <3>1, QuietPop
  <2> QED
    BY <2>12, <2>13
<1> QED
  BY <1>2, <1>4, <1>5, <1>6 DEF PxOutput

LEMMA PxInputStep ==
  ASSUME RelayInv, PxInput
  PROVE  RelayInv'
<1>0. /\ At("event") /\ px.batch # <<>> /\ Event.seq \in Seqs /\ px.pc # "dead"
      /\ TypeOK /\ UNCHANGED <<client, backlog, rings, wk>>
  BY DEF PxInput, At, RelayInv
<1>1. slots[Event.seq] \in Conns
  BY <1>0, Handed DEF RelayInv
<1>2. PICK c \in Conns : c = slots[Event.seq]
  BY <1>1
<1>3. CASE Ended(sock[c]) /\ OnConnOver(c) /\ px' = Popped
  <2> HIDE DEF RelayInv
  <2> QED
    BY <1>0, <1>2, <1>3, OverStep
<1> DEFINE read == [sock[c] EXCEPT !.in = 0]
<1>4. CASE /\ sock' = [sock EXCEPT ![c] = read]
           /\ EnableInput(c, read)
           /\ px' = [px EXCEPT !.pc = "produce"]
           /\ UNCHANGED <<slots, free, lost>>
  <2>1. /\ TypeOK' /\ Producing'
        /\ \A d \in Conns :
             /\ obj'[d].seq = obj[d].seq /\ sock'[d].st = sock[d].st
             /\ Ended(sock'[d]) => Ended(sock[d])
             /\ sock'[d].out = sock[d].out /\ sock'[d].rst = sock[d].rst
        /\ ready' \subseteq ready \cup {Event.seq}
    <3> HIDE DEF RelayInv
    <3> QED
      BY <1>0, <1>2, <1>4, ReadType
  <2>2. px'.batch = px.batch
    BY <1>0, <1>4 DEF TypeOK, Loops
  <2>3. \A s \in ready' : s \in ready \/ InUse(s)
    BY <1>2, <2>1, RelayAssumption DEF InUse
  <2>4. \A i \in DOMAIN px.batch :
          px.batch[i].out => LET d == slots[px.batch[i].seq]
                             IN  Writable(sock[d]) => Writable(sock'[d])
    <3>1. \A d \in Conns : Writable(sock[d]) => Writable(sock'[d])
      BY <2>1 DEF Writable
    <3>2. \A i \in DOMAIN px.batch :
            px.batch[i].out => slots[px.batch[i].seq] \in Conns
      BY <1>0 DEF RelayInv, Output, Watched, InUse, TypeOK
    <3> QED
      BY <3>1, <3>2
  <2> HIDE DEF RelayInv
  <2> QED
    BY <1>0, <1>4, <2>1, <2>2, <2>3, <2>4, QuietStay
<1> QED
  BY <1>2, <1>3, <1>4 DEF PxInput

LEMMA PxProduceStep ==
  ASSUME RelayInv, PxProduce
  PROVE  RelayInv'
<1>1. /\ px.batch # <<>> /\ UNCHANGED <<client, sock, backlog, ready, slots, free>>
  BY DEF PxProduce, At, kernel
<1>2. /\ TypeOK' /\ Producing' /\ \A c \in Conns : obj'[c].seq = obj[c].seq
      /\ px' = Popped \/ px'.batch = px.batch
  BY PxProduceType
<1> HIDE DEF RelayInv
<1>3. CASE px' = Popped
  BY <1>1, <1>2, <1>3, QuietPop
<1>4. CASE px'.batch = px.batch
  BY <1>1, <1>2, <1>4, QuietStay
<1> QED
  BY <1>2, <1>3, <1>4

LEMMA PxFifoStep ==
  ASSUME RelayInv, PxNotify \/ PxDrain
  PROVE  RelayInv'
<1>1. UNCHANGED <<client, sock, backlog, ready, obj, slots, free>>
  BY DEF PxNotify, PxDrain, kernel
<1>2. TypeOK' /\ Producing' /\ px'.batch = px.batch
  BY PxNotifyType, PxDrainType
<1> HIDE DEF RelayInv
<1> QED
  BY <1>1, <1>2, QuietStay

LEMMA PxConsumeStep ==
  ASSUME RelayInv, PxConsume
  PROVE  RelayInv'
<1>1. px.batch # <<>> /\ UNCHANGED <<client, sock, backlog, slots, free>>
  BY DEF PxConsume, At
<1>2. /\ TypeOK' /\ Producing' /\ \A c \in Conns : obj'[c].seq = obj[c].seq
      /\ \A s \in ready' : s \in ready \/ InUse(s)
      /\ px' = Popped \/ px'.batch = px.batch
  BY PxConsumeType
<1> HIDE DEF RelayInv
<1>3. CASE px' = Popped
  BY <1>1, <1>2, <1>3, QuietPop
<1>4. CASE px'.batch = px.batch
  BY <1>1, <1>2, <1>4, QuietStay
<1> QED
  BY <1>2, <1>3, <1>4

LEMMA WkNextStep ==
  ASSUME RelayInv, WkNext
  PROVE  RelayInv'
<1>1. /\ TypeOK' /\ Producing'
      /\ UNCHANGED <<client, sock, backlog, obj, slots, free, px>>
      /\ ready' \subseteq ready \cup {NotifierSeq}
  BY WkNextType
<1>2. \A s \in ready' : s \in ready \/ InUse(s)
  BY <1>1, Sizes DEF InUse, NotifierSeq
<1> HIDE DEF RelayInv
<1> QED
  BY <1>1, <1>2, QuietStay

LEMMA InitInv == Init => RelayInv
<1> SUFFICES ASSUME Init PROVE RelayInv
  OBVIOUS
<1> USE DEF Init, PollerInit, CommInit, WorkerInit
<1>1. TypeOK
  <2>1. <<>> \in Seq(Messages) /\ <<>> \in Seq(Events) /\ Len(<<>>) = 0
        /\ <<>> \in Seq(Conns)
    OBVIOUS
  <2>2. /\ client \in [Conns -> Clients] /\ sock \in [Conns -> Socks]
        /\ obj \in [Conns -> CClients]
    BY <2>1 DEF NoClient, NoSock, NoObj, Clients, Socks, CClients
  <2>3. \A c \in Conns : Within(c)
    BY <2>1, Sorts DEF Within, NoClient, NoSock, NoObj
  <2>4. free \in Seq(Seqs)
    <3>1. Cardinality(Conns) \in Nat
      BY Sizes
    <3>2. \A i \in 1 .. Cardinality(Conns) : i + 1 \in Seqs
      BY <3>1 DEF Seqs
    <3> QED
      BY <3>1, <3>2
  <2>5. px \in Loops /\ fifo \in Fifos /\ wk \in Workers
    BY <2>1 DEF Loops, Fifos, NewFifo, Workers
  <2>6. slots \in [Seqs -> Conns \cup {None}] /\ ready \subseteq Descriptors
    OBVIOUS
  <2>7. /\ \A q \in {reqRing, respRing} : q \in Seq(Messages) /\ Len(q) <= RingCap
        /\ wk.msg \in IF wk.pc = "reply" THEN Messages ELSE {None}
    BY <2>1, Sorts
  <2> QED
    BY <2>1, <2>2, <2>3, <2>4, <2>5, <2>6, <2>7 DEF TypeOK
<1>2. SlotsMatch
  <2>1. Cardinality(Conns) \in Nat
    BY Sizes
  <2>2. ToSet(free) = Seqs
    <3>1. \A i \in 1 .. Cardinality(Conns) : i + 1 \in Seqs
      BY <2>1 DEF Seqs
    <3>2. \A s \in Seqs : s - 1 \in 1 .. Cardinality(Conns) /\ (s - 1) + 1 = s
      BY <2>1 DEF Seqs
    <3>3. \A s \in Seqs : \E i \in 1 .. Cardinality(Conns) : free[i] = s
      BY <3>2
    <3> QED
      BY <3>1, <3>3 DEF ToSet
  <2>3. IsInjective(free)
    BY <2>1 DEF IsInjective
  <2>4. \A s \in Seqs : \A c \in Conns : (slots[s] = c) = (obj[c].seq = s)
    BY Sizes, RelayAssumption DEF NoObj
  <2>5. \A i \in DOMAIN px.batch : FALSE
    OBVIOUS
  <2>6. {s \in Seqs : slots[s] = None} = Seqs
    OBVIOUS
  <2> HIDE DEF Init, PollerInit, CommInit, WorkerInit
  <2> QED
    BY <2>2, <2>3, <2>4, <2>5, <2>6 DEF SlotsMatch
<1>3. Watched /\ Waiting /\ Output
  BY DEF Watched, Waiting, Output, NoObj, NoClient
<1>4. Producing /\ Leaving /\ ClosedOnlyAfterClient
  BY DEF Producing, Leaving, ClosedOnlyAfterClient, NoSock, Ended
<1> QED
  BY <1>1, <1>2, <1>3, <1>4 DEF RelayInv

LEMMA NextInv == RelayInv /\ [Next]_vars => RelayInv'
<1> SUFFICES ASSUME RelayInv, [Next]_vars PROVE RelayInv'
  OBVIOUS
<1> HIDE DEF RelayInv
<1>1. CASE \E c \in Conns : Connect(c)
  BY <1>1, ConnectStep
<1>2. CASE \E c \in Conns : Send(c) \/ ClientReceive(c) \/ Close(c) \/ Reset(c)
  BY <1>2, ClientSteps
<1>3. CASE PxNext
  BY <1>3, PxWaitStep, PxAcceptStep, PxOutputStep, PxInputStep, PxProduceStep,
     PxFifoStep, PxConsumeStep DEF PxNext
<1>4. CASE WkNext
  BY <1>4, WkNextStep
<1>5. CASE UNCHANGED vars
  <2>1. UNCHANGED <<client, sock, backlog, ready, obj, slots, free, px, reqRing,
                    respRing, fifo, wk>>
    BY <1>5 DEF vars
  <2>2. TypeOK' /\ Producing'
    BY <2>1, RestOfType, RestType DEF RelayInv, Producing, Event
  <2> QED
    BY <2>1, <2>2, QuietStay
<1> QED
  BY <1>1, <1>2, <1>3, <1>4, <1>5 DEF Next, ClientNext

LEMMA AlwaysRelayInv == Spec => []RelayInv
BY InitInv, NextInv, PTL DEF Spec

-----------------------------------------------------------------------------
(* No input is lost.  What is noticed after a step:                        *)
Later(s) ==
  \/ s \in ready'
  \/ \E i \in DOMAIN px'.batch :
       /\ px'.batch[i].seq = s /\ px'.batch[i].in
       /\ i > 1 \/ px'.pc = "event"

HeardBacklog == backlog' # <<>> => Later(ListenerSeq)
HeardConns ==
  \A c \in Conns : obj'[c].seq # 0 /\ Readable(sock'[c]) => Later(obj'[c].seq)
HeardResp ==
  respRing' # <<>> => \/ Later(NotifierSeq) /\ fifo'.resp
                      \/ px'.pc = "consume"
                      \/ wk'.pc = "notify"
HeardReq ==
  reqRing' # <<>> => \/ fifo'.queued /\ fifo'.req
                     \/ wk'.pc # "wait"
                     \/ px'.pc = "notify"

LEMMA Heard ==
  ASSUME HeardBacklog, HeardConns, HeardResp, HeardReq
  PROVE  InputNoticed'
BY DEF HeardBacklog, HeardConns, HeardResp, HeardReq, InputNoticed, Noticed,
       Later, Readable

(* What was noticed, part by part.                                         *)
LEMMA Before ==
  ASSUME InputNoticed, px.pc # "dead"
  PROVE  /\ backlog # <<>> => Noticed(ListenerSeq)
         /\ \A c \in Conns :
              obj[c].seq # 0 /\ Readable(sock[c]) => Noticed(obj[c].seq)
         /\ respRing # <<>> => \/ Noticed(NotifierSeq) /\ fifo.resp
                               \/ px.pc = "consume"
                               \/ wk.pc = "notify"
         /\ reqRing # <<>> => \/ fifo.queued /\ fifo.req
                              \/ wk.pc # "wait"
                              \/ px.pc = "notify"
BY DEF InputNoticed

(* It stays noticed while the batch stays, when the head is not what was   *)
(* noticed, and when the head that is taken off is not.                    *)
LEMMA LaterKept ==
  ASSUME NEW s, Noticed(s), s \in ready => s \in ready', px' = px
  PROVE  Later(s)
BY DEF Noticed, Later

LEMMA LaterStay ==
  ASSUME TypeOK, NEW s, Noticed(s), s \in ready => s \in ready',
         px'.batch = px.batch, s # Event.seq \/ px.pc # "event"
  PROVE  Later(s)
<1>1. CASE s \in ready
  BY <1>1 DEF Later
<1>2. CASE \E i \in DOMAIN px.batch :
             /\ px.batch[i].seq = s /\ px.batch[i].in
             /\ i > 1 \/ px.pc = "event"
  <2>1. PICK i \in DOMAIN px.batch : /\ px.batch[i].seq = s /\ px.batch[i].in
                                     /\ i > 1 \/ px.pc = "event"
    BY <1>2
  <2>2. i > 1
    <3>1. px.batch \in Seq(Events)
      BY DEF TypeOK, Loops
    <3>2. i \in Nat /\ i >= 1 /\ (i = 1 => px.batch[i] = Event)
      BY <3>1 DEF Event
    <3> QED
      BY <2>1, <3>2
  <2> QED
    BY <2>1, <2>2 DEF Later
<1> QED
  BY <1>1, <1>2 DEF Noticed

LEMMA LaterPop ==
  ASSUME TypeOK, px.batch # <<>>, NEW s, Noticed(s), s \in ready => s \in ready',
         px' = Popped, s # Event.seq \/ ~Event.in \/ px.pc # "event"
  PROVE  Later(s)
<1>1. CASE s \in ready
  BY <1>1 DEF Later
<1>2. CASE \E i \in DOMAIN px.batch :
             /\ px.batch[i].seq = s /\ px.batch[i].in
             /\ i > 1 \/ px.pc = "event"
  <2>1. PICK i \in DOMAIN px.batch : /\ px.batch[i].seq = s /\ px.batch[i].in
                                     /\ i > 1 \/ px.pc = "event"
    BY <1>2
  <2>2. i # 1
    <3>1. Event = px.batch[1]
      BY DEF Event
    <3> QED
      BY <2>1, <3>1
  <2>3. i - 1 \in DOMAIN px'.batch /\ px'.batch[i - 1] = px.batch[i]
        /\ px'.pc = "event"
    BY <2>2, PoppedBatch
  <2> QED
    BY <2>1, <2>3 DEF Later
<1> QED
  BY <1>1, <1>2 DEF Noticed

(* Steps of the clients and the network, which leave the proxy where it is.*)
LEMMA ClientHeard ==
  ASSUME InputNoticed, px.pc # "dead", NEW c \in Conns,
         UNCHANGED <<obj, px, respRing, reqRing, fifo, wk>>, ready \subseteq ready',
         backlog' # <<>> => backlog # <<>> \/ ListenerSeq \in ready',
         \A d \in Conns : d # c => sock'[d] = sock[d],
         obj[c].seq # 0 /\ Readable(sock'[c]) =>
           Readable(sock[c]) \/ obj[c].seq \in ready'
  PROVE  InputNoticed'
<1>1. \A s : Noticed(s) => Later(s)
  BY LaterKept
<1>2. \A s \in ready' : Later(s)
  BY DEF Later
<1>3. HeardBacklog
  BY <1>1, <1>2, Before DEF HeardBacklog
<1>4. HeardConns
  BY <1>1, <1>2, Before DEF HeardConns
<1>5. HeardResp
  BY <1>1, Before DEF HeardResp
<1>6. HeardReq
  BY <1>1, Before DEF HeardReq
<1> QED
  BY <1>3, <1>4, <1>5, <1>6, Heard

LEMMA ClientNoticed ==
  ASSUME RelayInv, InputNoticed, px.pc # "dead", ClientNext
  PROVE  InputNoticed'
<1>0. TypeOK
  BY DEF RelayInv
<1>1. PICK c \in Conns :
        Connect(c) \/ Send(c) \/ ClientReceive(c) \/ Close(c) \/ Reset(c)
  BY DEF ClientNext
<1>2. CASE Connect(c)
  <2>1. /\ UNCHANGED <<obj, px, respRing, reqRing, fifo, wk>>
        /\ ready \subseteq ready' /\ ListenerSeq \in ready'
        /\ \A d \in Conns : d # c => sock'[d] = sock[d]
    BY <1>0, <1>2, OfType DEF Connect, rings, Wake
  <2>2. obj[c].seq = 0
    BY <1>2 DEF RelayInv, Waiting, Connect
  <2> QED
    BY <2>1, <2>2, ClientHeard
<1>3. CASE Send(c)
  <2>1. /\ UNCHANGED <<obj, px, respRing, reqRing, fifo, wk, backlog>>
        /\ ready \subseteq ready' /\ \A d \in Conns : d # c => sock'[d] = sock[d]
    BY <1>0, <1>3, OfType DEF Send, rings, Wake, WakeSock
  <2>2. obj[c].seq # 0 => sock' = sock \/ obj[c].seq \in ready'
    BY <1>3 DEF Send, Wake, WakeSock
  <2> QED
    BY <2>1, <2>2, ClientHeard
<1>4. CASE ClientReceive(c)
  <2>1. /\ UNCHANGED <<obj, px, respRing, reqRing, fifo, wk, backlog>>
        /\ ready \subseteq ready' /\ \A d \in Conns : d # c => sock'[d] = sock[d]
    BY <1>0, <1>4, OfType DEF ClientReceive, rings, Wake, WakeSock
  <2>2. /\ sock'[c].in = sock[c].in /\ sock'[c].fin = sock[c].fin
        /\ sock'[c].rst = sock[c].rst
    BY <1>0, <1>4, OfType DEF ClientReceive, Socks
  <2> QED
    BY <2>1, <2>2, ClientHeard DEF Readable
<1>5. CASE Close(c)
  <2>1. /\ UNCHANGED <<obj, px, respRing, reqRing, fifo, wk, backlog>>
        /\ ready \subseteq ready' /\ \A d \in Conns : d # c => sock'[d] = sock[d]
    BY <1>0, <1>5, OfType DEF Close, rings, Wake, WakeSock
  <2>2. obj[c].seq # 0 => sock' = sock \/ obj[c].seq \in ready'
    BY <1>5 DEF Close, Wake, WakeSock
  <2> QED
    BY <2>1, <2>2, ClientHeard
<1>6. CASE Reset(c)
  <2>1. /\ UNCHANGED <<obj, px, respRing, reqRing, fifo, wk, backlog>>
        /\ ready \subseteq ready' /\ \A d \in Conns : d # c => sock'[d] = sock[d]
    BY <1>0, <1>6, OfType DEF Reset, rings, Wake, WakeSock
  <2>2. obj[c].seq # 0 => obj[c].seq \in ready'
    BY <1>6 DEF Reset, Wake, WakeSock
  <2> QED
    BY <2>1, <2>2, ClientHeard
<1> QED
  BY <1>1, <1>2, <1>3, <1>4, <1>5, <1>6

LEMMA WorkerNoticed ==
  ASSUME RelayInv, InputNoticed, px.pc # "dead", WkNext
  PROVE  InputNoticed'
<1>0. fifo \in Fifos /\ wk \in Workers
  BY RestOfType DEF RelayInv
<1>1. UNCHANGED <<sock, backlog, obj, px>> /\ ready \subseteq ready'
  BY DEF WkNext, WkWait, WkDrain, WkConsume, WkReply, WkNotify, kernel, Wake
<1>2. \A s : Noticed(s) => Later(s)
  BY <1>1, LaterKept
<1>3. HeardBacklog /\ HeardConns
  BY <1>1, <1>2, Before DEF HeardBacklog, HeardConns
<1>4. CASE WkWait
  <2>1. /\ UNCHANGED <<respRing, reqRing>> /\ wk.pc = "wait"
        /\ fifo'.resp = fifo.resp /\ wk'.pc = IF fifo.req THEN "drain" ELSE "wait"
    BY <1>0, <1>4 DEF WkWait, Fifos, Workers
  <2> QED
    BY <1>1, <1>2, <1>3, <2>1, Before, Heard DEF HeardResp, HeardReq
<1>5. CASE WkDrain
  <2>1. /\ UNCHANGED <<respRing, reqRing>> /\ wk.pc = "drain"
        /\ fifo'.resp = fifo.resp /\ wk'.pc = "consume"
    BY <1>0, <1>5 DEF WkDrain, Fifos, Workers
  <2> QED
    BY <1>1, <1>2, <1>3, <2>1, Before, Heard DEF HeardResp, HeardReq
<1>6. CASE WkConsume
  <2>1. /\ UNCHANGED <<respRing, fifo>> /\ wk.pc = "consume"
        /\ reqRing' # <<>> => wk'.pc = "reply"
    BY <1>0, <1>6 DEF WkConsume, Workers
  <2> QED
    BY <1>1, <1>2, <1>3, <2>1, Before, Heard DEF HeardResp, HeardReq
<1>7. CASE WkReply
  BY <1>3, <1>7, Heard DEF HeardResp, HeardReq, WkReply
<1>8. CASE WkNotify
  <2>1. /\ fifo'.resp /\ NotifierSeq \in ready' /\ wk'.pc = "consume"
    BY <1>0, <1>8 DEF WkNotify, Fifos, Workers, Wake
  <2> QED
    BY <1>3, <2>1, Heard DEF HeardResp, HeardReq, Later
<1> QED
  BY <1>4, <1>5, <1>6, <1>7, <1>8 DEF WkNext

LEMMA PxWaitNoticed ==
  ASSUME RelayInv, InputNoticed, PxWait
  PROVE  InputNoticed'
<1>0. TypeOK /\ px.pc = "event"
  BY DEF RelayInv, PxWait
<1>1. PICK taken \in SUBSET ready :
        /\ ready' = ready \ taken
        /\ \E batch \in SetToSeqs(Reported(taken)) : px' = [px EXCEPT !.batch = batch]
  BY DEF PxWait
<1>2. PICK batch \in SetToSeqs(Reported(taken)) : px' = [px EXCEPT !.batch = batch]
  BY <1>1
<1>3. px'.batch = batch /\ px'.pc = "event"
  BY <1>0, <1>1, <1>2 DEF TypeOK, Loops
<1>4. UNCHANGED <<client, sock, backlog, obj, slots, respRing, reqRing, fifo, wk>>
  BY DEF PxWait, rings
<1>5. \A s : Noticed(s) => s \in ready
  <2>1. \A i \in DOMAIN px.batch : FALSE
    BY DEF PxWait
  <2> QED
    BY <2>1 DEF Noticed
<1>6. \A s \in ready : Report(s).in => Later(s)
  <2> SUFFICES ASSUME NEW s \in ready, Report(s).in PROVE Later(s)
    OBVIOUS
  <2>0. CASE s \notin taken
    BY <1>1, <1>2, <2>0 DEF Later
  <2> SUFFICES ASSUME s \in taken PROVE Later(s)
    BY <2>0
  <2>1. PICK i \in DOMAIN batch : batch[i] = Report(s)
    BY <1>1, <1>2, OrderOfReports DEF RelayInv
  <2>2. s \in Descriptors /\ InUse(s)
    BY <1>0 DEF TypeOK, RelayInv, Watched
  <2>3. batch[i].seq = s
    BY <1>0, <2>1, <2>2, ReportType
  <2> QED
    BY <1>3, <2>1, <2>3 DEF Later
<1>7. HeardBacklog
  <2>1. backlog # <<>> => Report(ListenerSeq).in
    <3>1. ListenerSeq # NotifierSeq
      BY DEF ListenerSeq, NotifierSeq
    <3> DEFINE waiting == backlog # <<>>
    <3>2. Report(ListenerSeq)
            = [seq |-> ListenerSeq, in |-> waiting, out |-> FALSE]
      BY <3>1 DEF Report
    <3> HIDE DEF waiting
    <3>3. Report(ListenerSeq).in = waiting
      BY <3>2
    <3> QED
      BY <3>3 DEF waiting
  <2> QED
    BY <1>0, <1>4, <1>5, <1>6, <2>1, Before DEF HeardBacklog
<1>8. HeardConns
  <2> SUFFICES ASSUME NEW c \in Conns, obj[c].seq # 0, Readable(sock[c])
               PROVE  Later(obj[c].seq)
    BY <1>4 DEF HeardConns
  <2>1. obj[c].seq \in ready
    BY <1>0, <1>5, Before
  <2>2. obj[c].seq \in Seqs /\ obj[c].seq # 0 /\ obj[c].seq # 1
    BY <1>0, Sizes, OfType
  <2>3. slots[obj[c].seq] = c
    BY <2>2 DEF RelayInv, SlotsMatch
  <2>4. Report(obj[c].seq).in
    BY <2>2, <2>3 DEF Report, ListenerSeq, NotifierSeq
  <2> QED
    BY <1>6, <2>1, <2>4
<1>9. HeardResp
  <2>1. Report(NotifierSeq).in = fifo.resp
    BY DEF Report
  <2> QED
    BY <1>0, <1>4, <1>5, <1>6, <2>1, Before DEF HeardResp
<1>10. HeardReq
  BY <1>0, <1>4, Before DEF HeardReq
<1> QED
  BY <1>7, <1>8, <1>9, <1>10, Heard

(* The proxy handles an event: what concerns the rings is as it was.       *)
LEMMA EventHeard ==
  ASSUME InputNoticed, px.pc = "event", Noticed(NotifierSeq) => Later(NotifierSeq),
         UNCHANGED <<respRing, reqRing, fifo, wk>>
  PROVE  HeardResp /\ HeardReq
BY Before DEF HeardResp, HeardReq

LEMMA PxAcceptNoticed ==
  ASSUME RelayInv, InputNoticed, PxAccept
  PROVE  InputNoticed'
<1>0. /\ TypeOK /\ px.pc = "event" /\ px.batch # <<>> /\ Event.seq = ListenerSeq
      /\ UNCHANGED <<respRing, reqRing, fifo, wk>>
  BY DEF RelayInv, PxAccept, At, rings
<1>1. CASE AcceptNone
  <2>1. UNCHANGED <<sock, backlog, ready, obj>> /\ px' = Popped /\ backlog = <<>>
    BY <1>1 DEF AcceptNone, kernel
  <2>2. \A s : s # ListenerSeq /\ Noticed(s) => Later(s)
    BY <1>0, <2>1, LaterPop
  <2>3. HeardBacklog
    BY <2>1 DEF HeardBacklog
  <2>4. HeardConns
    <3>1. \A c \in Conns : obj[c].seq # 0 => obj[c].seq # ListenerSeq
      BY <1>0, Sizes, OfType DEF ListenerSeq
    <3> QED
      BY <1>0, <2>1, <2>2, <3>1, Before DEF HeardConns
  <2>5. HeardResp /\ HeardReq
    BY <1>0, <2>2, EventHeard DEF NotifierSeq, ListenerSeq
  <2> QED
    BY <2>3, <2>4, <2>5, Heard
<1>2. CASE AcceptOne /\ UNCHANGED px
  <2>1. PICK c \in Conns : c = Head(backlog)
    BY <1>0, <1>2 DEF AcceptOne, TypeOK
  <2> DEFINE s == Head(free)
  <2>2. /\ obj' = [obj EXCEPT ![c].seq = s] /\ backlog # <<>>
        /\ ready' = Register(ready, s, sock[c], FALSE) /\ UNCHANGED sock
    BY <1>2, <2>1 DEF AcceptOne, AddPollerObj
  <2> HIDE DEF s
  <2>3. ready \subseteq ready' /\ (Readable(sock[c]) => s \in ready')
    BY <2>2 DEF Register, Wake
  <2>4. obj'[c].seq = s /\ \A d \in Conns : d # c => obj'[d] = obj[d]
    BY <1>0, <2>2, OfType DEF CClients
  <2>5. \A t : Noticed(t) => Later(t)
    BY <1>2, <2>3, LaterKept
  <2>6. HeardBacklog
    BY <1>0, <2>2, <2>5, Before DEF HeardBacklog
  <2>7. HeardConns
    BY <1>0, <2>2, <2>3, <2>4, <2>5, Before, ZenonT(40) DEF HeardConns, Later
  <2>8. HeardResp /\ HeardReq
    BY <1>0, <2>5, EventHeard
  <2> QED
    BY <2>6, <2>7, <2>8, Heard
<1> QED
  BY <1>1, <1>2 DEF PxAccept

LEMMA OverNoticed ==
  ASSUME RelayInv, InputNoticed, At("event"), NEW c \in Conns, Event.seq \in Seqs,
         c = slots[Event.seq], OnConnOver(c), px' = Popped,
         UNCHANGED <<client, backlog, rings, wk>>
  PROVE  InputNoticed'
<1>0. /\ TypeOK /\ px.pc = "event" /\ px.batch # <<>> /\ obj[c].seq = Event.seq
      /\ UNCHANGED <<backlog, respRing, reqRing, fifo, wk>>
  BY Handed DEF RelayInv, At, rings
<1>1. /\ ready' = ready \ {Event.seq} /\ obj'[c].seq = 0
      /\ \A d \in Conns : d # c => obj'[d] = obj[d] /\ sock'[d] = sock[d]
  BY <1>0, OfType DEF OnConnOver, NoObj
<1>2. \A s : s # Event.seq /\ Noticed(s) => Later(s)
  BY <1>0, <1>1, LaterPop
<1>3. HeardBacklog
  BY <1>0, <1>2, Before, Sizes DEF HeardBacklog, ListenerSeq
<1>4. HeardConns
  <2>1. \A d \in Conns : d # c => obj[d].seq # Event.seq
    BY <1>0 DEF RelayInv, SlotsMatch
  <2> QED
    BY <1>0, <1>1, <1>2, <2>1, Before DEF HeardConns
<1>5. HeardResp /\ HeardReq
  BY <1>0, <1>2, EventHeard, Sizes DEF NotifierSeq
<1> QED
  BY <1>3, <1>4, <1>5, Heard

LEMMA WrittenNoticed ==
  ASSUME RelayInv, InputNoticed, At("event"), Event.out,
         NEW c \in Conns, c = slots[Event.seq],
         UNCHANGED <<backlog, rings, wk>>,
         NEW out, sock' = [sock EXCEPT ![c] = [sock[c] EXCEPT !.out = out]],
         \A d \in Conns : obj'[d].seq = obj[d].seq,
         ready \subseteq ready', px' = OutputDone(Event.in)
  PROVE  InputNoticed'
<1>0. /\ TypeOK /\ px.pc = "event" /\ px.batch # <<>> /\ Event.in \in BOOLEAN
      /\ Event = px.batch[1] /\ UNCHANGED <<backlog, respRing, reqRing, fifo, wk>>
  BY HandedOutput DEF At, rings, Events
<1>1. \A s : Noticed(s) => Later(s)
  <2>1. CASE Event.in
    <3>1. /\ px'.pc = "event" /\ DOMAIN px'.batch = DOMAIN px.batch
          /\ \A i \in DOMAIN px.batch : /\ px'.batch[i].seq = px.batch[i].seq
                                        /\ px'.batch[i].in = px.batch[i].in
      BY <1>0, <2>1, OutputDoneType
    <3> QED
      BY <3>1 DEF Noticed, Later
  <2>2. CASE ~Event.in
    <3>1. px' = Popped
      BY <1>0, <2>2, OutputDoneType
    <3> QED
      BY <1>0, <2>2, <3>1, LaterPop
  <2> QED
    BY <1>0, <2>1, <2>2
<1>2. HeardBacklog
  BY <1>0, <1>1, Before DEF HeardBacklog
<1>3. HeardConns
  <2>0. sock[c] \in Socks /\ sock \in [Conns -> Socks]
    BY <1>0, OfType
  <2>1. /\ sock'[c].in = sock[c].in /\ sock'[c].fin = sock[c].fin
        /\ sock'[c].rst = sock[c].rst
        /\ \A d \in Conns : d # c => sock'[d] = sock[d]
    <3>1. sock'[c] = [sock[c] EXCEPT !.out = out]
      BY <2>0
    <3>2. \A d \in Conns : d # c => sock'[d] = sock[d]
      BY <2>0
    <3> QED
      BY <2>0, <3>1, <3>2 DEF Socks
  <2>2. \A d \in Conns : Readable(sock'[d]) => Readable(sock[d])
    BY <2>1 DEF Readable
  <2> QED
    BY <1>0, <1>1, <2>2, Before DEF HeardConns
<1>4. HeardResp /\ HeardReq
  BY <1>0, <1>1, EventHeard
<1> QED
  BY <1>2, <1>3, <1>4, Heard

LEMMA PxOutputNoticed ==
  ASSUME RelayInv, InputNoticed, PxOutput
  PROVE  InputNoticed'
<1>0. /\ At("event") /\ Event.out /\ TypeOK /\ Event.seq \in Seqs
      /\ UNCHANGED <<client, backlog, rings, wk>> /\ slots[Event.seq] \in Conns
      /\ obj[slots[Event.seq]].seq = Event.seq
  BY HandedOutput DEF PxOutput
<1>1. PICK c \in Conns : c = slots[Event.seq]
  BY <1>0
<1> DEFINE n == Fitting(obj[c].rcache, sock[c])
           left == Unsent(obj[c].rcache, n)
           out == sock[c].out \o SubSeq(obj[c].rcache, 1, n)
           written == [sock[c] EXCEPT !.out = out]
           o1 == [obj[c] EXCEPT !.rcache = left]
<1>2. CASE px' = [px EXCEPT !.pc = "dead"]
  BY <1>0, <1>2 DEF InputNoticed, TypeOK, Loops
<1>3. CASE OnConnOver(c) /\ px' = Popped
  <2> HIDE DEF RelayInv, InputNoticed
  <2> QED
    BY <1>0, <1>1, <1>3, OverNoticed
<1>4. CASE /\ sock' = [sock EXCEPT ![c] = written]
           /\ IF left # <<>> THEN EnableOutput(c, o1, written)
              ELSE obj' = [obj EXCEPT ![c] = o1] /\ UNCHANGED ready
           /\ px' = OutputDone(Event.in)
  <2> HIDE DEF left, out
  <2>1. obj[c] \in CClients
    BY <1>0, OfType
  <2>2. o1.seq = obj[c].seq /\ [o1 EXCEPT !.watchOut = TRUE].seq = obj[c].seq
    BY <2>1 DEF CClients
  <2>3. ready \subseteq ready' /\ \A d \in Conns : obj'[d].seq = obj[d].seq
    BY <1>0, <1>4, <2>2, OfType DEF EnableOutput, Register, Wake
  <2> HIDE DEF RelayInv, InputNoticed
  <2> QED
    BY <1>0, <1>1, <1>4, <2>3, WrittenNoticed
<1> QED
  BY <1>1, <1>2, <1>3, <1>4 DEF PxOutput

LEMMA PxInputNoticed ==
  ASSUME RelayInv, InputNoticed, PxInput
  PROVE  InputNoticed'
<1>0. /\ At("event") /\ px.batch # <<>> /\ Event.seq \in Seqs /\ px.pc = "event"
      /\ TypeOK /\ UNCHANGED <<client, backlog, rings, wk>>
  BY DEF PxInput, At, RelayInv
<1>1. slots[Event.seq] \in Conns /\ obj[slots[Event.seq]].seq = Event.seq
  BY <1>0, Handed DEF RelayInv
<1>2. PICK c \in Conns : c = slots[Event.seq]
  BY <1>1
<1>3. CASE OnConnOver(c) /\ px' = Popped
  <2> HIDE DEF RelayInv, InputNoticed
  <2> QED
    BY <1>0, <1>2, <1>3, OverNoticed
<1> DEFINE read == [sock[c] EXCEPT !.in = 0]
<1>4. CASE /\ ~Ended(sock[c])
           /\ sock' = [sock EXCEPT ![c] = read]
           /\ EnableInput(c, read)
           /\ px' = [px EXCEPT !.pc = "produce"]
           /\ UNCHANGED <<slots, free, lost>>
  <2>1. /\ \A d \in Conns : obj'[d].seq = obj[d].seq
        /\ ready \subseteq ready'
    BY <1>0, <1>4, OfType DEF EnableInput, Register, Wake, CClients
  <2>2. px'.batch = px.batch
    BY <1>0, <1>4 DEF TypeOK, Loops
  <2>3. \A s : s # Event.seq /\ Noticed(s) => Later(s)
    BY <1>0, <2>1, <2>2, LaterStay
  <2>4. /\ ~Readable(sock'[c]) /\ \A d \in Conns : d # c => sock'[d] = sock[d]
    BY <1>0, <1>4, OfType DEF Readable, Ended, Socks
  <2>5. HeardBacklog
    BY <1>0, <2>3, Before, Sizes DEF HeardBacklog, ListenerSeq
  <2>6. HeardConns
    <3>1. \A d \in Conns : d # c => obj[d].seq # Event.seq
      BY <1>0, <1>2 DEF RelayInv, SlotsMatch
    <3> QED
      BY <1>0, <2>1, <2>3, <2>4, <3>1, Before DEF HeardConns
  <2>7. HeardResp /\ HeardReq
    BY <1>0, <2>3, EventHeard, Sizes DEF NotifierSeq, rings
  <2> QED
    BY <2>5, <2>6, <2>7, Heard
<1> QED
  BY <1>2, <1>3, <1>4 DEF PxInput

LEMMA PxRingsNoticed ==
  ASSUME RelayInv, InputNoticed, PxProduce \/ PxNotify \/ PxDrain
  PROVE  InputNoticed'
<1>0. /\ TypeOK /\ fifo \in Fifos /\ px \in Loops /\ px.batch # <<>>
      /\ UNCHANGED <<sock, backlog, ready, respRing, wk>>
      /\ \A d \in Conns : obj'[d].seq = obj[d].seq
  <2>1. TypeOK /\ fifo \in Fifos /\ px \in Loops
    BY RestOfType DEF RelayInv
  <2>2. px.batch # <<>> /\ UNCHANGED <<sock, backlog, ready, respRing, wk>>
    BY DEF RelayInv, Producing, PxProduce, PxNotify, PxDrain, At, kernel
  <2>3. \A d \in Conns : obj'[d].seq = obj[d].seq
    BY PxProduceType DEF PxNotify, PxDrain
  <2> QED
    BY <2>1, <2>2, <2>3
<1>1. ASSUME \A s : s # NotifierSeq \/ px.pc # "event" => (Noticed(s) => Later(s)),
             px.pc # "dead"
      PROVE  HeardBacklog /\ HeardConns
  <2>1. ListenerSeq # NotifierSeq
    BY DEF ListenerSeq, NotifierSeq
  <2>2. \A d \in Conns : obj[d].seq # 0 => obj[d].seq # NotifierSeq
    BY DEF NotifierSeq
  <2> QED
    BY <1>0, <1>1, <2>1, <2>2, Before DEF HeardBacklog, HeardConns
<1>2. CASE PxProduce
  <2>1. px.pc = "produce" /\ UNCHANGED fifo
    BY <1>2 DEF PxProduce, At
  <2>2. \/ px'.batch = px.batch /\ px'.pc = "notify"
        \/ px' = Popped /\ UNCHANGED reqRing
    BY <1>0, <1>2 DEF PxProduce, Loops
  <2>3. \A s : Noticed(s) => Later(s)
    <3>1. CASE px'.batch = px.batch
      BY <1>0, <2>1, <3>1, LaterStay
    <3>2. CASE px' = Popped
      BY <1>0, <2>1, <3>2, LaterPop
    <3> QED
      BY <2>2, <3>1, <3>2
  <2>4. HeardResp /\ HeardReq
    BY <1>0, <2>1, <2>2, <2>3, Before DEF HeardResp, HeardReq
  <2> QED
    BY <1>1, <2>1, <2>3, <2>4, Heard
<1>3. CASE PxNotify
  <2>1. /\ px.pc = "notify" /\ px'.batch = px.batch /\ fifo'.req /\ fifo'.queued
        /\ fifo'.resp = fifo.resp
    BY <1>0, <1>3 DEF PxNotify, At, Loops, Fifos
  <2>2. \A s : Noticed(s) => Later(s)
    BY <1>0, <2>1, LaterStay
  <2>3. HeardResp /\ HeardReq
    BY <1>0, <2>1, <2>2, Before DEF HeardResp, HeardReq
  <2> QED
    BY <1>1, <2>1, <2>2, <2>3, Heard
<1>4. CASE PxDrain
  <2>1. /\ px.pc = "event" /\ px'.batch = px.batch /\ px'.pc = "consume"
        /\ Event.seq = NotifierSeq /\ UNCHANGED reqRing
        /\ fifo'.req = fifo.req /\ fifo'.queued = fifo.queued
    BY <1>0, <1>4 DEF PxDrain, At, Loops, Fifos
  <2>2. \A s : s # NotifierSeq /\ Noticed(s) => Later(s)
    BY <1>0, <2>1, LaterStay
  <2>3. HeardResp /\ HeardReq
    BY <1>0, <2>1, Before DEF HeardResp, HeardReq
  <2> QED
    BY <1>1, <2>1, <2>2, <2>3, Heard
<1> QED
  BY <1>2, <1>3, <1>4

LEMMA PxConsumeNoticed ==
  ASSUME RelayInv, InputNoticed, PxConsume
  PROVE  InputNoticed'
<1>0. /\ TypeOK /\ px.batch # <<>> /\ px.pc = "consume"
      /\ UNCHANGED <<sock, backlog, reqRing, fifo, wk>>
      /\ \A d \in Conns : obj'[d].seq = obj[d].seq
  BY PxConsumeType DEF RelayInv, PxConsume, At
<1>1. ready \subseteq ready'
  BY DEF PxConsume, EnableOutput, Register, Wake
<1>2. \/ px' = Popped /\ respRing' = <<>>
      \/ px' = px
  BY DEF PxConsume
<1>3. \A s : Noticed(s) => Later(s)
  <2>1. CASE px' = Popped
    BY <1>0, <1>1, <2>1, LaterPop
  <2>2. CASE px' = px
    BY <1>1, <2>2, LaterKept
  <2> QED
    BY <1>2, <2>1, <2>2
<1>4. HeardBacklog /\ HeardConns
  BY <1>0, <1>3, Before DEF HeardBacklog, HeardConns
<1>5. HeardResp
  BY <1>0, <1>2 DEF HeardResp
<1>6. HeardReq
  BY <1>0, Before DEF HeardReq
<1> QED
  BY <1>4, <1>5, <1>6, Heard

LEMMA InitNoticed == Init => InputNoticed
BY DEF Init, PollerInit, CommInit, InputNoticed, NoObj

LEMMA NextNoticed == RelayInv /\ InputNoticed /\ [Next]_vars => InputNoticed'
<1> SUFFICES ASSUME RelayInv, InputNoticed, [Next]_vars PROVE InputNoticed'
  OBVIOUS
<1> HIDE DEF RelayInv
<1>1. CASE px.pc = "dead"
  <2>1. px' = px
    <3>1. CASE PxNext
      BY <1>1, <3>1 DEF PxNext, PxWait, PxAccept, PxOutput, PxInput, PxProduce,
                        PxNotify, PxDrain, PxConsume, At
    <3>2. CASE ClientNext
      BY <3>2 DEF ClientNext, Connect, Send, ClientReceive, Close, Reset
    <3>3. CASE WkNext
      BY <3>3 DEF WkNext, WkWait, WkDrain, WkConsume, WkReply, WkNotify
    <3> QED
      BY <3>1, <3>2, <3>3 DEF Next, vars
  <2> QED
    BY <1>1, <2>1 DEF InputNoticed
<1>2. CASE px.pc # "dead" /\ ClientNext
  BY <1>2, ClientNoticed
<1>3. CASE px.pc # "dead" /\ WkNext
  BY <1>3, WorkerNoticed
<1>4. CASE PxNext
  BY <1>4, PxWaitNoticed, PxAcceptNoticed, PxOutputNoticed, PxInputNoticed,
     PxRingsNoticed, PxConsumeNoticed DEF PxNext
<1>5. CASE UNCHANGED vars
  BY <1>5 DEF vars, InputNoticed, Noticed, Readable
<1> QED
  BY <1>1, <1>2, <1>3, <1>4, <1>5 DEF Next

-----------------------------------------------------------------------------
(* Every variable of the relay keeps its type, and no ring, socket or      *)
(* cache ever holds more than it can (Relay.TypeOK; netcomm/client.cpp).   *)
THEOREM RelayTypes == Spec => []TypeOK
BY AlwaysRelayInv, PTL DEF RelayInv

(* Slots and objects always name each other, and every event in a batch    *)
(* finds the connection it was reported for (pollerunit.cpp:79, slot.h).   *)
THEOREM RelaySlots == Spec => []SlotsMatch
BY AlwaysRelayInv, PTL DEF RelayInv

(* The proxy closes a connection only after its client has left            *)
(* (client.cpp:24, client.cpp:47).                                         *)
THEOREM RelayCloses == Spec => []ClosedOnlyAfterClient
BY AlwaysRelayInv, PTL DEF RelayInv

(* With edge triggering, what is there to read is always noticed           *)
(* (client.cpp:86, listener.cpp:38, notifier.cpp:26).                      *)
THEOREM RelayNoticed == Spec => []InputNoticed
BY InitNoticed, NextNoticed, AlwaysRelayInv, PTL DEF Spec

=============================================================================

------------------------------ MODULE ShmRing ------------------------------
(***************************************************************************)
(* The message ring in shared memory, class CShmMQ of                      *)
(* netcomm/cshmcommu.{h,cpp}.  Producers call enqueue, consumers call      *)
(* dequeue; nothing but the two indices head and tail keeps them apart.    *)
(* The indices are plain words of the segment, and every load or store of  *)
(* shared memory is a step of its own: the build has no optimisation and   *)
(* targets x86-64, so a process's accesses take effect in program order.   *)
(* The two counters are atomic<unsigned int>: ++ and -- are one step each. *)
(*                                                                         *)
(* A frame is [SPPX | seq | datalen | body | SPPX].  The block holds one   *)
(* cell per byte; a cell names the message it belongs to and its offset in *)
(* the frame, so that a byte of one message is never mistaken for a byte   *)
(* of another.  All bytes of an SPPX are the same in every frame.          *)
(***************************************************************************)
EXTENDS Integers, Sequences, FiniteSets

CONSTANTS
  Producers,   \* processes that call enqueue
  Consumers,   \* processes that call dequeue
  BlockSize,   \* bytes of the block (2024 for the 2048 bytes asked for)
  SafeLen,     \* C_SAFE_AREA_LEN, 4 in the code
  SeqLen,      \* sizeof(seq), 4 in the code
  LenLen,      \* sizeof(datalen), 4 in the code
  BodyLens,    \* lengths of the bodies that are sent
  BuffSize,    \* bytes of the buffer given to dequeue (comsumeBuffSize)
  TornLens,    \* what a length field mixed from two writes may decode to
  WordSize,    \* 2^32 in the code: values of an unsigned int
  MaxMsgs      \* bound: calls of enqueue

HeaderLen == SafeLen + SeqLen + LenLen
Total(n) == HeaderLen + n + SafeLen

(* The callers give dequeue a buffer of shmsize bytes, more than the block *)
(* (processcomm.cpp:130), and no body comes near 2^32 bytes.               *)
ASSUME RingAssumption ==
  /\ BlockSize \in Nat \ {0}
  /\ SafeLen \in Nat \ {0}
  /\ SeqLen \in Nat \ {0}
  /\ LenLen \in Nat \ {0}
  /\ BodyLens \subseteq Nat
  /\ BuffSize \in Nat
  /\ BuffSize >= BlockSize
  /\ WordSize \in Nat
  /\ Total(BuffSize) < WordSize
  /\ TornLens \subseteq 0 .. WordSize - 1
  /\ MaxMsgs \in Nat

VARIABLES
  head,           \* write index, in the segment
  tail,           \* read index, in the segment
  block,          \* the cells of the block
  currMsgNum,     \* messages in the ring, as the segment counts them
  historyMsgNum,  \* messages handled, as the segment counts them
  prod,           \* the locals of each producer's enqueue
  cons,           \* the locals of each consumer's dequeue
  nextId,         \* history: the identity of the next message sent
  sent,           \* history: the messages published, in order
  start,          \* history: start[i] bytes were published before sent[i]
  rcvd            \* history: the messages dequeued, in order

shared == <<head, tail, block, currMsgNum, historyMsgNum>>
history == <<nextId, sent, start, rcvd>>
vars == <<head, tail, block, currMsgNum, historyMsgNum, prod, cons,
          nextId, sent, start, rcvd>>

-----------------------------------------------------------------------------
(* Messages, cells and frames.                                             *)

Msg == [id : 1 .. MaxMsgs, len : BodyLens]
NoMsg == [id |-> 0, len |-> 0]   \* no message; also one with mixed bytes

Cell == [msg : Msg \cup {NoMsg}, off : Nat]
Magic(k) == [msg |-> NoMsg, off |-> k]          \* byte k of an SPPX
Blank == [msg |-> NoMsg, off |-> SafeLen]       \* a byte never written

FrameCell(m, k) ==
  IF k < SafeLen THEN Magic(k)
  ELSE IF k < HeaderLen + m.len THEN [msg |-> m, off |-> k]
  ELSE Magic(k - (HeaderLen + m.len))

Frame(m) == [i \in 1 .. Total(m.len) |-> FrameCell(m, i - 1)]

(* The check of an SPPX that begins at offset k of what was read.          *)
HasMagic(buf, k) == \A i \in 0 .. SafeLen - 1 : buf[k + i + 1] = Magic(i)

(* What datalen may decode to: the sender's length when all of the field's *)
(* bytes are of one message, otherwise any of TornLens.                    *)
LenField(buf) ==
  LET off == SafeLen + SeqLen
      m == buf[off + 1].msg
  IN  IF m # NoMsg /\ \A i \in off .. HeaderLen - 1 :
                          buf[i + 1] = [msg |-> m, off |-> i]
      THEN {m.len} ELSE TornLens

(* The message that a caller of dequeue receives.                          *)
Delivered(buf) ==
  LET m == buf[SafeLen + 1].msg
  IN  IF m # NoMsg /\ buf = Frame(m) THEN m ELSE NoMsg

-----------------------------------------------------------------------------
(* The arithmetic on the two indices.                                      *)

(* Fault: the ring may be filled to the last byte.                          *)
MutFreeAll(h, t) == IF h >= t THEN BlockSize - (h - t) ELSE t - h

(* Fault: one byte less than the ring holds may be used.                   *)
MutFreeTight(h, t) == IF h >= t THEN BlockSize - (h - t) - 2 ELSE t - h - 2

Free(h, t) == IF h >= t THEN BlockSize - (h - t) - 1 ELSE t - h - 1

(* Fault: one byte too many before the end of the block.                   *)
MutFreeLine(h, t) == IF h >= t THEN BlockSize - h + 1 ELSE t - h - 1

FreeLine(h, t) ==
  IF h >= t THEN IF t > 0 THEN BlockSize - h ELSE BlockSize - h - 1
            ELSE t - h - 1

Readable(h, t) == IF h >= t THEN h - t ELSE BlockSize - t + h

ReadLine(h, t) == IF h >= t THEN h - t ELSE BlockSize - t

(* Where enqueue stores, and dequeue loads, byte k of a frame.  The cases  *)
(* of each function differ in which part of the frame the end of the block *)
(* cuts; the address of a byte is the same in all of them.                 *)
WriteAddr(h, t, k) == IF k < FreeLine(h, t) THEN h + k ELSE k - FreeLine(h, t)
ReadAddr(h, t, k) == IF k < ReadLine(h, t) THEN t + k ELSE k - ReadLine(h, t)

(* Case 2.2 of dequeue: the end of the block cuts the closing SPPX.        *)
CutsTrailer(h, t, n) ==
  ReadLine(h, t) < Total(n) /\ ReadLine(h, t) >= HeaderLen + n

-----------------------------------------------------------------------------
EnqueueErrors == {"NOSPACE"}
DequeueErrors == {"SPACEERR", "BADSPPX_1", "BADSPPX_2"}

IdleProducer == [pc |-> "idle", h |-> 0, t |-> 0, m |-> NoMsg, k |-> 0,
                 res |-> "none"]
IdleConsumer == [pc |-> "idle", h |-> 0, t |-> 0, buf |-> <<>>, n |-> 0,
                 res |-> "none"]

(* createShm has run in every process and nothing is under way.            *)
Init ==
  /\ head = 0
  /\ tail = 0
  /\ block = [a \in 0 .. BlockSize - 1 |-> Blank]
  /\ currMsgNum = 0
  /\ historyMsgNum = 0
  /\ prod = [p \in Producers |-> IdleProducer]
  /\ cons = [c \in Consumers |-> IdleConsumer]
  /\ nextId = 1
  /\ sent = <<>>
  /\ start = <<0>>
  /\ rcvd = <<>>

EnqueueReturns(p, r) == prod' = [prod EXCEPT ![p] = [IdleProducer EXCEPT !.res = r]]
DequeueReturns(c, r) == cons' = [cons EXCEPT ![c] = [IdleConsumer EXCEPT !.res = r]]

-----------------------------------------------------------------------------
(* enqueue                                                                 *)

(* A call begins: _head = *head.                                           *)
EnqLoadHead(p) ==
  /\ prod[p].pc = "idle"
  /\ nextId <= MaxMsgs
  /\ \E n \in BodyLens :
       prod' = [prod EXCEPT ![p] =
                  [pc |-> "loadTail", h |-> head, t |-> 0,
                   m |-> [id |-> nextId, len |-> n], k |-> 0, res |-> "none"]]
  /\ nextId' = nextId + 1
  /\ UNCHANGED <<shared, cons, sent, start, rcvd>>

(* _tail = *tail, and the decision whether the message fits.               *)
EnqLoadTail(p) ==
  /\ prod[p].pc = "loadTail"
  /\ IF Total(prod[p].m.len) > Free(prod[p].h, tail)
     THEN EnqueueReturns(p, "NOSPACE")
     ELSE prod' = [prod EXCEPT ![p].pc = "copy", ![p].t = tail]
  /\ UNCHANGED <<shared, cons, history>>

(* Fault: the last byte of a frame is not stored.                          *)
MutCopyShort(p) ==
  LET l == prod[p]
  IN  /\ l.pc = "copy"
      /\ block' = [block EXCEPT ![WriteAddr(l.h, l.t, l.k)] = FrameCell(l.m, l.k)]
      /\ prod' = [prod EXCEPT
                    ![p].k = l.k + 1,
                    ![p].pc = IF l.k + 2 < Total(l.m.len) THEN "copy" ELSE "publish"]
      /\ UNCHANGED <<head, tail, currMsgNum, historyMsgNum, cons, history>>

(* One more byte of the frame is stored.                                   *)
EnqCopy(p) ==
  LET l == prod[p]
  IN  /\ l.pc = "copy"
      /\ block' = [block EXCEPT ![WriteAddr(l.h, l.t, l.k)] = FrameCell(l.m, l.k)]
      /\ prod' = [prod EXCEPT
                    ![p].k = l.k + 1,
                    ![p].pc = IF l.k + 1 < Total(l.m.len) THEN "copy" ELSE "publish"]
      /\ UNCHANGED <<head, tail, currMsgNum, historyMsgNum, cons, history>>

(* Fault: the new head is not taken modulo the block size.                 *)
MutPublishNoWrap(p) ==
  LET l == prod[p]
  IN  /\ l.pc = "publish"
      /\ head' = l.h + Total(l.m.len)
      /\ prod' = [prod EXCEPT ![p].pc = "count"]
      /\ sent' = Append(sent, l.m)
      /\ start' = Append(start, start[Len(start)] + Total(l.m.len))
      /\ UNCHANGED <<tail, block, currMsgNum, historyMsgNum, cons, nextId, rcvd>>

(* *head = _head: the message can be seen by the consumers.                *)
EnqPublish(p) ==
  LET l == prod[p]
  IN  /\ l.pc = "publish"
      /\ head' = (l.h + Total(l.m.len)) % BlockSize
      /\ prod' = [prod EXCEPT ![p].pc = "count"]
      /\ sent' = Append(sent, l.m)
      /\ start' = Append(start, start[Len(start)] + Total(l.m.len))
      /\ UNCHANGED <<tail, block, currMsgNum, historyMsgNum, cons, nextId, rcvd>>

(* currMsgNum++, and the return.                                           *)
EnqCount(p) ==
  /\ prod[p].pc = "count"
  /\ currMsgNum' = (currMsgNum + 1) % WordSize
  /\ EnqueueReturns(p, "SUCCESS")
  /\ UNCHANGED <<head, tail, block, historyMsgNum, cons, history>>

-----------------------------------------------------------------------------
(* dequeue                                                                 *)

(* A call begins: _head = *head.                                           *)
DeqLoadHead(c) ==
  /\ cons[c].pc = "idle"
  /\ cons' = [cons EXCEPT ![c] =
                [pc |-> "loadTail", h |-> head, t |-> 0, buf |-> <<>>, n |-> 0,
                 res |-> "none"]]
  /\ UNCHANGED <<shared, prod, history>>

(* _tail = *tail, and the two tests that need no byte of the block.        *)
DeqLoadTail(c) ==
  /\ cons[c].pc = "loadTail"
  /\ IF cons[c].h = tail THEN DequeueReturns(c, "EMPTY")
     ELSE IF Readable(cons[c].h, tail) < HeaderLen
     THEN DequeueReturns(c, "SPACEERR")
     ELSE cons' = [cons EXCEPT ![c].pc = "header", ![c].t = tail]
  /\ UNCHANGED <<shared, prod, history>>

(* Byte Len(buf) of the frame is loaded.                                   *)
LoadByte(c) ==
  LET l == cons[c] IN Append(l.buf, block[ReadAddr(l.h, l.t, Len(l.buf))])

(* One more byte of the header is copied.                                  *)
DeqHeader(c) ==
  /\ cons[c].pc = "header"
  /\ cons' = [cons EXCEPT
                ![c].buf = LoadByte(c),
                ![c].pc = IF Len(cons[c].buf) + 1 < HeaderLen THEN "header"
                                                              ELSE "check"]
  /\ UNCHANGED <<shared, prod, history>>

(* Fault: datalen is not compared with buffsize.                           *)
MutNoBuffCheck(c) ==
  LET l == cons[c]
  IN  /\ l.pc = "check"
      /\ \/ /\ ~HasMagic(l.buf, 0)
            /\ DequeueReturns(c, "BADSPPX_1")
         \/ /\ HasMagic(l.buf, 0)
            /\ \E n \in LenField(l.buf) :
                 IF Readable(l.h, l.t) < Total(n) % WordSize
                 THEN DequeueReturns(c, "SPACEERR")
                 ELSE cons' = [cons EXCEPT ![c].pc = "body", ![c].n = n]
      /\ UNCHANGED <<shared, prod, history>>

(* The first SPPX is checked, datalen decoded and compared with what is    *)
(* readable (a sum that wraps) and with the caller's buffer.               *)
DeqCheck(c) ==
  LET l == cons[c]
  IN  /\ l.pc = "check"
      /\ \/ /\ ~HasMagic(l.buf, 0)
            /\ DequeueReturns(c, "BADSPPX_1")
         \/ /\ HasMagic(l.buf, 0)
            /\ \E n \in LenField(l.buf) :
                 IF \/ Readable(l.h, l.t) < Total(n) % WordSize
                    \/ BuffSize < n
                 THEN DequeueReturns(c, "SPACEERR")
                 ELSE cons' = [cons EXCEPT ![c].pc = "body", ![c].n = n]
      /\ UNCHANGED <<shared, prod, history>>

(* One more byte of the body, or of the closing SPPX, is loaded.           *)
DeqBody(c) ==
  LET l == cons[c]
  IN  /\ l.pc = "body"
      /\ cons' = [cons EXCEPT
                    ![c].buf = LoadByte(c),
                    ![c].pc = IF Len(l.buf) + 1 < Total(l.n) THEN "body"
                                                             ELSE "trailer"]
      /\ UNCHANGED <<shared, prod, history>>

(* The closing SPPX is checked.  Where the end of the block cuts it, a     *)
(* mismatch ends the process: exit(0).                                     *)
DeqTrailer(c) ==
  LET l == cons[c]
  IN  /\ l.pc = "trailer"
      /\ IF HasMagic(l.buf, HeaderLen + l.n)
         THEN cons' = [cons EXCEPT ![c].pc = "release"]
         ELSE IF CutsTrailer(l.h, l.t, l.n)
         THEN cons' = [cons EXCEPT ![c].pc = "exited"]
         ELSE DequeueReturns(c, "BADSPPX_2")
      /\ UNCHANGED <<shared, prod, history>>

(* Fault: the tail is not stored.                                          *)
MutNoRelease(c) ==
  LET l == cons[c]
  IN  /\ l.pc = "release"
      /\ cons' = [cons EXCEPT ![c].pc = "uncount"]
      /\ rcvd' = Append(rcvd, Delivered(l.buf))
      /\ UNCHANGED <<head, tail, block, currMsgNum, historyMsgNum, prod,
                     nextId, sent, start>>

(* *tail = _tail: the message's bytes are given back.                      *)
DeqRelease(c) ==
  LET l == cons[c]
  IN  /\ l.pc = "release"
      /\ tail' = (l.t + Total(l.n)) % BlockSize
      /\ cons' = [cons EXCEPT ![c].pc = "uncount"]
      /\ rcvd' = Append(rcvd, Delivered(l.buf))
      /\ UNCHANGED <<head, block, currMsgNum, historyMsgNum, prod,
                     nextId, sent, start>>

(* Fault: currMsgNum is not decremented.                                   *)
MutNoUncount(c) ==
  /\ cons[c].pc = "uncount"
  /\ cons' = [cons EXCEPT ![c].pc = "history"]
  /\ UNCHANGED <<shared, prod, history>>

(* currMsgNum--                                                            *)
DeqUncount(c) ==
  /\ cons[c].pc = "uncount"
  /\ currMsgNum' = (currMsgNum + WordSize - 1) % WordSize
  /\ cons' = [cons EXCEPT ![c].pc = "history"]
  /\ UNCHANGED <<head, tail, block, historyMsgNum, prod, history>>

(* historyMsgNum++, and the return.                                        *)
DeqHistory(c) ==
  /\ cons[c].pc = "history"
  /\ historyMsgNum' = (historyMsgNum + 1) % WordSize
  /\ DequeueReturns(c, "SUCCESS")
  /\ UNCHANGED <<head, tail, block, currMsgNum, prod, history>>

-----------------------------------------------------------------------------
Enqueue(p) ==
  \/ EnqLoadHead(p) \/ EnqLoadTail(p) \/ EnqCopy(p)
  \/ EnqPublish(p) \/ EnqCount(p)

Dequeue(c) ==
  \/ DeqLoadHead(c) \/ DeqLoadTail(c) \/ DeqHeader(c) \/ DeqCheck(c)
  \/ DeqBody(c) \/ DeqTrailer(c) \/ DeqRelease(c)
  \/ DeqUncount(c) \/ DeqHistory(c)

Next == \/ \E p \in Producers : Enqueue(p)
        \/ \E c \in Consumers : Dequeue(c)

Spec == Init /\ [][Next]_vars

-----------------------------------------------------------------------------
(* Properties.                                                             *)

Index == 0 .. BlockSize - 1
Word == 0 .. WordSize - 1

ProducerLocals ==
  [pc : {"idle", "loadTail", "copy", "publish", "count"},
   h : Index, t : Index, m : Msg \cup {NoMsg}, k : Nat,
   res : {"none", "SUCCESS"} \cup EnqueueErrors]

ConsumerLocals ==
  [pc : {"idle", "loadTail", "header", "check", "body", "trailer",
         "exited", "release", "uncount", "history"},
   h : Index, t : Index, buf : Seq(Cell), n : 0 .. BuffSize,
   res : {"none", "SUCCESS", "EMPTY"} \cup DequeueErrors]

(* Every variable has its type; the two indices stay inside the block.     *)
TypeOK ==
  /\ head \in Index
  /\ tail \in Index
  /\ block \in [Index -> Cell]
  /\ currMsgNum \in Word
  /\ historyMsgNum \in Word
  /\ prod \in [Producers -> ProducerLocals]
  /\ cons \in [Consumers -> ConsumerLocals]
  /\ nextId \in 1 .. MaxMsgs + 1
  /\ sent \in Seq(Msg)
  /\ start \in Seq(Nat)
  /\ Len(start) = Len(sent) + 1
  /\ rcvd \in Seq(Msg \cup {NoMsg})

(* What a call has established by the time it touches the block: enqueue,  *)
(* that the frame fits between the indices it loaded; dequeue, that the    *)
(* bytes up to the one it loads lie between them.                          *)
CopyFits ==
  \A p \in Producers :
    /\ prod[p].pc # "idle" => prod[p].m \in Msg
    /\ prod[p].pc = "loadTail" => prod[p].k = 0
    /\ prod[p].pc = "copy" =>
         /\ prod[p].k < Total(prod[p].m.len)
         /\ Total(prod[p].m.len) <= Free(prod[p].h, prod[p].t)

FetchFits ==
  \A c \in Consumers :
    LET l == cons[c]
    IN  /\ l.pc = "loadTail" => l.buf = <<>>
        /\ l.pc \in {"header", "check"} => HeaderLen <= Readable(l.h, l.t)
        /\ l.pc = "header" => Len(l.buf) < HeaderLen
        /\ l.pc = "check" => Len(l.buf) = HeaderLen
        /\ l.pc = "body" => /\ HeaderLen <= Len(l.buf)
                            /\ Len(l.buf) < Total(l.n)
                            /\ Total(l.n) <= Readable(l.h, l.t)
        /\ l.pc \in {"trailer", "release"} => Len(l.buf) = Total(l.n)

MemInv == TypeOK /\ CopyFits /\ FetchFits

(* No call touches memory outside the block or beyond the caller's buffer, *)
(* whatever the indices it loaded: not with several producers and          *)
(* consumers, nor with an index that changed between its two loads, nor    *)
(* with a datalen mixed from two messages, where only the comparison with  *)
(* buffsize stops a length whose total wraps (cshmcommu.cpp:243-253).      *)
MemorySafe ==
  /\ \A p \in Producers :
       prod[p].pc = "copy" =>
         WriteAddr(prod[p].h, prod[p].t, prod[p].k) \in 0 .. BlockSize - 1
  /\ \A c \in Consumers :
       cons[c].pc \in {"header", "body"} =>
         ReadAddr(cons[c].h, cons[c].t, Len(cons[c].buf)) \in 0 .. BlockSize - 1
  /\ \A c \in Consumers :
       cons[c].pc \in {"trailer", "release"} =>
         Len(cons[c].buf) <= Total(BuffSize)

(* The rest is what one producer and one consumer may rely on.             *)

OneEach == /\ \A p, q \in Producers : p = q
           /\ \A c, d \in Consumers : c = d

Published == start[Len(start)]        \* bytes published so far
Released == start[Len(rcvd) + 1]      \* bytes given back so far

(* No store of enqueue lands on a frame that is published and not released,*)
(* although the consumer moves tail while the copy is under way and the    *)
(* producer decided on a tail that may be stale.                           *)
UnreadIntact ==
  \A i \in Len(rcvd) + 1 .. Len(sent) : \A k \in 0 .. Total(sent[i].len) - 1 :
    block[(start[i] + k) % BlockSize] = FrameCell(sent[i], k)

(* The histories agree with the indices, and fewer than BlockSize bytes    *)
(* are ever in flight.                                                     *)
HistoryInv ==
  /\ Len(rcvd) <= Len(sent)
  /\ \A i \in 1 .. Len(rcvd) : rcvd[i] = sent[i]
  /\ \A i \in 1 .. Len(sent) : start[i + 1] = start[i] + Total(sent[i].len)
  /\ \A i, j \in 1 .. Len(start) : i <= j => start[i] <= start[j]
  /\ head = Published % BlockSize
  /\ tail = Released % BlockSize
  /\ Published - Released < BlockSize

(* What the producer has written lies beyond what is published, and what   *)
(* it is about to write fits, by the tail of now as by the one it loaded.  *)
EnqueueInv ==
  \A p \in Producers :
    LET l == prod[p]
    IN  /\ l.pc \in {"loadTail", "copy", "publish"} => l.h = head
        /\ l.pc \in {"copy", "publish"} =>
             /\ Published + Total(l.m.len) - Released < BlockSize
             /\ l.k <= Total(l.m.len)
             /\ \A i \in 0 .. l.k - 1 :
                  block[(Published + i) % BlockSize] = FrameCell(l.m, i)
        /\ l.pc = "publish" => l.k = Total(l.m.len)

(* What the consumer has read is the beginning of the oldest frame in the  *)
(* ring, all of which it may read; the head it loaded ends some frame.     *)
DequeueInv ==
  \A c \in Consumers :
    LET l == cons[c]
        m == sent[Len(rcvd) + 1]
    IN  /\ l.pc = "loadTail" =>
             \E j \in Len(rcvd) + 1 .. Len(start) : l.h = start[j] % BlockSize
        /\ l.pc \in {"header", "check", "body", "trailer", "release"} =>
             /\ l.t = tail
             /\ Len(rcvd) < Len(sent)
             /\ Total(m.len) <= Readable(l.h, l.t)
             /\ Len(l.buf) <= Total(m.len)
             /\ \A i \in 1 .. Len(l.buf) : l.buf[i] = FrameCell(m, i - 1)
        /\ l.pc \in {"body", "trailer", "release"} => l.n = m.len
        /\ l.res \notin DequeueErrors
        /\ l.pc # "exited"

RingInv == MemInv /\ HistoryInv /\ UnreadIntact /\ EnqueueInv /\ DequeueInv

(* dequeue reports no damaged frame and never ends the process.            *)
DequeueNeverFails ==
  \A c \in Consumers : cons[c].res \notin DequeueErrors /\ cons[c].pc # "exited"

(* enqueue refuses a message only when the frames that are not released    *)
(* really leave too little room at that moment (cshmcommu.cpp:83-96).      *)
RefusedOnlyWhenFull ==
  [][\A p \in Producers :
       /\ prod[p].pc = "loadTail"
       /\ prod'[p].pc = "idle" /\ prod'[p].res = "NOSPACE"
       => Total(prod[p].m.len) > BlockSize - 1 - (Published - Released)]_vars

(* The counters of the segment are those of the ring, up to the calls that *)
(* have moved an index and not yet counted; a count below zero wraps.      *)
CountersSettle ==
  LET counting == {p \in Producers : prod[p].pc = "count"}
      uncounting == {c \in Consumers : cons[c].pc = "uncount"}
      handling == {c \in Consumers : cons[c].pc \in {"uncount", "history"}}
  IN  /\ currMsgNum = (Len(sent) - Cardinality(counting)
                       - (Len(rcvd) - Cardinality(uncounting))) % WordSize
      /\ historyMsgNum = (Len(rcvd) - Cardinality(handling)) % WordSize

(* The ring implements the channel: what dequeue delivers is what enqueue  *)
(* published, whole, once, in order.                                       *)
Ch == INSTANCE Channel WITH Message <- Msg
ChannelSpec == Ch!Spec

(* The SPPX check judges whether a message is whole (cshmcommu.h:45): what *)
(* dequeue delivers is a message that was sent.                            *)
DeliveredWhole == \A i \in 1 .. Len(rcvd) : rcvd[i] # NoMsg

=============================================================================

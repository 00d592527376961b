--------------------------- MODULE ShmRingProofs ---------------------------
(***************************************************************************)
(* Theorems about ShmRing for every block size, every width of the fields  *)
(* of a frame and every set of message lengths: of any number of producers *)
(* and consumers, that every access to memory is safe and that the atomic  *)
(* counters add up; of one producer and one consumer, that the ring        *)
(* implements a FIFO channel; and of ShmRestart, that every access stays   *)
(* safe when processes are killed at any point and reset the ring under    *)
(* their peers.                                                            *)
(***************************************************************************)
EXTENDS ShmRestart, Lemmas, FiniteSetTheorems, TLAPS

LEMMA Lens == HeaderLen \in Nat /\ SafeLen < HeaderLen
              /\ SafeLen + SeqLen < HeaderLen
              /\ \A n \in Nat : Total(n) \in Nat /\ HeaderLen + n < Total(n)
  BY RingAssumption DEF HeaderLen, Total

-----------------------------------------------------------------------------
(* The arithmetic on the indices.                                          *)

LEMMA IndexArithmetic ==
  ASSUME NEW h \in Index, NEW t \in Index
  PROVE  /\ Free(h, t) \in 0 .. BlockSize - 1
         /\ Readable(h, t) \in 0 .. BlockSize
         /\ Free(h, t) = IF h >= t THEN BlockSize - 1 - (h - t) ELSE t - h - 1
  BY RingAssumption, SMT DEF Index, Free, Readable

(* As long as the frame fits between the indices that enqueue loaded, its  *)
(* byte k goes k cells beyond head, wrapping at the end of the block: in   *)
(* each of the cases of cshmcommu.cpp:98-190.                              *)
LEMMA WriteAddress ==
  ASSUME NEW h \in Index, NEW t \in Index, NEW k \in Nat, k < Free(h, t)
  PROVE  /\ WriteAddr(h, t, k) = IF h + k < BlockSize THEN h + k
                                                      ELSE h + k - BlockSize
         /\ WriteAddr(h, t, k) \in Index
  BY RingAssumption, SMT DEF Index, Free, FreeLine, WriteAddr

(* Likewise dequeue loads byte k from k cells beyond tail                  *)
(* (cshmcommu.cpp:227-379).                                                *)
LEMMA ReadAddress ==
  ASSUME NEW h \in Index, NEW t \in Index, NEW k \in Nat, k < Readable(h, t)
  PROVE  /\ ReadAddr(h, t, k) = IF t + k < BlockSize THEN t + k
                                                     ELSE t + k - BlockSize
         /\ ReadAddr(h, t, k) \in Index
  BY RingAssumption, SMT DEF Index, Readable, ReadLine, ReadAddr

LEMMA Cells ==
  /\ NoMsg \notin Msg
  /\ Blank \in Cell
  /\ \A m \in Msg, k \in Nat : FrameCell(m, k) \in Cell
  /\ \A m \in Msg : m.len \in Nat /\ m.len \in BodyLens
<1>1. NoMsg \notin Msg
  BY SMT DEF NoMsg, Msg
<1>2. Blank \in Cell
  BY RingAssumption, SMT DEF Blank, Cell
<1>3. ASSUME NEW m \in Msg
      PROVE  m.len \in Nat /\ m.len \in BodyLens
  <2>1. m.len \in BodyLens
    BY DEF Msg
  <2>2. BodyLens \subseteq Nat
    BY RingAssumption
  <2> QED
    BY <2>1, <2>2
<1>4. ASSUME NEW m \in Msg, NEW k \in Nat
      PROVE  FrameCell(m, k) \in Cell
  <2>1. HeaderLen + m.len \in Nat
    BY Lens, <1>3
  <2> QED
    BY <2>1, RingAssumption, SMT DEF FrameCell, Magic, Cell
<1> QED
  BY <1>1, <1>2, <1>3, <1>4

(* The counters are words.                                                 *)
LEMMA Words ==
  ASSUME NEW x \in Int
  PROVE  x % WordSize \in Word
<1>1. WordSize \in Nat \ {0}
  BY RingAssumption, Lens, SMT
<1> QED
  BY <1>1, ModDef DEF Word

LEMMA Indices ==
  ASSUME NEW x \in Int
  PROVE  x % BlockSize \in Index
  BY RingAssumption, ModDef DEF Index

-----------------------------------------------------------------------------
(* MemInv is inductive.                                                    *)

LEMMA MemInit == Init => MemInv
<1> SUFFICES ASSUME Init PROVE MemInv
  OBVIOUS
<1> USE DEF Init
<1>1. 0 \in Index /\ 0 \in Word /\ 0 \in 0 .. BuffSize
  BY RingAssumption, Lens, SMTT(20) DEF Index, Word
<1>2. IdleProducer \in ProducerLocals
  BY <1>1 DEF IdleProducer, ProducerLocals
<1>3. IdleConsumer \in ConsumerLocals
  BY <1>1 DEF IdleConsumer, ConsumerLocals
<1>4. start \in Seq(Nat) /\ Len(start) = 1 /\ Len(sent) = 0
  OBVIOUS
<1>5. TypeOK
  <2>1. block \in [Index -> Cell]
    BY Cells DEF Index
  <2>2. nextId \in 1 .. MaxMsgs + 1
    BY RingAssumption
  <2>3. sent \in Seq(Msg) /\ rcvd \in Seq(Msg \cup {NoMsg})
    OBVIOUS
  <2> QED
    BY <1>1, <1>2, <1>3, <1>4, <2>1, <2>2, <2>3 DEF TypeOK
<1>6. CopyFits
  BY DEF CopyFits, IdleProducer
<1>7. FetchFits
  BY DEF FetchFits, IdleConsumer
<1> QED
  BY <1>5, <1>6, <1>7 DEF MemInv

(* A call returns: its process is idle again, with a result.               *)
LEMMA EnqueueReturnsType ==
  ASSUME TypeOK, CopyFits, NEW p \in Producers,
         NEW r \in {"none", "SUCCESS"} \cup EnqueueErrors, EnqueueReturns(p, r)
  PROVE  prod' \in [Producers -> ProducerLocals] /\ CopyFits'
<1>1. 0 \in Index
  BY RingAssumption, SMT DEF Index
<1>2. [IdleProducer EXCEPT !.res = r] \in ProducerLocals
  BY <1>1 DEF IdleProducer, ProducerLocals
<1> QED
  BY <1>2 DEF TypeOK, CopyFits, EnqueueReturns, IdleProducer

LEMMA DequeueReturnsType ==
  ASSUME TypeOK, FetchFits, NEW c \in Consumers,
         NEW r \in {"none", "SUCCESS", "EMPTY"} \cup DequeueErrors,
         DequeueReturns(c, r)
  PROVE  cons' \in [Consumers -> ConsumerLocals] /\ FetchFits'
<1>1. 0 \in Index /\ 0 \in 0 .. BuffSize /\ <<>> \in Seq(Cell)
  BY RingAssumption, SMT DEF Index
<1>2. [IdleConsumer EXCEPT !.res = r] =
        [pc |-> "idle", h |-> 0, t |-> 0, buf |-> <<>>, n |-> 0, res |-> r]
  BY DEF IdleConsumer
<1>3. [IdleConsumer EXCEPT !.res = r] \in ConsumerLocals
  BY <1>1, <1>2 DEF ConsumerLocals
<1> QED
  BY <1>2, <1>3 DEF TypeOK, FetchFits, DequeueReturns

LEMMA EnqueueStep ==
  ASSUME MemInv, NEW p \in Producers, Enqueue(p)
  PROVE  MemInv'
<1> USE DEF MemInv
<1>1. CASE EnqLoadHead(p)
  <2> USE <1>1 DEF EnqLoadHead, shared
  <2>1. PICK n \in BodyLens :
          prod' = [prod EXCEPT ![p] =
                    [pc |-> "loadTail", h |-> head, t |-> 0,
                     m |-> [id |-> nextId, len |-> n], k |-> 0, res |-> "none"]]
    OBVIOUS
  <2>2. [id |-> nextId, len |-> n] \in Msg
    BY RingAssumption, SMT DEF TypeOK, Msg
  <2>3. 0 \in Index
    BY RingAssumption, SMT DEF Index
  <2>4. prod' \in [Producers -> ProducerLocals]
    BY <2>1, <2>2, <2>3 DEF TypeOK, ProducerLocals
  <2>5. nextId' \in 1 .. MaxMsgs + 1
    BY RingAssumption, SMT DEF TypeOK
  <2>6. TypeOK'
    BY <2>4, <2>5 DEF TypeOK
  <2>7. CopyFits'
    BY <2>1, <2>2 DEF CopyFits, TypeOK
  <2>8. FetchFits'
    BY DEF FetchFits
  <2> QED
    BY <2>6, <2>7, <2>8
<1>2. CASE EnqLoadTail(p)
  <2> USE <1>2 DEF EnqLoadTail, shared, history
  <2>1. prod' \in [Producers -> ProducerLocals] /\ CopyFits'
    <3>1. CASE Total(prod[p].m.len) > Free(prod[p].h, tail)
      BY <3>1, EnqueueReturnsType DEF EnqueueErrors
    <3>2. CASE ~(Total(prod[p].m.len) > Free(prod[p].h, tail))
      <4>1. prod' = [prod EXCEPT ![p].pc = "copy", ![p].t = tail]
        BY <3>2
      <4>2. /\ prod[p] \in ProducerLocals /\ tail \in Index
            /\ prod[p].m \in Msg /\ prod[p].k = 0
        BY DEF TypeOK, CopyFits
      <4>3. /\ Free(prod[p].h, tail) \in Nat
            /\ Total(prod[p].m.len) \in Nat /\ 0 < Total(prod[p].m.len)
        BY <4>2, IndexArithmetic, Lens, Cells, SMT DEF ProducerLocals
      <4>4. prod' \in [Producers -> ProducerLocals]
        BY <4>1, <4>2 DEF TypeOK, ProducerLocals
      <4>5. /\ prod'[p].m = prod[p].m /\ prod'[p].k = 0
            /\ prod'[p].h = prod[p].h /\ prod'[p].t = tail
            /\ prod'[p].pc = "copy"
            /\ \A q \in Producers : q # p => prod'[q] = prod[q]
        BY <4>1, <4>2 DEF TypeOK, ProducerLocals
      <4>6. Total(prod[p].m.len) <= Free(prod[p].h, tail)
        BY <3>2, <4>3, SMT
      <4>7. CopyFits'
        BY <4>2, <4>3, <4>5, <4>6 DEF CopyFits
      <4> QED
        BY <4>4, <4>7
    <3> QED
      BY <3>1, <3>2
  <2>2. TypeOK'
    BY <2>1 DEF TypeOK
  <2>3. FetchFits'
    BY DEF FetchFits
  <2> QED
    BY <2>1, <2>2, <2>3
<1>3. CASE EnqCopy(p)
  <2> USE <1>3 DEF EnqCopy, history
  <2>1. /\ prod[p] \in ProducerLocals /\ prod[p].pc = "copy"
        /\ prod[p].m \in Msg /\ prod[p].k \in Nat
        /\ prod[p].k < Total(prod[p].m.len)
    BY DEF TypeOK, CopyFits, ProducerLocals
  <2>2. FrameCell(prod[p].m, prod[p].k) \in Cell
    BY <2>1, Cells
  <2>3. block' \in [Index -> Cell]
    BY <2>2 DEF TypeOK
  <2>4. /\ Total(prod[p].m.len) \in Nat
        /\ prod[p].k + 1 \in Nat
    BY <2>1, Lens, Cells
  <2>5. prod' \in [Producers -> ProducerLocals]
    BY <2>1, <2>4 DEF TypeOK, ProducerLocals
  <2>6. TypeOK'
    BY <2>3, <2>5 DEF TypeOK
  <2>7. /\ prod'[p].m = prod[p].m /\ prod'[p].k = prod[p].k + 1
        /\ prod'[p].h = prod[p].h /\ prod'[p].t = prod[p].t
        /\ prod'[p].pc = IF prod[p].k + 1 < Total(prod[p].m.len)
                         THEN "copy" ELSE "publish"
        /\ \A q \in Producers : q # p => prod'[q] = prod[q]
    BY <2>1 DEF TypeOK, ProducerLocals
  <2>8. CopyFits'
    <3>1. ASSUME prod'[p].pc = "copy"
          PROVE  /\ prod'[p].k < Total(prod'[p].m.len)
                 /\ Total(prod'[p].m.len) <= Free(prod'[p].h, prod'[p].t)
      BY <2>1, <2>7, <3>1 DEF CopyFits
    <3>2. prod'[p].m \in Msg /\ prod'[p].pc # "loadTail"
      BY <2>1, <2>7
    <3> QED
      BY <2>7, <3>1, <3>2 DEF CopyFits
  <2>9. FetchFits'
    BY DEF FetchFits
  <2> QED
    BY <2>6, <2>8, <2>9
<1>4. CASE EnqPublish(p)
  <2> USE <1>4 DEF EnqPublish
  <2>1. /\ prod[p] \in ProducerLocals /\ prod[p].m \in Msg
        /\ prod[p].h \in Nat /\ Total(prod[p].m.len) \in Nat
    BY Lens, Cells, SMTT(20) DEF TypeOK, CopyFits, ProducerLocals, Index
  <2>2. head' \in Index
    BY <2>1, Indices
  <2>3. prod' \in [Producers -> ProducerLocals]
    BY ZenonT(40) DEF TypeOK, ProducerLocals
  <2>4. sent' \in Seq(Msg) /\ Len(sent') = Len(sent) + 1
    BY <2>1 DEF TypeOK
  <2>5. Len(start) \in 1 .. Len(start) /\ start[Len(start)] \in Nat
    BY DEF TypeOK
  <2>6. start' \in Seq(Nat) /\ Len(start') = Len(start) + 1
    BY <2>1, <2>5, SMTT(20) DEF TypeOK
  <2>7. TypeOK'
    BY <2>2, <2>3, <2>4, <2>6 DEF TypeOK
  <2>8. CopyFits'
    BY <2>1 DEF CopyFits, TypeOK
  <2>9. FetchFits'
    BY DEF FetchFits
  <2> QED
    BY <2>7, <2>8, <2>9
<1>5. CASE EnqCount(p)
  <2> USE <1>5 DEF EnqCount, history
  <2>1. currMsgNum' \in Word
    BY Words DEF TypeOK, Word
  <2>2. prod' \in [Producers -> ProducerLocals] /\ CopyFits'
    BY EnqueueReturnsType
  <2>3. TypeOK'
    BY <2>1, <2>2 DEF TypeOK
  <2>4. FetchFits'
    BY DEF FetchFits
  <2> QED
    BY <2>2, <2>3, <2>4
<1> QED
  BY <1>1, <1>2, <1>3, <1>4, <1>5 DEF Enqueue

LEMMA LoadByteType ==
  ASSUME TypeOK, NEW c \in Consumers,
         Len(cons[c].buf) < Readable(cons[c].h, cons[c].t)
  PROVE  /\ LoadByte(c) \in Seq(Cell)
         /\ Len(LoadByte(c)) = Len(cons[c].buf) + 1
<1>1. /\ cons[c].h \in Index /\ cons[c].t \in Index
      /\ cons[c].buf \in Seq(Cell)
  BY DEF TypeOK, ConsumerLocals
<1>2. ReadAddr(cons[c].h, cons[c].t, Len(cons[c].buf)) \in Index
  BY <1>1, ReadAddress
<1>3. block[ReadAddr(cons[c].h, cons[c].t, Len(cons[c].buf))] \in Cell
  BY <1>2 DEF TypeOK
<1> QED
  BY <1>1, <1>3 DEF LoadByte

(* A decoded length is a number; one that passes the two comparisons of    *)
(* dequeue is readable in full, although the total may have wrapped.       *)
LEMMA LenFieldType ==
  ASSUME NEW buf \in Seq(Cell), Len(buf) = HeaderLen, NEW n \in LenField(buf)
  PROVE  n \in Nat
<1>1. SafeLen + SeqLen + 1 \in 1 .. Len(buf)
  BY RingAssumption, Lens, SMT
<1>2. buf[SafeLen + SeqLen + 1] \in Cell
  BY <1>1
<1>3. TornLens \subseteq Nat
  BY RingAssumption, SMT
<1> QED
  BY <1>2, <1>3, Cells DEF LenField, Cell

LEMMA TotalNoWrap ==
  ASSUME NEW n \in Nat, n <= BuffSize
  PROVE  Total(n) % WordSize = Total(n)
<1>1. Total(n) \in 0 .. WordSize - 1 /\ WordSize \in Nat \ {0}
  BY RingAssumption, Lens, SMT DEF Total
<1> QED
  BY <1>1, ModBelow

(* The steps of dequeue change only what dequeue owns.                     *)
LEMMA DequeueFrame ==
  ASSUME MemInv, UNCHANGED <<shared, prod, history>>,
         cons' \in [Consumers -> ConsumerLocals]
  PROVE  TypeOK' /\ CopyFits'
BY DEF MemInv, TypeOK, CopyFits, shared, history

LEMMA DequeueStep ==
  ASSUME MemInv, NEW c \in Consumers, Dequeue(c)
  PROVE  MemInv'
<1> USE DEF MemInv
<1> DEFINE l == cons[c]
           r == cons'[c]
<1>0. /\ l \in ConsumerLocals /\ l.h \in Index /\ l.t \in Index
      /\ l.buf \in Seq(Cell) /\ Len(l.buf) \in Nat /\ l.n \in Nat
      /\ Readable(l.h, l.t) \in Nat
  <2>1. l \in ConsumerLocals
    BY DEF TypeOK
  <2>2. /\ l.h \in Index /\ l.t \in Index
        /\ l.buf \in Seq(Cell) /\ l.n \in Nat
    BY <2>1 DEF ConsumerLocals
  <2>3. Readable(l.h, l.t) \in Nat
    BY <2>2, IndexArithmetic
  <2>4. Len(l.buf) \in Nat
    BY <2>2
  <2> QED
    BY <2>1, <2>2, <2>3, <2>4
<1>1. CASE DeqLoadHead(c)
  <2> USE <1>1 DEF DeqLoadHead
  <2>1. 0 \in Index /\ 0 \in 0 .. BuffSize /\ <<>> \in Seq(Cell)
    BY RingAssumption, SMT DEF Index
  <2>2. [pc |-> "loadTail", h |-> head, t |-> 0, buf |-> <<>>, n |-> 0,
         res |-> "none"] \in ConsumerLocals
    BY <2>1 DEF ConsumerLocals, TypeOK
  <2>3. cons' \in [Consumers -> ConsumerLocals]
    BY <2>2 DEF TypeOK
  <2>4. FetchFits'
    BY DEF FetchFits, TypeOK
  <2> QED
    BY <2>3, <2>4, DequeueFrame
<1>2. CASE DeqLoadTail(c)
  <2> USE <1>2 DEF DeqLoadTail
  <2>1. CASE l.h = tail
    BY <2>1, DequeueReturnsType, DequeueFrame
  <2>2. CASE l.h # tail /\ Readable(l.h, tail) < HeaderLen
    BY <2>2, DequeueReturnsType, DequeueFrame DEF DequeueErrors
  <2>3. CASE l.h # tail /\ ~(Readable(l.h, tail) < HeaderLen)
    <3>1. cons' = [cons EXCEPT ![c].pc = "header", ![c].t = tail]
      BY <2>3
    <3>2. cons' \in [Consumers -> ConsumerLocals]
      BY <3>1, <1>0 DEF TypeOK, ConsumerLocals
    <3>3. /\ r.pc = "header" /\ r.t = tail /\ r.h = l.h /\ r.buf = <<>>
          /\ \A d \in Consumers : d # c => cons'[d] = cons[d]
      BY <3>1, <1>0 DEF TypeOK, ConsumerLocals, FetchFits
    <3>4. HeaderLen <= Readable(l.h, tail) /\ Len(r.buf) < HeaderLen
      <4>1. Readable(l.h, tail) \in Nat
        <5>1. tail \in Index
          BY DEF TypeOK
        <5>2. Readable(l.h, tail) \in 0 .. BlockSize
          BY <1>0, <5>1, IndexArithmetic
        <5> QED
          BY <5>2, SMT
      <4>2. Len(r.buf) = 0 /\ HeaderLen \in Nat /\ HeaderLen # 0
        BY <3>3, Lens, RingAssumption, SMT DEF HeaderLen
      <4> QED
        BY <2>3, <4>1, <4>2, SMT
    <3>5. FetchFits'
      BY <3>3, <3>4 DEF FetchFits
    <3> QED
      BY <3>2, <3>5, DequeueFrame
  <2> QED
    BY <2>1, <2>2, <2>3
<1>3. CASE DeqHeader(c)
  <2> USE <1>3 DEF DeqHeader
  <2>1. Len(l.buf) < HeaderLen /\ HeaderLen <= Readable(l.h, l.t)
    BY DEF FetchFits
  <2>2. /\ LoadByte(c) \in Seq(Cell)
        /\ Len(LoadByte(c)) = Len(l.buf) + 1
    BY <2>1, <1>0, Lens, LoadByteType
  <2>3. cons' \in [Consumers -> ConsumerLocals]
    BY <2>2, <1>0 DEF TypeOK, ConsumerLocals
  <2>4. /\ r.pc = IF Len(l.buf) + 1 < HeaderLen THEN "header" ELSE "check"
        /\ r.t = l.t /\ r.h = l.h /\ r.buf = LoadByte(c)
        /\ \A d \in Consumers : d # c => cons'[d] = cons[d]
    BY <1>0 DEF TypeOK, ConsumerLocals
  <2>5. /\ r.pc = "header" => Len(r.buf) < HeaderLen
        /\ r.pc = "check" => Len(r.buf) = HeaderLen
        /\ r.pc \in {"header", "check"}
        /\ HeaderLen <= Readable(r.h, r.t)
    BY <2>1, <2>2, <2>4, <1>0, Lens, SMT
  <2>6. FetchFits'
    BY <2>4, <2>5, ZenonT(40) DEF FetchFits
  <2> QED
    BY <2>3, <2>6, DequeueFrame
<1>4. CASE DeqCheck(c)
  <2> USE <1>4 DEF DeqCheck
  <2>1. CASE ~HasMagic(l.buf, 0)
    BY <2>1, DequeueReturnsType, DequeueFrame DEF DequeueErrors
  <2>2. CASE HasMagic(l.buf, 0)
    <3>1. PICK n \in LenField(l.buf) :
            IF Readable(l.h, l.t) < Total(n) % WordSize \/ BuffSize < n
            THEN DequeueReturns(c, "SPACEERR")
            ELSE cons' = [cons EXCEPT ![c].pc = "body", ![c].n = n]
      BY <2>2
    <3>2. n \in Nat /\ Len(l.buf) = HeaderLen
      BY <1>0, LenFieldType DEF FetchFits
    <3>3. CASE Readable(l.h, l.t) < Total(n) % WordSize \/ BuffSize < n
      BY <3>1, <3>3, DequeueReturnsType, DequeueFrame DEF DequeueErrors
    <3>4. CASE ~(Readable(l.h, l.t) < Total(n) % WordSize \/ BuffSize < n)
      <4>1. n <= BuffSize /\ n \in 0 .. BuffSize
        BY <3>2, <3>4, RingAssumption, SMT
      <4>2. Total(n) <= Readable(l.h, l.t)
        BY <1>0, <3>2, <3>4, <4>1, TotalNoWrap, Lens, SMT
      <4>3. cons' = [cons EXCEPT ![c].pc = "body", ![c].n = n]
        BY <3>1, <3>4
      <4>4. cons' \in [Consumers -> ConsumerLocals]
        BY <4>1, <4>3, <1>0 DEF TypeOK, ConsumerLocals
      <4>5. /\ r.pc = "body" /\ r.t = l.t /\ r.h = l.h /\ r.buf = l.buf
            /\ r.n = n /\ \A d \in Consumers : d # c => cons'[d] = cons[d]
        BY <4>3, <1>0 DEF TypeOK, ConsumerLocals
      <4>6. HeaderLen <= Len(l.buf) /\ Len(l.buf) < Total(n)
        BY <3>2, Lens, SMT
      <4>7. FetchFits'
        BY <4>2, <4>5, <4>6 DEF FetchFits
      <4> QED
        BY <4>4, <4>7, DequeueFrame
    <3> QED
      BY <3>3, <3>4
  <2> QED
    BY <2>1, <2>2
<1>5. CASE DeqBody(c)
  <2> USE <1>5 DEF DeqBody
  <2>1. /\ HeaderLen <= Len(l.buf) /\ Len(l.buf) < Total(l.n)
        /\ Total(l.n) <= Readable(l.h, l.t)
    BY DEF FetchFits
  <2>2. /\ LoadByte(c) \in Seq(Cell)
        /\ Len(LoadByte(c)) = Len(l.buf) + 1
    BY <2>1, <1>0, Lens, LoadByteType
  <2>3. cons' \in [Consumers -> ConsumerLocals]
    BY <2>2, <1>0 DEF TypeOK, ConsumerLocals
  <2>4. /\ r.pc = IF Len(l.buf) + 1 < Total(l.n) THEN "body" ELSE "trailer"
        /\ r.t = l.t /\ r.h = l.h /\ r.buf = LoadByte(c) /\ r.n = l.n
        /\ \A d \in Consumers : d # c => cons'[d] = cons[d]
    BY <1>0 DEF TypeOK, ConsumerLocals
  <2>5. /\ r.pc = "body" => HeaderLen <= Len(r.buf) /\ Len(r.buf) < Total(r.n)
        /\ r.pc = "trailer" => Len(r.buf) = Total(r.n)
        /\ r.pc \in {"body", "trailer"}
        /\ Total(r.n) <= Readable(r.h, r.t)
    BY <2>1, <2>2, <2>4, <1>0, Lens, SMTT(20)
  <2>6. FetchFits'
    BY <2>4, <2>5, ZenonT(40) DEF FetchFits
  <2> QED
    BY <2>3, <2>6, DequeueFrame
<1>6. CASE DeqTrailer(c)
  <2> USE <1>6 DEF DeqTrailer
  <2>1. CASE DequeueReturns(c, "BADSPPX_2")
    BY <2>1, DequeueReturnsType, DequeueFrame DEF DequeueErrors
  <2>2. ASSUME NEW to \in {"release", "exited"},
               cons' = [cons EXCEPT ![c].pc = to]
        PROVE  MemInv'
    <3>1. cons' \in [Consumers -> ConsumerLocals]
      BY <2>2, <1>0 DEF TypeOK, ConsumerLocals
    <3>2. FetchFits'
      BY <2>2, <1>0 DEF TypeOK, ConsumerLocals, FetchFits
    <3> QED
      BY <3>1, <3>2, DequeueFrame
  <2> QED
    BY <2>1, <2>2
<1>7. CASE DeqRelease(c)
  <2> USE <1>7 DEF DeqRelease
  <2>1. tail' \in Index
    BY <1>0, Lens, Indices DEF Index
  <2>2. cons' \in [Consumers -> ConsumerLocals]
    BY <1>0 DEF TypeOK, ConsumerLocals
  <2>3. Delivered(l.buf) \in Msg \cup {NoMsg}
    <3>1. Len(l.buf) = Total(l.n)
      BY DEF FetchFits
    <3>2. SafeLen + 1 \in 1 .. Len(l.buf)
      <4>1. HeaderLen + l.n < Len(l.buf)
        BY <1>0, <3>1, Lens
      <4>2. HeaderLen \in Nat /\ SafeLen \in Nat /\ SafeLen < HeaderLen
        BY Lens, RingAssumption
      <4> QED
        BY <1>0, <4>1, <4>2, SMT
    <3>3. l.buf[SafeLen + 1] \in Cell
      BY <1>0, <3>2
    <3> QED
      BY <3>3 DEF Delivered, Cell
  <2>4. rcvd' \in Seq(Msg \cup {NoMsg})
    BY <2>3 DEF TypeOK
  <2>5. TypeOK' /\ CopyFits'
    BY <2>1, <2>2, <2>4 DEF TypeOK, CopyFits
  <2>6. FetchFits'
    BY <1>0 DEF TypeOK, ConsumerLocals, FetchFits
  <2> QED
    BY <2>5, <2>6
<1>8. CASE DeqUncount(c)
  <2> USE <1>8 DEF DeqUncount, history
  <2>1. currMsgNum + WordSize - 1 \in Int
    BY RingAssumption, SMTT(20) DEF TypeOK, Word
  <2>2. currMsgNum' \in Word
    BY <2>1, Words
  <2>3. cons' \in [Consumers -> ConsumerLocals]
    BY <1>0 DEF TypeOK, ConsumerLocals
  <2>4. TypeOK' /\ CopyFits'
    BY <2>2, <2>3 DEF TypeOK, CopyFits
  <2>5. FetchFits'
    BY <1>0 DEF TypeOK, ConsumerLocals, FetchFits
  <2> QED
    BY <2>4, <2>5
<1>9. CASE DeqHistory(c)
  <2> USE <1>9 DEF DeqHistory, history
  <2>1. historyMsgNum' \in Word
    BY Words DEF TypeOK, Word
  <2>2. cons' \in [Consumers -> ConsumerLocals] /\ FetchFits'
    BY DequeueReturnsType
  <2>3. TypeOK' /\ CopyFits'
    BY <2>1, <2>2 DEF TypeOK, CopyFits
  <2> QED
    BY <2>2, <2>3
<1> QED
  BY <1>1, <1>2, <1>3, <1>4, <1>5, <1>6, <1>7, <1>8, <1>9 DEF Dequeue

LEMMA MemStutter == MemInv /\ UNCHANGED vars => MemInv'
BY DEF MemInv, TypeOK, CopyFits, FetchFits, vars

LEMMA MemNext == MemInv /\ [Next]_vars => MemInv'
BY EnqueueStep, DequeueStep, MemStutter DEF Next

LEMMA MemInvSafe == MemInv => MemorySafe
<1> SUFFICES ASSUME MemInv PROVE MemorySafe
  OBVIOUS
<1> USE DEF MemInv
<1>1. ASSUME NEW p \in Producers, prod[p].pc = "copy"
      PROVE  WriteAddr(prod[p].h, prod[p].t, prod[p].k) \in 0 .. BlockSize - 1
  <2>1. /\ prod[p] \in ProducerLocals /\ prod[p].m \in Msg
        /\ prod[p].k < Total(prod[p].m.len)
        /\ Total(prod[p].m.len) <= Free(prod[p].h, prod[p].t)
    BY <1>1 DEF TypeOK, CopyFits
  <2>2. /\ prod[p].h \in Index /\ prod[p].t \in Index /\ prod[p].k \in Nat
        /\ Total(prod[p].m.len) \in Nat
    BY <2>1, Lens, Cells DEF ProducerLocals
  <2>3. prod[p].k < Free(prod[p].h, prod[p].t)
    BY <2>1, <2>2, IndexArithmetic, SMT
  <2> QED
    BY <2>2, <2>3, WriteAddress DEF Index
<1>2. ASSUME NEW c \in Consumers, cons[c].pc \in {"header", "body"}
      PROVE  ReadAddr(cons[c].h, cons[c].t, Len(cons[c].buf)) \in 0 .. BlockSize - 1
  <2>1. /\ cons[c].h \in Index /\ cons[c].t \in Index
        /\ Len(cons[c].buf) \in Nat /\ cons[c].n \in Nat
    BY DEF TypeOK, ConsumerLocals
  <2>2. /\ Readable(cons[c].h, cons[c].t) \in Nat
        /\ HeaderLen \in Nat
    <3>1. Readable(cons[c].h, cons[c].t) \in 0 .. BlockSize
      BY <2>1, IndexArithmetic
    <3> QED
      BY <3>1, Lens, SMT
  <2>3. CASE cons[c].pc = "header"
    <3>1. /\ Len(cons[c].buf) < HeaderLen
          /\ HeaderLen <= Readable(cons[c].h, cons[c].t)
      BY <2>3 DEF FetchFits
    <3>2. Len(cons[c].buf) < Readable(cons[c].h, cons[c].t)
      BY <2>1, <2>2, <3>1, SMT
    <3> QED
      BY <2>1, <3>2, ReadAddress DEF Index
  <2>4. CASE cons[c].pc = "body"
    <3>1. /\ Len(cons[c].buf) < Total(cons[c].n)
          /\ Total(cons[c].n) <= Readable(cons[c].h, cons[c].t)
      BY <2>4 DEF FetchFits
    <3>2. Total(cons[c].n) \in Nat
      BY <2>1, Lens
    <3>3. Len(cons[c].buf) < Readable(cons[c].h, cons[c].t)
      BY <2>1, <2>2, <3>1, <3>2, SMT
    <3> QED
      BY <2>1, <3>3, ReadAddress DEF Index
  <2> QED
    BY <1>2, <2>3, <2>4
<1>3. ASSUME NEW c \in Consumers, cons[c].pc \in {"trailer", "release"}
      PROVE  Len(cons[c].buf) <= Total(BuffSize)
  <2>1. cons[c].n \in 0 .. BuffSize /\ Len(cons[c].buf) = Total(cons[c].n)
    BY <1>3 DEF TypeOK, ConsumerLocals, FetchFits
  <2> QED
    BY <2>1, RingAssumption, Lens, SMT DEF Total
<1> QED
  BY <1>1, <1>2, <1>3 DEF MemorySafe

(* Type correctness, and the safety of every access to memory, for any     *)
(* number of producers and consumers.                                      *)
THEOREM TypeCorrect == Spec => []TypeOK
<1>1. Init => MemInv
  BY MemInit
<1>2. MemInv /\ [Next]_vars => MemInv'
  BY MemNext
<1>3. MemInv => TypeOK
  BY DEF MemInv
<1> QED
  BY <1>1, <1>2, <1>3, PTL DEF Spec

THEOREM AccessesSafe == Spec => []MemorySafe
<1>1. Init => MemInv
  BY MemInit
<1>2. MemInv /\ [Next]_vars => MemInv'
  BY MemNext
<1>3. MemInv => MemorySafe
  BY MemInvSafe
<1> QED
  BY <1>1, <1>2, <1>3, PTL DEF Spec

-----------------------------------------------------------------------------
(* The counters, which are atomic: whatever the callers do to each         *)
(* other's messages, they add up.                                          *)
Counting == {p \in Producers : prod[p].pc = "count"}
Uncounting == {c \in Consumers : cons[c].pc = "uncount"}
Handling == {c \in Consumers : cons[c].pc \in {"uncount", "history"}}

Balance ==
  Len(sent) - Cardinality(Counting) - (Len(rcvd) - Cardinality(Uncounting))
Handled == Len(rcvd) - Cardinality(Handling)

LEMMA SettleMeans ==
  CountersSettle <=> /\ currMsgNum = Balance % WordSize
                     /\ historyMsgNum = Handled % WordSize
BY DEF CountersSettle, Balance, Handled, Counting, Uncounting, Handling

-----------------------------------------------------------------------------
(* Counts and remainders.                                                  *)
LEMMA CountOne ==
  ASSUME NEW S, IsFiniteSet(S), NEW A \in SUBSET S, NEW x \in S
  PROVE  /\ Cardinality(A) \in Nat
         /\ x \notin A => Cardinality(A \cup {x}) = Cardinality(A) + 1
         /\ x \in A => Cardinality(A \ {x}) = Cardinality(A) - 1
<1>1. IsFiniteSet(A)
  BY FS_Subset
<1> QED
  BY <1>1, FS_CardinalityType, FS_AddElement, FS_RemoveElement

(* To count up or down by one and to take the remainder commute.           *)
LEMMA ModNext ==
  ASSUME NEW B \in Nat \ {0}, NEW a \in Int
  PROVE  /\ ((a % B) + 1) % B = (a + 1) % B
         /\ ((a % B) + B - 1) % B = (a - 1) % B
<1>1. a % B \in 0 .. B - 1 /\ a % B \in Int /\ (a - 1) % B \in 0 .. B - 1
  BY ModDef
<1>2. (a % B) % B = a % B
  BY <1>1, ModBelow
<1>3. ASSUME NEW d \in 0 .. B PROVE ((a % B) + d) % B = (a + d) % B
  <2>1. ((a % B) + d) % B =
           IF ((a % B) % B) + d < B THEN ((a % B) % B) + d ELSE ((a % B) % B) + d - B
    BY <1>1, ModShift
  <2>2. (a + d) % B = IF (a % B) + d < B THEN (a % B) + d ELSE (a % B) + d - B
    BY ModShift
  <2> QED
    BY <1>2, <2>1, <2>2
<1>4. ((a % B) + 1) % B = (a + 1) % B
  <2>1. 1 \in 0 .. B
    BY SMT
  <2> QED
    BY <1>3, <2>1
<1>5. ((a % B) + (B - 1)) % B = (a + (B - 1)) % B
  <2>1. B - 1 \in 0 .. B
    BY SMT
  <2> QED
    BY <1>3, <2>1
<1>6. ((a - 1) + B) % B = (a - 1) % B
  <2>1. a - 1 \in Int /\ B \in 0 .. B
    BY SMT
  <2>2. ((a - 1) + B) % B = IF ((a - 1) % B) + B < B THEN ((a - 1) % B) + B
                                                    ELSE ((a - 1) % B) + B - B
    BY <2>1, ModShift
  <2> QED
    BY <1>1, <2>2, SMT
<1>7. (a % B) + B - 1 = (a % B) + (B - 1) /\ (a - 1) + B = a + (B - 1)
  BY <1>1, SMT
<1> QED
  BY <1>4, <1>5, <1>6, <1>7

LEMMA CountTypes ==
  ASSUME TypeOK, IsFiniteSet(Producers), IsFiniteSet(Consumers)
  PROVE  /\ Cardinality(Counting) \in Nat
         /\ Cardinality(Uncounting) \in Nat
         /\ Cardinality(Handling) \in Nat
         /\ Len(sent) \in Nat /\ Len(rcvd) \in Nat
         /\ Balance \in Int /\ Handled \in Int
<1>1. /\ IsFiniteSet(Counting) /\ IsFiniteSet(Uncounting) /\ IsFiniteSet(Handling)
  <2>1. Counting \in SUBSET Producers /\ Uncounting \in SUBSET Consumers
        /\ Handling \in SUBSET Consumers
    BY DEF Counting, Uncounting, Handling
  <2> QED
    BY <2>1, FS_Subset
<1>2. /\ Cardinality(Counting) \in Nat
      /\ Cardinality(Uncounting) \in Nat
      /\ Cardinality(Handling) \in Nat
  BY <1>1, FS_CardinalityType
<1>3. Len(sent) \in Nat /\ Len(rcvd) \in Nat
  BY DEF TypeOK
<1> QED
  BY <1>2, <1>3, SMT DEF Balance, Handled

-----------------------------------------------------------------------------
(* A call of enqueue.                                                      *)
LEMMA EnqueueOthers ==
  ASSUME TypeOK, NEW p \in Producers, Enqueue(p)
  PROVE  /\ UNCHANGED <<cons, rcvd, historyMsgNum>>
         /\ \A q \in Producers : q # p => prod'[q] = prod[q]
BY DEF TypeOK, Enqueue, EnqLoadHead, EnqLoadTail, EnqCopy, EnqPublish, EnqCount,
       EnqueueReturns, shared, history

LEMMA EnqueueCounts ==
  ASSUME TypeOK, IsFiniteSet(Producers), IsFiniteSet(Consumers), CountersSettle,
         NEW p \in Producers, Enqueue(p)
  PROVE  CountersSettle'
<1>1. /\ Uncounting' = Uncounting /\ Handling' = Handling
      /\ UNCHANGED <<rcvd, historyMsgNum>>
      /\ \A q \in Producers : q # p => prod'[q] = prod[q]
  BY EnqueueOthers DEF Uncounting, Handling
<1>2. /\ currMsgNum = Balance % WordSize
      /\ historyMsgNum = Handled % WordSize
  BY SettleMeans
<1>3. SUFFICES currMsgNum' = Balance' % WordSize
  <2>1. historyMsgNum' = Handled' % WordSize
    BY <1>1, <1>2 DEF Handled
  <2>2. CountersSettle' <=> /\ currMsgNum' = Balance' % WordSize
                            /\ historyMsgNum' = Handled' % WordSize
    BY DEF CountersSettle, Balance, Handled, Counting, Uncounting, Handling
  <2> QED
    BY <2>1, <2>2
<1>4. CASE EnqLoadHead(p) \/ EnqLoadTail(p) \/ EnqCopy(p)
  <2>1. prod[p].pc # "count" /\ prod'[p].pc # "count"
        /\ UNCHANGED <<sent, currMsgNum>>
    BY <1>4 DEF TypeOK, ProducerLocals, EnqLoadHead, EnqLoadTail, EnqCopy,
                EnqueueReturns, IdleProducer, shared, history
  <2>2. Counting' = Counting
    BY <1>1, <2>1 DEF Counting
  <2> QED
    BY <1>1, <1>2, <2>1, <2>2 DEF Balance
<1>5. CASE EnqPublish(p)
  <2>1. /\ prod[p].pc # "count" /\ prod'[p].pc = "count"
        /\ currMsgNum' = currMsgNum /\ Len(sent') = Len(sent) + 1
    BY <1>5 DEF TypeOK, ProducerLocals, EnqPublish
  <2>2. Counting' = Counting \cup {p} /\ p \notin Counting
    BY <1>1, <2>1 DEF Counting
  <2>3. Cardinality(Counting') = Cardinality(Counting) + 1
    <3>1. Counting \in SUBSET Producers
      BY DEF Counting
    <3> QED
      BY <2>2, <3>1, CountOne
  <2>4. Balance' = Balance
    BY <1>1, <2>1, <2>3, CountTypes, SMT DEF Balance
  <2> QED
    BY <1>2, <2>1, <2>4
<1>6. CASE EnqCount(p)
  <2>1. /\ prod[p].pc = "count" /\ prod'[p].pc # "count"
        /\ currMsgNum' = (currMsgNum + 1) % WordSize /\ sent' = sent
    BY <1>6 DEF TypeOK, ProducerLocals, EnqCount, EnqueueReturns, IdleProducer,
                history
  <2>2. Counting' = Counting \ {p} /\ p \in Counting
    BY <1>1, <2>1 DEF Counting
  <2>3. Cardinality(Counting') = Cardinality(Counting) - 1
    <3>1. Counting \in SUBSET Producers
      BY DEF Counting
    <3> QED
      BY <2>2, <3>1, CountOne
  <2>4. Balance' = Balance + 1 /\ Balance \in Int
    BY <1>1, <2>1, <2>3, CountTypes, SMT DEF Balance
  <2>5. WordSize \in Nat \ {0}
    BY RingAssumption, Lens, SMT
  <2> QED
    BY <1>2, <2>1, <2>4, <2>5, ModNext
<1> QED
  BY <1>4, <1>5, <1>6 DEF Enqueue

-----------------------------------------------------------------------------
(* A call of dequeue.                                                      *)
LEMMA DequeueOthers ==
  ASSUME TypeOK, NEW c \in Consumers, Dequeue(c)
  PROVE  /\ UNCHANGED <<prod, sent>>
         /\ \A d \in Consumers : d # c => cons'[d] = cons[d]
BY DEF TypeOK, Dequeue, DeqLoadHead, DeqLoadTail, DeqHeader, DeqCheck, DeqBody,
       DeqTrailer, DeqRelease, DeqUncount, DeqHistory, DequeueReturns, shared,
       history

LEMMA DequeueCounts ==
  ASSUME TypeOK, IsFiniteSet(Producers), IsFiniteSet(Consumers), CountersSettle,
         NEW c \in Consumers, Dequeue(c)
  PROVE  CountersSettle'
<1>1. /\ Counting' = Counting /\ UNCHANGED sent
      /\ \A d \in Consumers : d # c => cons'[d] = cons[d]
  BY DequeueOthers DEF Counting
<1>2. /\ currMsgNum = Balance % WordSize
      /\ historyMsgNum = Handled % WordSize
  BY SettleMeans
<1>3. SUFFICES /\ currMsgNum' = Balance' % WordSize
               /\ historyMsgNum' = Handled' % WordSize
  BY DEF CountersSettle, Balance, Handled, Counting, Uncounting, Handling
<1>4. WordSize \in Nat \ {0}
  BY RingAssumption, Lens, SMT
<1>5. Uncounting \in SUBSET Consumers /\ Handling \in SUBSET Consumers
  BY DEF Uncounting, Handling
<1>6. CASE \/ DeqLoadHead(c) \/ DeqLoadTail(c) \/ DeqHeader(c)
           \/ DeqCheck(c) \/ DeqBody(c) \/ DeqTrailer(c)
  <2>1. /\ cons[c].pc \notin {"uncount", "history"}
        /\ cons'[c].pc \notin {"uncount", "history"}
        /\ UNCHANGED <<rcvd, currMsgNum, historyMsgNum>>
    <3>1. CASE DeqLoadHead(c)
      BY <3>1 DEF TypeOK, ConsumerLocals, DeqLoadHead, DequeueReturns,
                  IdleConsumer, shared, history
    <3>2. CASE DeqLoadTail(c)
      BY <3>2 DEF TypeOK, ConsumerLocals, DeqLoadTail, DequeueReturns,
                  IdleConsumer, shared, history
    <3>3. CASE DeqHeader(c)
      BY <3>3 DEF TypeOK, ConsumerLocals, DeqHeader, DequeueReturns,
                  IdleConsumer, shared, history
    <3>4. CASE DeqCheck(c)
      BY <3>4, ZenonT(40) DEF TypeOK, ConsumerLocals, DeqCheck, DequeueReturns,
                  IdleConsumer, shared, history
    <3>5. CASE DeqBody(c)
      BY <3>5 DEF TypeOK, ConsumerLocals, DeqBody, DequeueReturns,
                  IdleConsumer, shared, history
    <3>6. CASE DeqTrailer(c)
      BY <3>6 DEF TypeOK, ConsumerLocals, DeqTrailer, DequeueReturns,
                  IdleConsumer, shared, history
    <3> QED
      BY <1>6, <3>1, <3>2, <3>3, <3>4, <3>5, <3>6
  <2>2. Uncounting' = Uncounting /\ Handling' = Handling
    BY <1>1, <2>1 DEF Uncounting, Handling
  <2> QED
    BY <1>1, <1>2, <2>1, <2>2 DEF Balance, Handled
<1>7. CASE DeqRelease(c)
  <2>1. /\ cons[c].pc \notin {"uncount", "history"} /\ cons'[c].pc = "uncount"
        /\ UNCHANGED <<currMsgNum, historyMsgNum>> /\ Len(rcvd') = Len(rcvd) + 1
    BY <1>7 DEF TypeOK, ConsumerLocals, DeqRelease
  <2>2. /\ Uncounting' = Uncounting \cup {c} /\ c \notin Uncounting
        /\ Handling' = Handling \cup {c} /\ c \notin Handling
    BY <1>1, <2>1 DEF Uncounting, Handling
  <2>3. /\ Cardinality(Uncounting') = Cardinality(Uncounting) + 1
        /\ Cardinality(Handling') = Cardinality(Handling) + 1
    BY <1>5, <2>2, CountOne
  <2>4. Balance' = Balance
    BY <1>1, <2>1, <2>3, CountTypes, SMT DEF Balance
  <2>5. Handled' = Handled
    BY <2>1, <2>3, CountTypes, SMT DEF Handled
  <2> QED
    BY <1>2, <2>1, <2>4, <2>5
<1>8. CASE DeqUncount(c)
  <2>1. /\ cons[c].pc = "uncount" /\ cons'[c].pc = "history"
        /\ UNCHANGED <<historyMsgNum, rcvd>>
        /\ currMsgNum' = (currMsgNum + WordSize - 1) % WordSize
    BY <1>8 DEF TypeOK, ConsumerLocals, DeqUncount, history
  <2>2. /\ Uncounting' = Uncounting \ {c} /\ c \in Uncounting
        /\ Handling' = Handling
    BY <1>1, <2>1 DEF Uncounting, Handling
  <2>3. Cardinality(Uncounting') = Cardinality(Uncounting) - 1
    BY <1>5, <2>2, CountOne
  <2>4. Balance' = Balance - 1 /\ Handled' = Handled /\ Balance \in Int
    BY <1>1, <2>1, <2>2, <2>3, CountTypes, SMTT(20) DEF Balance, Handled
  <2> QED
    BY <1>2, <1>4, <2>1, <2>4, ModNext
<1>9. CASE DeqHistory(c)
  <2>1. /\ cons[c].pc = "history" /\ cons'[c].pc \notin {"uncount", "history"}
        /\ UNCHANGED <<currMsgNum, rcvd>>
        /\ historyMsgNum' = (historyMsgNum + 1) % WordSize
    BY <1>9 DEF TypeOK, ConsumerLocals, DeqHistory, DequeueReturns, IdleConsumer,
                history
  <2>2. /\ Uncounting' = Uncounting
        /\ Handling' = Handling \ {c} /\ c \in Handling
    BY <1>1, <2>1 DEF Uncounting, Handling
  <2>3. Cardinality(Handling') = Cardinality(Handling) - 1
    BY <1>5, <2>2, CountOne
  <2>4. Balance' = Balance /\ Handled' = Handled + 1 /\ Handled \in Int
    BY <1>1, <2>1, <2>2, <2>3, CountTypes, SMT DEF Balance, Handled
  <2> QED
    BY <1>2, <1>4, <2>1, <2>4, ModNext
<1> QED
  BY <1>6, <1>7, <1>8, <1>9 DEF Dequeue

-----------------------------------------------------------------------------
(* currMsgNum is the number of messages in the ring and historyMsgNum that *)
(* of the messages handled, up to the calls that have moved an index and   *)
(* not yet counted (cshmcommu.cpp:196, cshmcommu.cpp:385).                 *)
THEOREM CountersAlwaysSettle ==
  ASSUME IsFiniteSet(Producers), IsFiniteSet(Consumers)
  PROVE  Spec => []CountersSettle
<1>1. Init => CountersSettle
  <2> SUFFICES ASSUME Init PROVE CountersSettle
    OBVIOUS
  <2>1. Counting = {} /\ Uncounting = {} /\ Handling = {}
    BY DEF Init, Counting, Uncounting, Handling, IdleProducer, IdleConsumer
  <2>2. Cardinality({}) = 0
    BY FS_EmptySet
  <2>3. Balance = 0 /\ Handled = 0 /\ currMsgNum = 0 /\ historyMsgNum = 0
    BY <2>1, <2>2 DEF Init, Balance, Handled
  <2>4. 0 % WordSize = 0
    <3>1. WordSize \in Nat \ {0} /\ 0 \in 0 .. WordSize - 1
      BY RingAssumption, Lens, SMT
    <3> QED
      BY <3>1, ModBelow
  <2> QED
    BY <2>3, <2>4, SettleMeans
<1>2. TypeOK /\ CountersSettle /\ [Next]_vars => CountersSettle'
  <2> SUFFICES ASSUME TypeOK, CountersSettle, [Next]_vars PROVE CountersSettle'
    OBVIOUS
  <2>1. CASE UNCHANGED vars
    BY <2>1 DEF vars, CountersSettle
  <2> QED
    BY <2>1, EnqueueCounts, DequeueCounts DEF Next
<1> QED
  BY <1>1, <1>2, TypeCorrect, PTL DEF Spec

-----------------------------------------------------------------------------
(* Positions of the byte stream and cells of the block.  Byte number a of  *)
(* the stream lies in cell a % BlockSize.                                  *)

LEMMA PositionShift ==
  ASSUME NEW a \in Nat, NEW d \in 0 .. BlockSize
  PROVE  /\ a % BlockSize \in Index
         /\ (a + d) % BlockSize = IF (a % BlockSize) + d < BlockSize
                                  THEN (a % BlockSize) + d
                                  ELSE (a % BlockSize) + d - BlockSize
         /\ ((a % BlockSize) + d) % BlockSize = (a + d) % BlockSize
<1>1. BlockSize \in Nat \ {0} /\ a \in Int
  BY RingAssumption
<1>2. a % BlockSize \in 0 .. BlockSize - 1
  BY <1>1, ModDef
<1> DEFINE r == a % BlockSize
<1>3. r % BlockSize = r
  BY <1>1, <1>2, ModBelow
<1>4. (a + d) % BlockSize = IF r + d < BlockSize THEN r + d ELSE r + d - BlockSize
  BY <1>1, ModShift
<1>5. r \in Int
  BY <1>1, <1>2
<1>6. (r + d) % BlockSize = IF (r % BlockSize) + d < BlockSize
                            THEN (r % BlockSize) + d
                            ELSE (r % BlockSize) + d - BlockSize
  <2> HIDE DEF r
  <2> QED
    BY <1>1, <1>5, ModShift
<1> QED
  BY <1>2, <1>3, <1>4, <1>6 DEF Index

(* Two indices less than a turn apart tell how far apart they are.         *)
LEMMA Distance ==
  ASSUME NEW a \in Nat, NEW d \in 0 .. BlockSize - 1
  PROVE  LET h == (a + d) % BlockSize
             t == a % BlockSize
         IN  /\ Free(h, t) = BlockSize - 1 - d
             /\ Readable(h, t) = d
             /\ h = t => d = 0
<1> DEFINE h == (a + d) % BlockSize
           t == a % BlockSize
<1>1. d \in 0 .. BlockSize /\ BlockSize \in Nat \ {0}
  BY RingAssumption, SMT
<1>2. /\ t \in 0 .. BlockSize - 1
      /\ h = IF t + d < BlockSize THEN t + d ELSE t + d - BlockSize
  BY <1>1, PositionShift DEF Index
<1> HIDE DEF h, t
<1>3. /\ Free(h, t) = BlockSize - 1 - d
      /\ Readable(h, t) = d
      /\ h = t => d = 0
  BY <1>1, <1>2, SMT DEF Free, Readable
<1> QED
  BY <1>3 DEF h, t

(* Different positions of the stream less than a turn apart are different  *)
(* cells.                                                                  *)
LEMMA Apart ==
  ASSUME NEW a \in Nat, NEW b \in Nat, a < b, b - a < BlockSize
  PROVE  a % BlockSize # b % BlockSize
<1>1. BlockSize \in Nat \ {0} /\ a \in Int /\ b \in Int
  BY RingAssumption
<1> QED
  BY <1>1, ModWindow

LEMMA WritePosition ==
  ASSUME NEW a \in Nat, NEW t \in Index, NEW k \in Nat,
         k < Free(a % BlockSize, t)
  PROVE  WriteAddr(a % BlockSize, t, k) = (a + k) % BlockSize
<1>1. 0 \in 0 .. BlockSize /\ BlockSize \in Nat
  BY RingAssumption, SMT
<1>2. a % BlockSize \in Index
  BY <1>1, PositionShift
<1>3. k \in 0 .. BlockSize
  BY <1>1, <1>2, IndexArithmetic, SMT
<1> QED
  BY <1>2, <1>3, WriteAddress, PositionShift, SMTT(20)

LEMMA ReadPosition ==
  ASSUME NEW a \in Nat, NEW h \in Index, NEW k \in Nat,
         k < Readable(h, a % BlockSize)
  PROVE  ReadAddr(h, a % BlockSize, k) = (a + k) % BlockSize
<1>1. 0 \in 0 .. BlockSize /\ BlockSize \in Nat
  BY RingAssumption, SMT
<1>2. a % BlockSize \in Index
  BY <1>1, PositionShift
<1>3. k \in 0 .. BlockSize
  BY <1>1, <1>2, IndexArithmetic, SMT
<1> QED
  BY <1>2, <1>3, ReadAddress, PositionShift, ZenonT(40)

-----------------------------------------------------------------------------
(* What the histories say of the frames in the ring.                       *)

LEMMA Flight ==
  ASSUME TypeOK, HistoryInv
  PROVE  /\ Len(sent) \in Nat /\ Len(rcvd) \in Nat
         /\ Published \in Nat /\ Released \in Nat /\ Released <= Published
         /\ Published - Released \in 0 .. BlockSize - 1
         /\ \A i \in 1 .. Len(start) : start[i] \in Nat
         /\ \A i \in Len(rcvd) + 1 .. Len(sent) :
              /\ sent[i] \in Msg
              /\ Released <= start[i]
              /\ start[i + 1] = start[i] + Total(sent[i].len)
              /\ start[i + 1] <= Published
<1>1. /\ Len(sent) \in Nat /\ Len(rcvd) \in Nat /\ Len(rcvd) <= Len(sent)
      /\ Len(start) = Len(sent) + 1
      /\ \A i \in 1 .. Len(start) : start[i] \in Nat
      /\ \A i \in 1 .. Len(sent) : sent[i] \in Msg
  BY SMTT(20) DEF TypeOK, HistoryInv
<1>2. /\ Len(rcvd) + 1 \in 1 .. Len(start)
      /\ Len(start) \in 1 .. Len(start)
  BY <1>1, SMT
<1>3. Published \in Nat /\ Released \in Nat
  BY <1>1, <1>2 DEF Published, Released
<1>4. Released <= Published
  BY <1>1, <1>2, SMTT(20) DEF HistoryInv, Published, Released
<1>5. Published - Released \in 0 .. BlockSize - 1
  BY <1>3, <1>4, RingAssumption, SMT DEF HistoryInv
<1>6. ASSUME NEW i \in Len(rcvd) + 1 .. Len(sent)
      PROVE  /\ sent[i] \in Msg
             /\ Released <= start[i]
             /\ start[i + 1] = start[i] + Total(sent[i].len)
             /\ start[i + 1] <= Published
  <2>1. /\ i \in 1 .. Len(sent) /\ i \in 1 .. Len(start)
        /\ i + 1 \in 1 .. Len(start)
        /\ Len(rcvd) + 1 <= i /\ i + 1 <= Len(start)
    BY <1>1, SMT
  <2> QED
    BY <1>1, <1>2, <2>1 DEF HistoryInv, Published, Released
<1> QED
  BY <1>1, <1>3, <1>4, <1>5, <1>6

-----------------------------------------------------------------------------
(* RingInv is inductive.                                                   *)

LEMMA FifoInit == Init => RingInv
<1> SUFFICES ASSUME Init PROVE RingInv
  OBVIOUS
<1>1. MemInv
  BY MemInit
<1> USE DEF Init
<1>2. /\ Len(start) = 1 /\ Len(sent) = 0 /\ Len(rcvd) = 0
      /\ Published = 0 /\ Released = 0
  BY DEF Published, Released
<1>3. 0 % BlockSize = 0 /\ 0 < BlockSize
  BY RingAssumption, ModBelow, SMT
<1>4. HistoryInv
  BY <1>2, <1>3, SMT DEF HistoryInv
<1>5. UnreadIntact
  BY <1>2, SMT DEF UnreadIntact
<1>6. EnqueueInv
  BY DEF EnqueueInv, IdleProducer
<1>7. DequeueInv
  BY DEF DequeueInv, IdleConsumer, DequeueErrors
<1> QED
  BY <1>1, <1>4, <1>5, <1>6, <1>7 DEF RingInv

(* Nothing that the histories, the indices and the block say changes.      *)
LEMMA SameRing ==
  ASSUME RingInv, UNCHANGED <<head, tail, block, sent, start, rcvd>>
  PROVE  /\ HistoryInv' /\ UnreadIntact'
         /\ Published' = Published /\ Released' = Released
BY DEF RingInv, HistoryInv, UnreadIntact, Published, Released

LEMMA FifoEnqLoadHead ==
  ASSUME OneEach, RingInv, NEW p \in Producers, EnqLoadHead(p)
  PROVE  RingInv'
<1> USE DEF RingInv
<1>1. MemInv'
  BY EnqueueStep DEF Enqueue
<1> USE DEF EnqLoadHead, shared
<1>2. HistoryInv' /\ UnreadIntact'
  BY SameRing
<1>3. EnqueueInv'
  BY DEF EnqueueInv, OneEach, MemInv, TypeOK
<1>4. DequeueInv'
  BY DEF DequeueInv
<1> QED
  BY <1>1, <1>2, <1>3, <1>4

LEMMA FifoEnqLoadTail ==
  ASSUME OneEach, RingInv, NEW p \in Producers, EnqLoadTail(p)
  PROVE  RingInv'
<1> USE DEF RingInv
<1>1. MemInv'
  BY EnqueueStep DEF Enqueue
<1> USE DEF EnqLoadTail, shared, history
<1>2. HistoryInv' /\ UnreadIntact' /\ Published' = Published /\ Released' = Released
  BY SameRing
<1>3. DequeueInv'
  BY DEF DequeueInv
<1> DEFINE l == prod[p]
           r == prod'[p]
<1>4. CASE EnqueueReturns(p, "NOSPACE")
  <2>1. EnqueueInv'
    BY <1>4 DEF EnqueueReturns, IdleProducer, EnqueueInv, OneEach, MemInv, TypeOK
  <2> QED
    BY <1>1, <1>2, <1>3, <2>1
<1>5. CASE /\ ~(Total(l.m.len) > Free(l.h, tail))
           /\ prod' = [prod EXCEPT ![p].pc = "copy", ![p].t = tail]
  <2>1. /\ l.m \in Msg /\ l.k = 0 /\ l.h = head
        /\ Total(l.m.len) \in Nat
    BY Cells, Lens DEF MemInv, TypeOK, CopyFits, EnqueueInv
  <2> DEFINE d == Published - Released
  <2>2. d \in 0 .. BlockSize - 1 /\ Released \in Nat /\ Published \in Nat
        /\ Published = Released + d
    BY Flight, SMT DEF MemInv
  <2> HIDE DEF d
  <2>3. Free(l.h, tail) = BlockSize - 1 - d
    BY <2>1, <2>2, Distance DEF HistoryInv
  <2>4. Published + Total(l.m.len) - Released < BlockSize
    BY <1>5, <2>1, <2>2, <2>3, RingAssumption, SMT
  <2>5. r.pc = "copy" /\ r.h = l.h /\ r.m = l.m /\ r.k = 0
    BY <1>5, <2>1 DEF MemInv, TypeOK, ProducerLocals
  <2>6. EnqueueInv'
    BY <1>2, <2>1, <2>4, <2>5 DEF EnqueueInv, OneEach
  <2> QED
    BY <1>1, <1>2, <1>3, <2>6
<1> QED
  BY <1>4, <1>5

(* The byte that is stored lies beyond the published frames, and less than *)
(* a turn beyond the released ones.                                        *)
LEMMA FifoEnqCopy ==
  ASSUME OneEach, RingInv, NEW p \in Producers, EnqCopy(p)
  PROVE  RingInv'
<1> USE DEF RingInv
<1>1. MemInv'
  BY EnqueueStep DEF Enqueue
<1> USE DEF EnqCopy, history
<1> DEFINE l == prod[p]
           r == prod'[p]
           total == Total(l.m.len)
           addr == WriteAddr(l.h, l.t, l.k)
<1>2. /\ l \in ProducerLocals /\ l.m \in Msg /\ l.k \in Nat /\ l.t \in Index
      /\ total \in Nat /\ l.k < total /\ total <= Free(l.h, l.t)
      /\ l.h = head /\ Published + total - Released < BlockSize
      /\ \A i \in 0 .. l.k - 1 :
           block[(Published + i) % BlockSize] = FrameCell(l.m, i)
  BY Cells, Lens DEF MemInv, TypeOK, ProducerLocals, CopyFits, EnqueueInv
<1>3. /\ Published \in Nat /\ Released \in Nat /\ Released <= Published
  BY Flight DEF MemInv
<1>4. addr = (Published + l.k) % BlockSize
  <2>1. Free(l.h, l.t) \in Nat
    BY <1>2, IndexArithmetic, SMT DEF ProducerLocals
  <2>2. l.k < Free(l.h, l.t)
    BY <1>2, <2>1, SMT
  <2> QED
    BY <1>2, <1>3, <2>2, WritePosition DEF HistoryInv
<1>5. addr \in Index
  BY <1>2, <1>3, <1>4, Indices
<1>6. /\ block' = [block EXCEPT ![addr] = FrameCell(l.m, l.k)]
      /\ \A a \in Index : a # addr => block'[a] = block[a]
      /\ block'[addr] = FrameCell(l.m, l.k)
  BY <1>5 DEF MemInv, TypeOK
<1>7. HistoryInv' /\ Published' = Published /\ Released' = Released
  BY DEF HistoryInv, Published, Released
<1>8. UnreadIntact'
  <2>1. SUFFICES ASSUME NEW i \in Len(rcvd) + 1 .. Len(sent),
                        NEW k \in 0 .. Total(sent[i].len) - 1
                 PROVE  block'[(start[i] + k) % BlockSize] = FrameCell(sent[i], k)
    BY DEF UnreadIntact
  <2>2. /\ start[i] \in Nat /\ sent[i] \in Msg /\ Released <= start[i]
        /\ start[i] + Total(sent[i].len) <= Published
        /\ Total(sent[i].len) \in Nat
    <3>1. i \in 1 .. Len(start)
      BY Flight, SMTT(20) DEF MemInv, TypeOK
    <3> QED
      BY <3>1, Flight, Cells, Lens DEF MemInv
  <2> DEFINE a == start[i] + k
             b == Published + l.k
  <2>3. a \in Nat /\ b \in Nat /\ a < b /\ b - a < BlockSize
    <3>1. k \in Nat /\ k < Total(sent[i].len) /\ BlockSize \in Nat
      BY <2>2, RingAssumption, SMT
    <3>2. a < Published /\ Released <= a /\ a \in Nat
      BY <1>3, <2>2, <3>1, SMTT(20)
    <3> HIDE DEF a
    <3>3. b \in Nat /\ Published <= b /\ b < Published + total
      BY <1>2, <1>3, SMTT(20)
    <3> HIDE DEF b, total
    <3>4. total \in Nat /\ Published + total - Released < BlockSize
      BY <1>2 DEF total
    <3> QED
      BY <1>3, <3>1, <3>2, <3>3, <3>4, SMTT(20)
  <2>4. a % BlockSize # b % BlockSize /\ a % BlockSize \in Index
    BY <2>3, Apart, Indices
  <2>5. block[a % BlockSize] = FrameCell(sent[i], k)
    BY DEF UnreadIntact
  <2> QED
    BY <1>4, <1>6, <2>4, <2>5
<1>9. EnqueueInv'
  <2>1. /\ r.k = l.k + 1 /\ r.h = l.h /\ r.m = l.m
        /\ r.pc = IF l.k + 1 < total THEN "copy" ELSE "publish"
    BY <1>2 DEF MemInv, TypeOK, ProducerLocals
  <2>2. ASSUME NEW i \in 0 .. l.k
        PROVE  block'[(Published + i) % BlockSize] = FrameCell(l.m, i)
    <3>1. CASE i = l.k
      BY <1>4, <1>6, <3>1
    <3>2. CASE i # l.k
      <4> DEFINE a == Published + i
                 b == Published + l.k
      <4>1. /\ i \in 0 .. l.k - 1 /\ a \in Nat /\ b \in Nat /\ a < b
            /\ b - a < BlockSize
        BY <1>2, <1>3, <3>2, RingAssumption, SMT
      <4>2. a % BlockSize # b % BlockSize /\ a % BlockSize \in Index
        BY <4>1, Apart, Indices
      <4> QED
        BY <1>2, <1>4, <1>6, <4>1, <4>2
    <3> QED
      BY <3>1, <3>2
  <2>3. /\ r.k - 1 = l.k /\ r.k <= total
        /\ r.pc = "publish" => r.k = total
    BY <1>2, <2>1, SMT
  <2> QED
    BY <1>2, <1>7, <2>1, <2>2, <2>3 DEF EnqueueInv, OneEach
<1>10. DequeueInv'
  BY DEF DequeueInv
<1> QED
  BY <1>1, <1>7, <1>8, <1>9, <1>10

(* What was copied becomes the newest frame in the ring.                   *)
LEMMA FifoEnqPublish ==
  ASSUME OneEach, RingInv, NEW p \in Producers, EnqPublish(p)
  PROVE  RingInv'
<1> USE DEF RingInv
<1>1. MemInv'
  BY EnqueueStep DEF Enqueue
<1> USE DEF EnqPublish
<1> DEFINE l == prod[p]
           r == prod'[p]
           total == Total(l.m.len)
           n == Len(sent)
<1>2. /\ l \in ProducerLocals /\ l.m \in Msg
      /\ total \in Nat /\ l.k = total
      /\ l.h = head /\ Published + total - Released < BlockSize
      /\ \A i \in 0 .. total - 1 :
           block[(Published + i) % BlockSize] = FrameCell(l.m, i)
  BY Cells, Lens DEF MemInv, TypeOK, CopyFits, EnqueueInv
<1>3. /\ Published \in Nat /\ Released \in Nat /\ Released <= Published
      /\ n \in Nat /\ Len(rcvd) \in Nat /\ Len(rcvd) <= n
      /\ Len(start) = n + 1 /\ start[n + 1] = Published
      /\ \A i \in 1 .. Len(start) : start[i] \in Nat
  BY Flight DEF MemInv, TypeOK, HistoryInv, Published
<1>4. /\ Len(sent') = n + 1 /\ sent'[n + 1] = l.m
      /\ \A i \in 1 .. n : sent'[i] = sent[i]
  BY <1>2, <1>3 DEF MemInv, TypeOK
<1>5. /\ Len(start') = n + 2 /\ start'[n + 2] = Published + total
      /\ \A i \in 1 .. n + 1 : start'[i] = start[i]
  BY <1>2, <1>3, SMTT(20) DEF MemInv, TypeOK
<1> HIDE DEF n
<1>6. Published' = Published + total /\ Released' = Released
  <2>1. Len(rcvd) + 1 \in 1 .. n + 1
    BY <1>3, SMT
  <2> QED
    BY <1>5, <2>1 DEF Published, Released
<1>7. HistoryInv'
  <2>1. head' = Published' % BlockSize
    <3>1. total \in 0 .. BlockSize
      BY <1>2, <1>3, RingAssumption, SMTT(20)
    <3> QED
      BY <1>2, <1>3, <1>6, <3>1, PositionShift DEF HistoryInv
  <2>2. tail' = Released' % BlockSize
    BY <1>6 DEF HistoryInv
  <2>3. Published' - Released' < BlockSize
    BY <1>2, <1>3, <1>6, SMT
  <2>4. Len(rcvd') <= Len(sent') /\ \A i \in 1 .. Len(rcvd') : rcvd'[i] = sent'[i]
    BY <1>3, <1>4 DEF HistoryInv
  <2>5. ASSUME NEW i \in 1 .. Len(sent')
        PROVE  start'[i + 1] = start'[i] + Total(sent'[i].len)
    <3>1. CASE i = n + 1
      BY <1>3, <1>4, <1>5, <3>1
    <3>2. CASE i # n + 1
      <4>1. i \in 1 .. n /\ i \in 1 .. n + 1 /\ i + 1 \in 1 .. n + 1
        BY <1>3, <1>4, <3>2, SMT
      <4> QED
        BY <1>4, <1>5, <4>1 DEF HistoryInv, n
    <3> QED
      BY <3>1, <3>2
  <2>6. ASSUME NEW i \in 1 .. Len(start'), NEW j \in 1 .. Len(start'), i <= j
        PROVE  start'[i] <= start'[j]
    <3>1. ASSUME NEW k \in 1 .. n + 1
          PROVE  start[k] \in Nat /\ start[k] <= Published
      <4>1. k \in 1 .. Len(start) /\ n + 1 \in 1 .. Len(start) /\ k <= n + 1
        BY <1>3, SMT
      <4> QED
        BY <1>3, <4>1 DEF HistoryInv
    <3>2. CASE j = n + 2
      <4>1. i = n + 2 \/ i \in 1 .. n + 1
        BY <1>3, <1>5, SMT
      <4> QED
        BY <1>2, <1>3, <1>5, <3>1, <3>2, <4>1, SMTT(20)
    <3>3. CASE j # n + 2
      <4>1. i \in 1 .. n + 1 /\ j \in 1 .. n + 1
        BY <1>3, <1>5, <2>6, <3>3, SMTT(20)
      <4>2. start[i] <= start[j]
        BY <1>3, <2>6, <4>1 DEF HistoryInv
      <4> QED
        BY <1>5, <4>1, <4>2
    <3> QED
      BY <3>2, <3>3
  <2> QED
    BY <2>1, <2>2, <2>3, <2>4, <2>5, <2>6 DEF HistoryInv
<1>8. UnreadIntact'
  <2>1. SUFFICES ASSUME NEW i \in Len(rcvd) + 1 .. n + 1,
                        NEW k \in 0 .. Total(sent'[i].len) - 1
                 PROVE  block[(start'[i] + k) % BlockSize] = FrameCell(sent'[i], k)
    BY <1>4 DEF UnreadIntact
  <2>2. CASE i = n + 1
    <3>1. start'[i] = Published /\ sent'[i] = l.m
      BY <1>3, <1>4, <1>5, <2>2
    <3> QED
      BY <1>2, <3>1
  <2>3. CASE i # n + 1
    <3>1. i \in Len(rcvd) + 1 .. n /\ i \in 1 .. n /\ i \in 1 .. n + 1
      BY <1>3, <2>3, SMT
    <3> QED
      BY <1>4, <1>5, <3>1 DEF UnreadIntact, n
  <2> QED
    BY <2>2, <2>3
<1>9. EnqueueInv'
  <2>1. r.pc = "count"
    BY DEF MemInv, TypeOK
  <2> QED
    BY <2>1 DEF EnqueueInv, OneEach
<1>10. DequeueInv'
  <2>1. ASSUME NEW c \in Consumers, NEW j \in Len(rcvd) + 1 .. Len(start)
        PROVE  j \in Len(rcvd) + 1 .. Len(start') /\ start'[j] = start[j]
    BY <1>3, <1>5, SMT
  <2>2. Len(rcvd) < n => sent'[Len(rcvd) + 1] = sent[Len(rcvd) + 1]
    <3>1. Len(rcvd) < n => Len(rcvd) + 1 \in 1 .. n
      BY <1>3, SMT
    <3> QED
      BY <1>4, <3>1
  <2>3. Len(rcvd) < n => Len(rcvd) < Len(sent')
    BY <1>3, <1>4, SMT
  <2> QED
    BY <2>1, <2>2, <2>3, SMTT(20) DEF DequeueInv, n
<1> QED
  BY <1>1, <1>7, <1>8, <1>9, <1>10

LEMMA FifoEnqCount ==
  ASSUME OneEach, RingInv, NEW p \in Producers, EnqCount(p)
  PROVE  RingInv'
<1> USE DEF RingInv
<1>1. MemInv'
  BY EnqueueStep DEF Enqueue
<1> USE DEF EnqCount, history
<1>2. HistoryInv' /\ UnreadIntact'
  BY SameRing
<1>3. EnqueueInv'
  BY DEF EnqueueReturns, IdleProducer, EnqueueInv, OneEach, MemInv, TypeOK
<1>4. DequeueInv'
  BY DEF DequeueInv
<1> QED
  BY <1>1, <1>2, <1>3, <1>4

(* A step of dequeue that leaves the ring alone disturbs only DequeueInv.  *)
LEMMA FifoDequeueFrame ==
  ASSUME RingInv, NEW c \in Consumers, Dequeue(c),
         UNCHANGED <<shared, prod, history>>
  PROVE  /\ MemInv' /\ HistoryInv' /\ UnreadIntact' /\ EnqueueInv'
         /\ sent' = sent /\ rcvd' = rcvd /\ start' = start /\ tail' = tail
<1> USE DEF RingInv, shared, history
<1>1. MemInv'
  BY DequeueStep
<1>2. HistoryInv' /\ UnreadIntact' /\ Published' = Published /\ Released' = Released
  BY SameRing
<1>3. EnqueueInv'
  BY <1>2 DEF EnqueueInv
<1> QED
  BY <1>1, <1>2, <1>3

LEMMA FifoReturns ==
  ASSUME OneEach, RingInv, NEW c \in Consumers, NEW res,
         DequeueReturns(c, res), res \notin DequeueErrors
  PROVE  DequeueInv'
BY DEF RingInv, DequeueReturns, IdleConsumer, DequeueInv, OneEach, MemInv, TypeOK

LEMMA FifoDeqLoadHead ==
  ASSUME OneEach, RingInv, NEW c \in Consumers, DeqLoadHead(c)
  PROVE  RingInv'
<1>1. /\ MemInv' /\ HistoryInv' /\ UnreadIntact' /\ EnqueueInv'
      /\ sent' = sent /\ rcvd' = rcvd /\ start' = start /\ tail' = tail
  BY FifoDequeueFrame DEF Dequeue, DeqLoadHead
<1>2. /\ Len(start) \in Len(rcvd) + 1 .. Len(start)
      /\ head = start[Len(start)] % BlockSize
  BY Flight DEF RingInv, MemInv, TypeOK, HistoryInv, Published
<1>3. /\ cons'[c].pc = "loadTail" /\ cons'[c].h = head
      /\ cons'[c].res = "none"
  BY DEF DeqLoadHead, RingInv, MemInv, TypeOK
<1>4. DequeueInv'
  BY <1>1, <1>2, <1>3 DEF DequeueInv, OneEach, DequeueErrors
<1> QED
  BY <1>1, <1>4 DEF RingInv

(* The head that was loaded ends a frame; if it is not where the tail is,  *)
(* the oldest frame lies between them.                                     *)
LEMMA FifoDeqLoadTail ==
  ASSUME OneEach, RingInv, NEW c \in Consumers, DeqLoadTail(c)
  PROVE  RingInv'
<1> USE DEF RingInv
<1> DEFINE l == cons[c]
           r == cons'[c]
           n == Len(rcvd)
           m == sent[n + 1]
<1>1. /\ MemInv' /\ HistoryInv' /\ UnreadIntact' /\ EnqueueInv'
      /\ sent' = sent /\ rcvd' = rcvd /\ start' = start /\ tail' = tail
  BY FifoDequeueFrame DEF Dequeue, DeqLoadTail
<1>2. CASE l.h = tail
  BY <1>1, <1>2, FifoReturns DEF DeqLoadTail, DequeueErrors
<1>3. CASE l.h # tail
  <2>1. PICK j \in n + 1 .. Len(start) : l.h = start[j] % BlockSize
    BY DEF DeqLoadTail, DequeueInv
  <2>2. /\ n \in Nat /\ n <= Len(sent) /\ Len(start) = Len(sent) + 1
        /\ Len(sent) \in Nat
    BY DEF MemInv, TypeOK, HistoryInv
  <2>3. j # n + 1
    BY <1>3, <2>1 DEF HistoryInv, Released
  <2>4. /\ n < Len(sent) /\ n + 1 \in n + 1 .. Len(sent)
        /\ n + 2 \in 1 .. Len(start) /\ j \in 1 .. Len(start) /\ n + 2 <= j
        /\ Len(start) \in 1 .. Len(start) /\ j <= Len(start)
    BY <2>1, <2>2, <2>3, SMT
  <2>5. /\ m \in Msg /\ start[n + 2] = Released + Total(m.len)
        /\ Released \in Nat /\ Published \in Nat
        /\ Published - Released < BlockSize
    BY <2>2, <2>4, Flight, SMTT(20) DEF MemInv, Released, HistoryInv
  <2>6. /\ start[n + 2] <= start[j] /\ start[j] <= Published
        /\ start[j] \in Nat
    BY <2>4, Flight DEF MemInv, HistoryInv, Published
  <2>7. Total(m.len) \in Nat /\ HeaderLen \in Nat /\ HeaderLen < Total(m.len)
    <3>1. m.len \in Nat
      BY <2>5, Cells
    <3>2. /\ HeaderLen \in Nat /\ Total(m.len) \in Nat
          /\ HeaderLen + m.len < Total(m.len)
      BY <3>1, Lens
    <3> HIDE DEF m
    <3> QED
      BY <3>1, <3>2, SMT
  <2> HIDE DEF m
  <2> DEFINE d == start[j] - Released
  <2>8. /\ d \in 0 .. BlockSize - 1 /\ start[j] = Released + d
        /\ Total(m.len) <= d
    BY <2>5, <2>6, <2>7, RingAssumption, SMTT(20)
  <2> HIDE DEF d
  <2>9. Readable(l.h, tail) = d
    BY <2>1, <2>5, <2>8, Distance DEF HistoryInv
  <2>10. cons' = [cons EXCEPT ![c].pc = "header", ![c].t = tail]
    BY <1>3, <2>7, <2>8, <2>9, SMT DEF DeqLoadTail
  <2>11. /\ r.pc = "header" /\ r.h = l.h /\ r.t = tail /\ r.buf = <<>>
         /\ r.res \notin DequeueErrors
    BY <2>10 DEF MemInv, TypeOK, ConsumerLocals, DeqLoadTail, FetchFits, DequeueInv
  <2>12. Len(r.buf) = 0
    BY <2>11
  <2>13. DequeueInv'
    BY <1>1, <2>4, <2>7, <2>8, <2>9, <2>11, <2>12, SMTT(20) DEF DequeueInv, OneEach, m
  <2> QED
    BY <1>1, <2>13
<1> QED
  BY <1>2, <1>3

(* The next byte that is loaded is the next byte of the oldest frame.      *)
LEMMA FifoLoadByte ==
  ASSUME RingInv, NEW c \in Consumers,
         cons[c].pc \in {"header", "body"},
         Len(cons[c].buf) < Total(sent[Len(rcvd) + 1].len)
  PROVE  LET m == sent[Len(rcvd) + 1]
             buf == LoadByte(c)
         IN  /\ Len(buf) = Len(cons[c].buf) + 1
             /\ Len(buf) <= Total(m.len)
             /\ \A i \in 1 .. Len(buf) : buf[i] = FrameCell(m, i - 1)
<1> USE DEF RingInv
<1> DEFINE l == cons[c]
           m == sent[Len(rcvd) + 1]
           k == Len(l.buf)
<1>1. /\ l.buf \in Seq(Cell) /\ l.h \in Index /\ k \in Nat
      /\ l.t = tail /\ Len(rcvd) < Len(sent)
      /\ Total(m.len) <= Readable(l.h, l.t)
      /\ \A i \in 1 .. k : l.buf[i] = FrameCell(m, i - 1)
  BY DEF MemInv, TypeOK, ConsumerLocals, DequeueInv
<1>2. /\ Len(rcvd) + 1 \in Len(rcvd) + 1 .. Len(sent)
      /\ m \in Msg /\ Released \in Nat /\ tail = Released % BlockSize
  <2>1. Len(rcvd) + 1 \in Len(rcvd) + 1 .. Len(sent)
    BY <1>1, Flight, SMT DEF MemInv
  <2> QED
    BY <2>1, Flight DEF MemInv, HistoryInv
<1>3. Total(m.len) \in Nat /\ Readable(l.h, l.t) \in Nat
  <2>1. Readable(l.h, l.t) \in 0 .. BlockSize
    BY <1>1, IndexArithmetic DEF MemInv, TypeOK
  <2> QED
    BY <1>2, <2>1, Cells, Lens, SMT
<1> HIDE DEF m
<1>4. k < Total(m.len) /\ k \in 0 .. Total(m.len) - 1 /\ k < Readable(l.h, l.t)
  BY <1>1, <1>3, SMT DEF m
<1>5. ReadAddr(l.h, l.t, k) = (Released + k) % BlockSize
  BY <1>1, <1>2, <1>4, ReadPosition
<1>6. block[ReadAddr(l.h, l.t, k)] = FrameCell(m, k)
  BY <1>2, <1>4, <1>5 DEF UnreadIntact, Released, m
<1>7. block[ReadAddr(l.h, l.t, k)] \in Cell
  BY <1>2, <1>1, <1>6, Cells
<1>8. /\ Len(LoadByte(c)) = k + 1
      /\ LoadByte(c)[k + 1] = FrameCell(m, k)
      /\ \A i \in 1 .. k : LoadByte(c)[i] = l.buf[i]
  BY <1>1, <1>6, <1>7 DEF LoadByte
<1>9. ASSUME NEW i \in 1 .. k + 1
      PROVE  LoadByte(c)[i] = FrameCell(m, i - 1)
  <2>1. CASE i = k + 1
    BY <1>1, <1>8, <2>1
  <2>2. CASE i # k + 1
    BY <1>1, <1>8, <2>2, SMTT(20)
  <2> QED
    BY <2>1, <2>2
<1>10. k + 1 <= Total(m.len)
  BY <1>1, <1>3, <1>4, SMT
<1> QED
  BY <1>8, <1>9, <1>10 DEF m

LEMMA FifoDeqHeader ==
  ASSUME OneEach, RingInv, NEW c \in Consumers, DeqHeader(c)
  PROVE  RingInv'
<1> USE DEF RingInv, DeqHeader
<1> DEFINE l == cons[c]
           r == cons'[c]
           m == sent[Len(rcvd) + 1]
<1>1. /\ MemInv' /\ HistoryInv' /\ UnreadIntact' /\ EnqueueInv'
      /\ sent' = sent /\ rcvd' = rcvd /\ start' = start /\ tail' = tail
  BY FifoDequeueFrame DEF Dequeue
<1>2. /\ l.t = tail /\ Len(rcvd) < Len(sent)
      /\ Total(m.len) <= Readable(l.h, l.t)
      /\ Len(l.buf) < HeaderLen /\ l.buf \in Seq(Cell)
  BY DEF MemInv, TypeOK, ConsumerLocals, FetchFits, DequeueInv
<1>3. HeaderLen \in Nat /\ Total(m.len) \in Nat /\ HeaderLen < Total(m.len)
  <2>1. Len(rcvd) + 1 \in Len(rcvd) + 1 .. Len(sent)
    BY <1>2, Flight, SMT DEF MemInv
  <2>2. m.len \in Nat
    BY <2>1, Flight, Cells DEF MemInv
  <2>3. /\ HeaderLen \in Nat /\ Total(m.len) \in Nat
        /\ HeaderLen + m.len < Total(m.len)
    BY <2>2, Lens
  <2> HIDE DEF m
  <2> QED
    BY <2>2, <2>3, SMT
<1> HIDE DEF m
<1>4. Len(l.buf) < Total(m.len)
  BY <1>2, <1>3, SMT
<1>5. /\ Len(LoadByte(c)) <= Total(m.len)
      /\ \A i \in 1 .. Len(LoadByte(c)) : LoadByte(c)[i] = FrameCell(m, i - 1)
  BY <1>4, FifoLoadByte DEF m
<1>6. /\ r.pc \in {"header", "check"} /\ r.h = l.h /\ r.t = l.t
      /\ r.buf = LoadByte(c) /\ r.res = l.res
  BY DEF MemInv, TypeOK, ConsumerLocals
<1>7. /\ Len(r.buf) <= Total(m.len)
      /\ \A i \in 1 .. Len(r.buf) : r.buf[i] = FrameCell(m, i - 1)
      /\ Total(m.len) <= Readable(r.h, r.t)
      /\ r.res \notin DequeueErrors
  BY <1>2, <1>5, <1>6 DEF DequeueInv
<1>8. DequeueInv'
  BY <1>1, <1>2, <1>6, <1>7, ZenonT(40) DEF DequeueInv, OneEach, m
<1> QED
  BY <1>1, <1>8

LEMMA FifoDeqBody ==
  ASSUME OneEach, RingInv, NEW c \in Consumers, DeqBody(c)
  PROVE  RingInv'
<1> USE DEF RingInv, DeqBody
<1> DEFINE l == cons[c]
           r == cons'[c]
           m == sent[Len(rcvd) + 1]
<1>1. /\ MemInv' /\ HistoryInv' /\ UnreadIntact' /\ EnqueueInv'
      /\ sent' = sent /\ rcvd' = rcvd /\ start' = start /\ tail' = tail
  BY FifoDequeueFrame DEF Dequeue
<1>2. /\ l.t = tail /\ Len(rcvd) < Len(sent) /\ l.n = m.len
      /\ Total(m.len) <= Readable(l.h, l.t)
      /\ Len(l.buf) < Total(l.n)
  BY DEF FetchFits, MemInv, DequeueInv
<1>3. /\ Len(LoadByte(c)) <= Total(m.len)
      /\ \A i \in 1 .. Len(LoadByte(c)) : LoadByte(c)[i] = FrameCell(m, i - 1)
  BY <1>2, FifoLoadByte
<1>4. /\ r.pc \in {"body", "trailer"} /\ r.h = l.h /\ r.t = l.t
      /\ r.buf = LoadByte(c) /\ r.res = l.res /\ r.n = l.n
  BY DEF MemInv, TypeOK, ConsumerLocals
<1>5. /\ Len(r.buf) <= Total(m.len)
      /\ \A i \in 1 .. Len(r.buf) : r.buf[i] = FrameCell(m, i - 1)
      /\ Total(m.len) <= Readable(r.h, r.t)
      /\ r.res \notin DequeueErrors /\ r.n = m.len /\ r.t = tail
  BY <1>2, <1>3, <1>4 DEF DequeueInv
<1> HIDE DEF m
<1>6. DequeueInv'
  BY <1>1, <1>2, <1>4, <1>5, ZenonT(40) DEF DequeueInv, OneEach, m
<1> QED
  BY <1>1, <1>6

(* The header is the sender's: its SPPX is found, and datalen is decoded   *)
(* to the length that was sent, which is readable and fits the buffer.     *)
LEMMA FifoDeqCheck ==
  ASSUME OneEach, RingInv, NEW c \in Consumers, DeqCheck(c)
  PROVE  RingInv'
<1> USE DEF RingInv, DeqCheck
<1> DEFINE l == cons[c]
           r == cons'[c]
           m == sent[Len(rcvd) + 1]
<1>1. /\ MemInv' /\ HistoryInv' /\ UnreadIntact' /\ EnqueueInv'
      /\ sent' = sent /\ rcvd' = rcvd /\ start' = start /\ tail' = tail
  BY FifoDequeueFrame DEF Dequeue
<1>2. /\ l.t = tail /\ Len(rcvd) < Len(sent)
      /\ Total(m.len) <= Readable(l.h, l.t)
      /\ Len(l.buf) = HeaderLen /\ Len(l.buf) <= Total(m.len)
      /\ l.h \in Index /\ l.t \in Index
      /\ \A i \in 1 .. HeaderLen : l.buf[i] = FrameCell(m, i - 1)
  BY DEF MemInv, TypeOK, ConsumerLocals, FetchFits, DequeueInv
<1>3. m \in Msg /\ m # NoMsg /\ m.len \in Nat
  <2>1. Len(rcvd) + 1 \in Len(rcvd) + 1 .. Len(sent)
    BY <1>2, Flight, SMT DEF MemInv
  <2>2. m \in Msg
    BY <2>1, Flight DEF MemInv
  <2> QED
    BY <2>2, Cells
<1> HIDE DEF m
<1>4. /\ SafeLen \in Nat \ {0} /\ SeqLen \in Nat \ {0} /\ LenLen \in Nat \ {0}
      /\ HeaderLen = SafeLen + SeqLen + LenLen
  BY RingAssumption DEF HeaderLen
<1>5. HasMagic(l.buf, 0)
  <2>1. ASSUME NEW i \in 0 .. SafeLen - 1
        PROVE  l.buf[0 + i + 1] = Magic(i)
    <3>1. i + 1 \in 1 .. HeaderLen /\ (i + 1) - 1 = i /\ i < SafeLen
          /\ 0 + i + 1 = i + 1
      BY <1>4, SMT
    <3> QED
      BY <1>2, <3>1 DEF FrameCell
  <2> QED
    BY <2>1 DEF HasMagic
<1>6. LenField(l.buf) = {m.len}
  <2> DEFINE off == SafeLen + SeqLen
  <2>1. ASSUME NEW i \in off .. HeaderLen - 1
        PROVE  l.buf[i + 1] = [msg |-> m, off |-> i]
    <3>1. i + 1 \in 1 .. HeaderLen /\ (i + 1) - 1 = i /\ ~(i < SafeLen)
          /\ i < HeaderLen + m.len
      BY <1>3, <1>4, SMT
    <3> QED
      BY <1>2, <3>1 DEF FrameCell
  <2>2. off \in off .. HeaderLen - 1
    BY <1>4, SMT
  <2>3. l.buf[off + 1] = [msg |-> m, off |-> off]
    BY <2>1, <2>2
  <2>4. l.buf[off + 1].msg = m
    BY <2>3
  <2> QED
    BY <1>3, <2>1, <2>4 DEF LenField
<1>7. m.len <= BuffSize /\ Total(m.len) % WordSize = Total(m.len)
  <2>1. Total(m.len) <= BlockSize /\ Total(m.len) \in Nat /\ m.len <= Total(m.len)
    <3>1. Readable(l.h, l.t) \in 0 .. BlockSize
      BY <1>2, IndexArithmetic
    <3>2. Total(m.len) \in Nat /\ HeaderLen \in Nat
          /\ HeaderLen + m.len < Total(m.len)
      BY <1>3, Lens
    <3> QED
      BY <1>2, <1>3, <3>1, <3>2, RingAssumption, SMTT(20)
  <2>2. BlockSize \in Nat /\ BuffSize \in Nat /\ BlockSize <= BuffSize
    BY RingAssumption, SMT
  <2>3. m.len <= BuffSize
    BY <1>3, <2>1, <2>2, SMT
  <2> QED
    BY <1>3, <2>3, TotalNoWrap
<1>8. /\ Readable(l.h, l.t) \in Nat /\ Total(m.len) \in Nat /\ BuffSize \in Nat
  <2>1. Readable(l.h, l.t) \in 0 .. BlockSize
    BY <1>2, IndexArithmetic
  <2>2. Total(m.len) \in Nat
    BY <1>3, Lens
  <2> QED
    BY <2>1, <2>2, RingAssumption, SMT
<1>9. cons' = [cons EXCEPT ![c].pc = "body", ![c].n = m.len]
  BY <1>2, <1>3, <1>5, <1>6, <1>7, <1>8
<1>10. /\ r.pc = "body" /\ r.h = l.h /\ r.t = l.t /\ r.n = m.len
       /\ r.buf = l.buf /\ r.res = l.res
  BY <1>9, ZenonT(40) DEF MemInv, TypeOK, ConsumerLocals
<1>11. DequeueInv'
  BY <1>1, <1>2, <1>10, SMTT(20) DEF DequeueInv, OneEach, m
<1> QED
  BY <1>1, <1>11

(* The closing SPPX is the sender's.                                       *)
LEMMA FifoDeqTrailer ==
  ASSUME OneEach, RingInv, NEW c \in Consumers, DeqTrailer(c)
  PROVE  RingInv'
<1> USE DEF RingInv, DeqTrailer
<1> DEFINE l == cons[c]
           r == cons'[c]
           m == sent[Len(rcvd) + 1]
<1>1. /\ MemInv' /\ HistoryInv' /\ UnreadIntact' /\ EnqueueInv'
      /\ sent' = sent /\ rcvd' = rcvd /\ start' = start /\ tail' = tail
  BY FifoDequeueFrame DEF Dequeue
<1>2. /\ Len(l.buf) = Total(m.len) /\ l.n = m.len /\ l.n \in Nat
      /\ \A i \in 1 .. Len(l.buf) : l.buf[i] = FrameCell(m, i - 1)
  BY SMT DEF MemInv, TypeOK, ConsumerLocals, FetchFits, DequeueInv
<1> HIDE DEF m
<1>3. HasMagic(l.buf, HeaderLen + l.n)
  <2> DEFINE b == HeaderLen + l.n
  <2>1. ASSUME NEW i \in 0 .. SafeLen - 1
        PROVE  l.buf[b + i + 1] = Magic(i)
    <3>1. /\ SafeLen \in Nat /\ HeaderLen \in Nat /\ SafeLen < HeaderLen
          /\ b \in Nat /\ HeaderLen <= b /\ Total(m.len) = b + SafeLen
      BY <1>2, Lens, RingAssumption, SMTT(20) DEF Total
    <3> HIDE DEF b
    <3>2. /\ b + i + 1 \in 1 .. Len(l.buf) /\ (b + i + 1) - 1 = b + i
          /\ ~(b + i < SafeLen) /\ ~(b + i < b) /\ (b + i) - b = i
      BY <1>2, <3>1, SMT
    <3>3. FrameCell(m, b + i) = Magic(i)
      BY <1>2, <3>2 DEF FrameCell, b
    <3> QED
      BY <1>2, <3>2, <3>3
  <2> QED
    BY <2>1 DEF HasMagic
<1>4. cons' = [cons EXCEPT ![c].pc = "release"]
  BY <1>3
<1>5. /\ r.pc = "release" /\ r.h = l.h /\ r.t = l.t /\ r.n = l.n
      /\ r.buf = l.buf /\ r.res = l.res
  BY <1>4 DEF MemInv, TypeOK, ConsumerLocals
<1>6. DequeueInv'
  BY <1>1, <1>5, SMTT(20) DEF DequeueInv, OneEach
<1> QED
  BY <1>1, <1>6

(* The frame that was read is whole, and is the oldest one published.      *)
LEMMA ReleaseWhole ==
  ASSUME RingInv, NEW c \in Consumers, cons[c].pc = "release"
  PROVE  /\ Len(rcvd) < Len(sent)
         /\ Delivered(cons[c].buf) = sent[Len(rcvd) + 1]
<1> USE DEF RingInv
<1> DEFINE l == cons[c]
           m == sent[Len(rcvd) + 1]
<1>1. /\ Len(rcvd) < Len(sent) /\ l.buf \in Seq(Cell)
      /\ Len(l.buf) = Total(m.len)
      /\ \A i \in 1 .. Len(l.buf) : l.buf[i] = FrameCell(m, i - 1)
  BY DEF MemInv, TypeOK, ConsumerLocals, FetchFits, DequeueInv
<1>2. m \in Msg /\ m # NoMsg /\ m.len \in Nat
  <2>1. Len(rcvd) + 1 \in Len(rcvd) + 1 .. Len(sent)
    BY <1>1, Flight, SMT DEF MemInv
  <2>2. m \in Msg
    BY <2>1, Flight DEF MemInv
  <2> QED
    BY <2>2, Cells
<1> HIDE DEF m
<1>3. l.buf = Frame(m)
  BY <1>1 DEF Frame
<1>4. l.buf[SafeLen + 1].msg = m
  <2>1. /\ SafeLen + 1 \in 1 .. Total(m.len) /\ (SafeLen + 1) - 1 = SafeLen
        /\ ~(SafeLen < SafeLen) /\ SafeLen < HeaderLen + m.len
    BY <1>2, RingAssumption, SMT DEF Total, HeaderLen
  <2>2. l.buf[SafeLen + 1] = [msg |-> m, off |-> SafeLen]
    BY <1>1, <2>1 DEF FrameCell
  <2> QED
    BY <2>2
<1> QED
  BY <1>1, <1>2, <1>3, <1>4 DEF Delivered, m

LEMMA FifoDeqRelease ==
  ASSUME OneEach, RingInv, NEW c \in Consumers, DeqRelease(c)
  PROVE  RingInv'
<1> USE DEF RingInv
<1>1. MemInv'
  BY DequeueStep DEF Dequeue
<1> USE DEF DeqRelease
<1> DEFINE l == cons[c]
           n == Len(rcvd)
           m == sent[n + 1]
<1>2. n < Len(sent) /\ Delivered(l.buf) = m
  BY ReleaseWhole
<1>3. /\ n \in Nat /\ Len(sent) \in Nat /\ Len(start) = Len(sent) + 1
      /\ Published \in Nat /\ Released \in Nat /\ Published - Released < BlockSize
      /\ n + 1 \in n + 1 .. Len(sent) /\ n + 1 \in 1 .. Len(sent)
      /\ n + 2 \in 1 .. Len(start)
  <2>1. /\ n \in Nat /\ Len(sent) \in Nat /\ Len(start) = Len(sent) + 1
        /\ Published \in Nat /\ Released \in Nat /\ Published - Released < BlockSize
    BY Flight DEF MemInv, TypeOK, HistoryInv
  <2> QED
    BY <1>2, <2>1, SMT
<1>4. /\ Len(rcvd') = n + 1 /\ rcvd'[n + 1] = m
      /\ \A i \in 1 .. n : rcvd'[i] = rcvd[i]
  BY <1>2, <1>3 DEF MemInv, TypeOK
<1>5. /\ m \in Msg /\ Total(m.len) \in Nat
      /\ start[n + 2] = Released + Total(m.len)
      /\ Released + Total(m.len) <= Published
  <2>1. /\ m \in Msg /\ start[(n + 1) + 1] = start[n + 1] + Total(m.len)
        /\ start[(n + 1) + 1] <= Published
    BY <1>3, Flight DEF MemInv
  <2>2. (n + 1) + 1 = n + 2
    BY <1>3
  <2>3. Total(m.len) \in Nat
    BY <2>1, Cells, Lens
  <2> QED
    BY <2>1, <2>2, <2>3 DEF Released
<1>6. Released' = Released + Total(m.len) /\ Published' = Published
  <2>1. (n + 1) + 1 = n + 2
    BY <1>3
  <2> QED
    BY <1>4, <1>5, <2>1 DEF Released, Published
<1>7. l.n = m.len /\ l.t = tail
  BY DEF DequeueInv
<1> HIDE DEF n, m
<1> DEFINE total == Total(m.len)
<1>8. /\ total \in Nat /\ BlockSize \in Nat
      /\ Released + total <= Published /\ Released' = Released + total
  BY <1>5, <1>6, RingAssumption
<1>9. HistoryInv'
  <2>1. total \in 0 .. BlockSize
    <3> HIDE DEF total
    <3> QED
      BY <1>3, <1>8, SMTT(20)
  <2>2. tail' = Released' % BlockSize
    BY <1>3, <1>6, <1>7, <2>1, PositionShift DEF HistoryInv
  <2>3. Len(rcvd') <= Len(sent')
    BY <1>2, <1>3, <1>4, SMT
  <2>4. ASSUME NEW i \in 1 .. Len(rcvd')
        PROVE  rcvd'[i] = sent'[i]
    <3>1. CASE i = n + 1
      BY <1>4, <3>1 DEF m
    <3>2. CASE i # n + 1
      <4>1. i \in 1 .. n
        BY <1>3, <1>4, <3>2, SMT
      <4> QED
        BY <1>4, <4>1 DEF HistoryInv, n
    <3> QED
      BY <3>1, <3>2
  <2>5. head' = Published' % BlockSize
    BY <1>6 DEF HistoryInv
  <2>6. Published' - Released' < BlockSize
    <3> HIDE DEF total
    <3> QED
      BY <1>3, <1>6, <1>8, SMTT(20)
  <2> QED
    BY <2>2, <2>3, <2>4, <2>5, <2>6 DEF HistoryInv
<1>10. UnreadIntact'
  <2>1. ASSUME NEW i \in (n + 1) + 1 .. Len(sent)
        PROVE  i \in n + 1 .. Len(sent)
    BY <1>3, SMT
  <2> QED
    BY <1>4, <2>1 DEF UnreadIntact, n
<1>11. EnqueueInv'
  <2>1. ASSUME NEW p \in Producers, prod[p].pc \in {"copy", "publish"}
        PROVE  Published + Total(prod[p].m.len) - Released' < BlockSize
    <3> DEFINE size == Total(prod[p].m.len)
    <3>1. size \in Nat /\ Published + size - Released < BlockSize
      BY <2>1, Cells, Lens DEF MemInv, CopyFits, EnqueueInv
    <3> HIDE DEF size, total
    <3>2. /\ Released \in Nat /\ Published \in Nat /\ BlockSize \in Nat
          /\ Released' \in Nat /\ Released <= Released'
      BY <1>3, <1>8, SMTT(20)
    <3>3. Published + size - Released' < BlockSize
      BY <3>1, <3>2, SMT
    <3> QED
      BY <3>3 DEF size
  <2> QED
    BY <1>6, <2>1 DEF EnqueueInv
<1>12. cons'[c].pc = "uncount" /\ cons'[c].res = l.res
  BY DEF MemInv, TypeOK, ConsumerLocals
<1>13. DequeueInv'
  BY <1>12 DEF DequeueInv, OneEach
<1> QED
  BY <1>1, <1>9, <1>10, <1>11, <1>13

(* Counting leaves the ring alone.                                         *)
LEMMA FifoDeqCounts ==
  ASSUME OneEach, RingInv, NEW c \in Consumers, DeqUncount(c) \/ DeqHistory(c)
  PROVE  RingInv'
<1> USE DEF RingInv
<1>1. MemInv'
  BY DequeueStep DEF Dequeue
<1>2. /\ HistoryInv' /\ UnreadIntact'
      /\ Published' = Published /\ Released' = Released
  BY SameRing DEF DeqUncount, DeqHistory, history
<1>3. EnqueueInv'
  BY <1>2 DEF DeqUncount, DeqHistory, history, EnqueueInv
<1>4. CASE DeqUncount(c)
  <2>1. cons'[c].pc = "history" /\ cons'[c].res = cons[c].res
    BY <1>4 DEF DeqUncount, MemInv, TypeOK, ConsumerLocals
  <2>2. DequeueInv'
    BY <1>4, <2>1 DEF DeqUncount, DequeueInv, OneEach
  <2> QED
    BY <1>1, <1>2, <1>3, <2>2
<1>5. CASE DeqHistory(c)
  <2>1. DequeueInv'
    BY <1>5, FifoReturns DEF DeqHistory, DequeueErrors
  <2> QED
    BY <1>1, <1>2, <1>3, <2>1
<1> QED
  BY <1>4, <1>5

LEMMA FifoNext ==
  ASSUME OneEach
  PROVE  RingInv /\ [Next]_vars => RingInv'
<1>1. ASSUME RingInv, NEW p \in Producers, Enqueue(p)
      PROVE  RingInv'
  BY <1>1, FifoEnqLoadHead, FifoEnqLoadTail, FifoEnqCopy, FifoEnqPublish,
     FifoEnqCount DEF Enqueue
<1>2. ASSUME RingInv, NEW c \in Consumers, Dequeue(c)
      PROVE  RingInv'
  BY <1>2, FifoDeqLoadHead, FifoDeqLoadTail, FifoDeqHeader, FifoDeqCheck,
     FifoDeqBody, FifoDeqTrailer, FifoDeqRelease, FifoDeqCounts DEF Dequeue
<1>3. ASSUME RingInv, UNCHANGED vars
      PROVE  RingInv'
  <2>1. MemInv'
    BY <1>3, MemStutter DEF RingInv
  <2>2. /\ HistoryInv' /\ UnreadIntact'
        /\ Published' = Published /\ Released' = Released
    BY <1>3, SameRing DEF vars
  <2>3. EnqueueInv' /\ DequeueInv'
    BY <1>3, <2>2 DEF vars, RingInv, EnqueueInv, DequeueInv
  <2> QED
    BY <2>1, <2>2, <2>3 DEF RingInv
<1> QED
  BY <1>1, <1>2, <1>3 DEF Next

-----------------------------------------------------------------------------
(* One producer and one consumer never disturb each other: frames that are *)
(* published keep their bytes until they are released.                     *)
THEOREM UnreadNeverOverwritten ==
  ASSUME OneEach
  PROVE  Spec => []UnreadIntact
<1>1. Init => RingInv
  BY FifoInit
<1>2. RingInv /\ [Next]_vars => RingInv'
  BY FifoNext
<1>3. RingInv => UnreadIntact
  BY DEF RingInv
<1> QED
  BY <1>1, <1>2, <1>3, PTL DEF Spec

(* dequeue never finds a damaged frame, and never ends the process.        *)
THEOREM NoDamage ==
  ASSUME OneEach
  PROVE  Spec => []DequeueNeverFails
<1>1. Init => RingInv
  BY FifoInit
<1>2. RingInv /\ [Next]_vars => RingInv'
  BY FifoNext
<1>3. RingInv => DequeueNeverFails
  BY DEF RingInv, DequeueInv, DequeueNeverFails
<1> QED
  BY <1>1, <1>2, <1>3, PTL DEF Spec

(* enqueue refuses a message only when it does not fit.                    *)
THEOREM RefusalsJustified ==
  ASSUME OneEach
  PROVE  Spec => RefusedOnlyWhenFull
<1> DEFINE Justified ==
      \A p \in Producers :
        /\ prod[p].pc = "loadTail"
        /\ prod'[p].pc = "idle" /\ prod'[p].res = "NOSPACE"
        => Total(prod[p].m.len) > BlockSize - 1 - (Published - Released)
<1>1. Init => RingInv
  BY FifoInit
<1>2. RingInv /\ [Next]_vars => RingInv'
  BY FifoNext
<1>3. RingInv /\ [Next]_vars => [Justified]_vars
  <2> SUFFICES ASSUME RingInv, Next,
                      NEW p \in Producers,
                      prod[p].pc = "loadTail", prod'[p].pc = "idle"
               PROVE  Total(prod[p].m.len) > BlockSize - 1 - (Published - Released)
    OBVIOUS
  <2> USE DEF RingInv
  <2>1. EnqLoadTail(p)
    <3>1. \A q \in Producers : q = p
      BY DEF OneEach
    <3>2. ASSUME NEW c \in Consumers, Dequeue(c)
          PROVE  FALSE
      BY <3>2 DEF Dequeue, DeqLoadHead, DeqLoadTail, DeqHeader, DeqCheck, DeqBody,
         DeqTrailer, DeqRelease, DeqUncount, DeqHistory
    <3>3. Enqueue(p)
      BY <3>1, <3>2 DEF Next
    <3> QED
      BY <3>3 DEF Enqueue, EnqLoadHead, EnqCopy, EnqPublish, EnqCount
  <2>2. /\ prod[p].m \in Msg /\ prod[p].h = head
    BY DEF MemInv, CopyFits, EnqueueInv
  <2>3. Total(prod[p].m.len) > Free(head, tail)
    <3>1. CASE prod' = [prod EXCEPT ![p].pc = "copy", ![p].t = tail]
      <4>1. prod'[p].pc = "copy"
        BY <3>1 DEF MemInv, TypeOK, ProducerLocals
      <4> QED
        BY <4>1
    <3> QED
      BY <2>1, <2>2, <3>1 DEF EnqLoadTail
  <2> DEFINE d == Published - Released
  <2>4. /\ d \in 0 .. BlockSize - 1 /\ Released \in Nat /\ Published = Released + d
    BY Flight, SMT DEF MemInv
  <2> HIDE DEF d
  <2>5. Free(head, tail) = BlockSize - 1 - d
    BY <2>4, Distance DEF HistoryInv
  <2> QED
    BY <2>3, <2>5 DEF d
<1> QED
  BY <1>1, <1>2, <1>3, PTL DEF Spec, RefusedOnlyWhenFull

(* The ring implements the channel: whatever is dequeued is the message    *)
(* published at that place in the order, whole, and nothing else happens   *)
(* to the two sequences.                                                   *)
THEOREM RingImplementsChannel ==
  ASSUME OneEach
  PROVE  Spec => ChannelSpec
<1>1. Init => RingInv
  BY FifoInit
<1>2. RingInv /\ [Next]_vars => RingInv'
  BY FifoNext
<1>3. Init => Ch!Init
  BY DEF Init, Ch!Init
<1>4. RingInv /\ [Next]_vars => [Ch!Next]_<<sent, rcvd>>
  <2> SUFFICES ASSUME RingInv, [Next]_vars
               PROVE  Ch!Next \/ UNCHANGED <<sent, rcvd>>
    BY DEF Ch!Next
  <2>1. ASSUME NEW p \in Producers, EnqPublish(p)
        PROVE  Ch!Send
    <3>1. prod[p].m \in Msg
      BY <2>1 DEF EnqPublish, RingInv, MemInv, CopyFits
    <3> QED
      BY <2>1, <3>1 DEF EnqPublish, Ch!Send
  <2>2. ASSUME NEW c \in Consumers, DeqRelease(c)
        PROVE  Ch!Receive
    <3>1. /\ Len(rcvd) < Len(sent)
          /\ Delivered(cons[c].buf) = sent[Len(rcvd) + 1]
      BY <2>2, ReleaseWhole DEF DeqRelease
    <3> QED
      BY <2>2, <3>1 DEF DeqRelease, Ch!Receive
  <2>3. CASE \E p \in Producers : Enqueue(p)
    BY <2>1, <2>3 DEF Enqueue, EnqLoadHead, EnqLoadTail, EnqCopy, EnqCount,
       history, Ch!Next
  <2>4. CASE \E c \in Consumers : Dequeue(c)
    BY <2>2, <2>4 DEF Dequeue, DeqLoadHead, DeqLoadTail, DeqHeader, DeqCheck,
       DeqBody, DeqTrailer, DeqUncount, DeqHistory, history, Ch!Next
  <2>5. CASE UNCHANGED vars
    BY <2>5 DEF vars
  <2> QED
    BY <2>3, <2>4, <2>5 DEF Next
<1> QED
  BY <1>1, <1>2, <1>3, <1>4, PTL DEF Spec, ChannelSpec, Ch!Spec

-----------------------------------------------------------------------------
(* Restarts.                                                               *)
RestartInv == RestartTypeOK /\ MemInv

LEMMA RestartInitInv == RestartInit => RestartInv
<1> SUFFICES ASSUME RestartInit PROVE RestartInv
  OBVIOUS
<1>1. MemInv
  BY MemInit DEF RestartInit
<1>2. RestartTypeOK
  BY <1>1, RestartAssumption, RingAssumption
     DEF RestartInit, RestartTypeOK, MemInv, Index
<1> QED
  BY <1>1, <1>2 DEF RestartInv

LEMMA RestartStep == RestartInv /\ [RestartNext]_allVars => RestartInv'
<1> SUFFICES ASSUME RestartInv, [RestartNext]_allVars
             PROVE  RestartInv'
  OBVIOUS
<1> USE DEF RestartInv, RestartTypeOK
<1>0. 0 \in Index /\ 0 \in Word
  BY RingAssumption, Lens, SMT DEF Index, Word
<1>1. CASE Operate
  <2>1. MemInv'
    BY <1>1, EnqueueStep, DequeueStep DEF Operate, Produce, Consume
  <2> QED
    BY <1>1, <2>1 DEF Operate, bootVars, MemInv
<1>2. ASSUME NEW p \in Processes, Boot(p)
      PROVE  RestartInv'
  <2>1. /\ TypeOK' /\ boot' \in
             [Processes -> {"down", "history", "tail", "reload", "head", "up"}]
        /\ reload' \in [Processes -> Index] /\ crashes' \in 0 .. MaxCrashes
        /\ UNCHANGED <<prod, cons>>
    <3>1. CASE BootCurrMsgNum(p)
      BY <1>0, <3>1 DEF BootCurrMsgNum, At, TypeOK, history, Index
    <3>2. CASE BootHistoryMsgNum(p)
      BY <1>0, <3>2 DEF BootHistoryMsgNum, At, TypeOK, history, Index
    <3>3. CASE BootTail(p)
      BY <1>0, <3>3 DEF BootTail, At, TypeOK, history, Index
    <3>4. CASE BootReload(p)
      BY <1>0, <3>4 DEF BootReload, At, TypeOK, history, shared, Index
    <3>5. CASE BootHead(p)
      BY <1>0, <3>5 DEF BootHead, At, TypeOK, history, Index
    <3> QED
      BY <1>2, <3>1, <3>2, <3>3, <3>4, <3>5 DEF Boot
  <2> QED
    BY <2>1 DEF MemInv, CopyFits, FetchFits, Index
<1>3. ASSUME NEW p \in Processes, Crash(p)
      PROVE  RestartInv'
  <2> USE <1>3 DEF Crash, shared, history
  <2>1. IdleProducer \in ProducerLocals
    BY <1>0, RingAssumption DEF IdleProducer, ProducerLocals
  <2>2. <<>> \in Seq(Cell) /\ 0 \in 0 .. BuffSize
    BY RingAssumption, SMT
  <2>3. IdleConsumer \in ConsumerLocals
    BY <1>0, <2>2 DEF IdleConsumer, ConsumerLocals
  <2>4. TypeOK'
    BY <2>1, <2>3 DEF TypeOK
  <2>5. CopyFits'
    BY DEF MemInv, CopyFits, IdleProducer
  <2>6. FetchFits'
    BY DEF MemInv, FetchFits, IdleConsumer
  <2>7. crashes' \in 0 .. MaxCrashes
    BY RestartAssumption, SMT
  <2> QED
    BY <2>4, <2>5, <2>6, <2>7 DEF MemInv, Processes
<1>4. CASE UNCHANGED allVars
  <2>1. MemInv'
    BY <1>4, MemStutter DEF allVars, vars
  <2> QED
    BY <1>4, <2>1 DEF allVars, bootVars, MemInv
<1> QED
  BY <1>1, <1>2, <1>3, <1>4 DEF RestartNext

(* Type correctness with restarts.                                         *)
THEOREM RestartTypeCorrect == RestartSpec => []RestartTypeOK
<1>1. RestartInit => RestartInv
  BY RestartInitInv
<1>2. RestartInv /\ [RestartNext]_allVars => RestartInv'
  BY RestartStep
<1>3. RestartInv => RestartTypeOK
  BY DEF RestartInv
<1> QED
  BY <1>1, <1>2, <1>3, PTL DEF RestartSpec

(* No interleaving of calls, kills and starts makes enqueue or dequeue     *)
(* touch memory outside the block or the caller's buffer.                  *)
THEOREM RestartAccessesSafe == RestartSpec => []MemorySafe
<1>1. RestartInit => RestartInv
  BY RestartInitInv
<1>2. RestartInv /\ [RestartNext]_allVars => RestartInv'
  BY RestartStep
<1>3. RestartInv => MemorySafe
  BY MemInvSafe DEF RestartInv
<1> QED
  BY <1>1, <1>2, <1>3, PTL DEF RestartSpec
=============================================================================

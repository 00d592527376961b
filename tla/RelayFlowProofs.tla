-------------------------- MODULE RelayFlowProofs --------------------------
(* Of the relay, for any number of connections, requests and reads, and    *)
(* for rings and sockets of any size: each request is in one place on its  *)
(* way, and requests stay in the order in which they were asked.           *)
EXTENDS RelayProofs, SequenceTheorems

-----------------------------------------------------------------------------
(* Where the requests are: with the connections, on the way, or gone.      *)

Same(x, y) == x.conn = y.conn /\ x.num = y.num
Apart(A, B) == \A x \in A : \A y \in B : ~Same(x, y)
Earlier(A, B) == \A x \in A : \A y \in B : x.conn = y.conn => x.num < y.num

Anywhere(own, way, gone) ==
  {m \in Messages : \/ \E d \in Conns : m \in ToSet(own[d])
                    \/ m \in ToSet(way)
                    \/ m \in gone}

(* own: what each connection received; way: what is on the way.            *)
Sorted(own, way) ==
  /\ InAskedOrder(way)
  /\ \A d \in Conns : InAskedOrder(own[d]) /\ Earlier(ToSet(own[d]), ToSet(way))
Disjoint(own, way, gone) ==
  /\ \A d, e \in Conns : d # e => Apart(ToSet(own[d]), ToSet(own[e]))
  /\ \A d \in Conns : Apart(ToSet(own[d]), gone)
  /\ Apart(ToSet(way), gone)
  /\ \A x, y \in gone : Same(x, y) => x = y
Complete(all, asked) ==
  /\ \A m \in all : m.num <= asked[m.conn]
  /\ \A c \in Conns : \A n \in 1 .. asked[c] : \E m \in all : IsOf(m, c, n)
Typed(own, way, gone, asked) ==
  /\ own \in [Conns -> Seq(Messages)] /\ way \in Seq(Messages)
  /\ gone \subseteq Messages /\ asked \in [Conns -> Nat]

Flow(own, way, gone, asked) ==
  /\ Typed(own, way, gone, asked)
  /\ Sorted(own, way)
  /\ Disjoint(own, way, gone)
  /\ Complete(Anywhere(own, way, gone), asked)

ReceivedBy == [d \in Conns |-> Received(d)]
Asked == [c \in Conns |-> obj[c].asked]
FlowInv == Flow(ReceivedBy, OnTheWay, lost, Asked)

-----------------------------------------------------------------------------
(* Sequences of messages.                                                  *)
LEMMA SetOfConcat ==
  ASSUME NEW p \in Seq(Messages), NEW r \in Seq(Messages)
  PROVE  ToSet(p \o r) = ToSet(p) \cup ToSet(r)
<1> DEFINE q == p \o r
<1>1. /\ Len(q) = Len(p) + Len(r) /\ Len(p) \in Nat /\ Len(r) \in Nat
      /\ DOMAIN p = 1 .. Len(p) /\ DOMAIN r = 1 .. Len(r)
      /\ DOMAIN q = 1 .. Len(p) + Len(r)
  OBVIOUS
<1>2. \A i \in DOMAIN p : i \in DOMAIN q /\ q[i] = p[i]
  BY <1>1
<1>3. \A i \in DOMAIN r : Len(p) + i \in DOMAIN q /\ q[Len(p) + i] = r[i]
  BY <1>1
<1>4. \A i \in DOMAIN q : i \in DOMAIN p \/ i - Len(p) \in DOMAIN r
  BY <1>1
<1>5. \A i \in DOMAIN q : i \notin DOMAIN p => q[i] = r[i - Len(p)]
  BY <1>1
<1> HIDE DEF q
<1>6. ToSet(p) \cup ToSet(r) \subseteq ToSet(q)
  BY <1>2, <1>3 DEF ToSet
<1>7. ASSUME NEW v \in ToSet(q) PROVE v \in ToSet(p) \cup ToSet(r)
  <2>1. PICK i \in DOMAIN q : q[i] = v
    BY <1>7 DEF ToSet
  <2>2. CASE i \in DOMAIN p
    BY <1>2, <2>1, <2>2 DEF ToSet
  <2>3. CASE i \notin DOMAIN p
    BY <1>4, <1>5, <2>1, <2>3 DEF ToSet
  <2> QED
    BY <2>2, <2>3
<1> QED
  BY <1>6, <1>7 DEF q

LEMMA OrderOfConcat ==
  ASSUME NEW p \in Seq(Messages), NEW r \in Seq(Messages)
  PROVE  InAskedOrder(p \o r) <=> /\ InAskedOrder(p) /\ InAskedOrder(r)
                                  /\ Earlier(ToSet(p), ToSet(r))
<1> DEFINE q == p \o r
           n == Len(p)
<1>1. /\ Len(q) = n + Len(r) /\ n \in Nat /\ Len(r) \in Nat
      /\ DOMAIN p = 1 .. n /\ DOMAIN r = 1 .. Len(r)
      /\ DOMAIN q = 1 .. n + Len(r)
  OBVIOUS
<1>2. \A i \in DOMAIN p : i \in DOMAIN q /\ q[i] = p[i]
  BY <1>1
<1>3. \A i \in DOMAIN r : n + i \in DOMAIN q /\ q[n + i] = r[i]
  BY <1>1
<1>4. \A i \in DOMAIN q : i \notin DOMAIN p => i - n \in DOMAIN r /\ q[i] = r[i - n]
  BY <1>1
<1> HIDE DEF q, n
<1>5. ASSUME InAskedOrder(q)
      PROVE  InAskedOrder(p) /\ InAskedOrder(r) /\ Earlier(ToSet(p), ToSet(r))
  <2>1. InAskedOrder(p)
    BY <1>2, <1>5 DEF InAskedOrder
  <2>2. InAskedOrder(r)
    <3> SUFFICES ASSUME NEW i \in DOMAIN r, NEW j \in DOMAIN r, i < j,
                        r[i].conn = r[j].conn
                 PROVE  r[i].num < r[j].num
      BY DEF InAskedOrder
    <3>1. n + i < n + j
      BY <1>1
    <3> QED
      BY <1>3, <1>5, <3>1 DEF InAskedOrder
  <2>3. Earlier(ToSet(p), ToSet(r))
    <3> SUFFICES ASSUME NEW i \in DOMAIN p, NEW j \in DOMAIN r,
                        p[i].conn = r[j].conn
                 PROVE  p[i].num < r[j].num
      BY DEF Earlier, ToSet
    <3>1. i < n + j
      BY <1>1
    <3> QED
      BY <1>2, <1>3, <1>5, <3>1 DEF InAskedOrder
  <2> QED
    BY <2>1, <2>2, <2>3
<1>6. ASSUME InAskedOrder(p), InAskedOrder(r), Earlier(ToSet(p), ToSet(r))
      PROVE  InAskedOrder(q)
  <2> SUFFICES ASSUME NEW i \in DOMAIN q, NEW j \in DOMAIN q, i < j,
                      q[i].conn = q[j].conn
               PROVE  q[i].num < q[j].num
    BY DEF InAskedOrder
  <2>1. CASE j \in DOMAIN p
    <3>1. i \in DOMAIN p
      BY <1>1, <2>1
    <3> QED
      BY <1>2, <1>6, <2>1, <3>1 DEF InAskedOrder
  <2>2. CASE i \notin DOMAIN p
    <3>1. j \notin DOMAIN p /\ i - n < j - n
      BY <1>1, <2>2
    <3> QED
      BY <1>4, <1>6, <2>2, <3>1 DEF InAskedOrder
  <2>3. CASE i \in DOMAIN p /\ j \notin DOMAIN p
    BY <1>2, <1>4, <1>6, <2>3 DEF Earlier, ToSet
  <2> QED
    BY <2>1, <2>2, <2>3
<1> QED
  BY <1>5, <1>6 DEF q

LEMMA OneMessage ==
  ASSUME NEW m \in Messages
  PROVE  /\ <<m>> \in Seq(Messages) /\ ToSet(<<m>>) = {m}
         /\ <<>> \in Seq(Messages) /\ ToSet(<<>>) = {}
         /\ InAskedOrder(<<m>>) /\ InAskedOrder(<<>>)
<1>1. /\ <<m>> \in Seq(Messages) /\ DOMAIN <<m>> = {1} /\ <<m>>[1] = m
      /\ <<>> \in Seq(Messages) /\ DOMAIN <<>> = {}
  OBVIOUS
<1>2. ToSet(<<m>>) = {m} /\ ToSet(<<>>) = {}
  BY <1>1 DEF ToSet
<1> QED
  BY <1>1, <1>2 DEF InAskedOrder

LEMMA OneMore ==
  ASSUME NEW q \in Seq(Messages), NEW m \in Messages
  PROVE  q \o <<m>> \in Seq(Messages) /\ ToSet(q \o <<m>>) = ToSet(q) \cup {m}
<1>1. <<m>> \in Seq(Messages) /\ ToSet(<<m>>) = {m}
  BY OneMessage
<1>2. ToSet(q \o <<m>>) = ToSet(q) \cup ToSet(<<m>>)
  BY <1>1, SetOfConcat
<1>3. q \o <<m>> \in Seq(Messages)
  BY <1>1
<1> QED
  BY <1>1, <1>2, <1>3

LEMMA SetOfMessages ==
  ASSUME NEW q \in Seq(Messages)
  PROVE  ToSet(q) \subseteq Messages
BY DEF ToSet

LEMMA Regrouped ==
  ASSUME NEW p \in Seq(Messages), NEW q \in Seq(Messages), NEW r \in Seq(Messages)
  PROVE  /\ (p \o q) \o r = p \o (q \o r)
         /\ p \o q \in Seq(Messages) /\ q \o r \in Seq(Messages)
BY SMTT(20)

LEMMA Cut ==
  ASSUME NEW q \in Seq(Messages), NEW n \in 0 .. Len(q)
  PROVE  q = SubSeq(q, 1, n) \o SubSeq(q, n + 1, Len(q))
<1>1. /\ Len(q) \in Nat /\ n \in 1 - 1 .. Len(q)
      /\ 1 \in 1 .. Len(q) + 1 /\ Len(q) \in n .. Len(q)
  OBVIOUS
<1>2. SubSeq(q, 1, n) \o SubSeq(q, n + 1, Len(q)) = SubSeq(q, 1, Len(q))
  BY <1>1, ConcatAdjacentSubSeq, Zenon
<1>3. SubSeq(q, 1, Len(q)) = q
  BY SubSeqFull, Zenon
<1> QED
  BY <1>2, <1>3

LEMMA HeadAndTail ==
  ASSUME NEW q \in Seq(Messages), q # <<>>
  PROVE  /\ Head(q) \in Messages /\ Tail(q) \in Seq(Messages)
         /\ q = <<Head(q)>> \o Tail(q)
OBVIOUS

LEMMA MessageFields ==
  ASSUME NEW m \in Messages
  PROVE  m.seq \in Seqs /\ m.conn \in Conns /\ m.num \in Nat /\ m.num > 0
BY DEF Messages

-----------------------------------------------------------------------------
(* The steps of a request.                                                 *)

(* A request is asked: it goes to the end of the way, or is dropped.       *)
LEMMA Ask ==
  ASSUME NEW own, NEW way, NEW gone, NEW asked, Flow(own, way, gone, asked),
         NEW m \in Messages, m.num = asked[m.conn] + 1
  PROVE  LET more == [asked EXCEPT ![m.conn] = @ + 1]
         IN /\ Flow(own, way \o <<m>>, gone, more)
            /\ Flow(own, way, gone \cup {m}, more)
<1> DEFINE more == [asked EXCEPT ![m.conn] = @ + 1]
           all == Anywhere(own, way, gone)
           longer == way \o <<m>>
<1>1. /\ Typed(own, way, gone, asked) /\ Sorted(own, way)
      /\ Disjoint(own, way, gone) /\ Complete(all, asked)
  BY DEF Flow
<1>2. m.conn \in Conns /\ asked \in [Conns -> Nat]
  BY <1>1, MessageFields DEF Typed
<1>3. more \in [Conns -> Nat] /\ more[m.conn] = asked[m.conn] + 1
      /\ \A c \in Conns : c # m.conn => more[c] = asked[c]
  BY <1>2
<1>4. longer \in Seq(Messages) /\ ToSet(longer) = ToSet(way) \cup {m}
  BY <1>1, OneMore DEF Typed
<1>5. /\ \A d \in Conns : ToSet(own[d]) \subseteq all
      /\ ToSet(way) \subseteq all /\ gone \subseteq all
  BY <1>1, SetOfMessages DEF Typed, Anywhere
<1>6. \A x \in all : x \in Messages
  BY DEF Anywhere
<1>7. \A x \in all : x.conn = m.conn => x.num < m.num
  <2> SUFFICES ASSUME NEW x \in all, x.conn = m.conn PROVE x.num < m.num
    OBVIOUS
  <2>1. x.num <= asked[m.conn]
    BY <1>1 DEF Complete
  <2>2. x.num \in Nat /\ asked[m.conn] \in Nat
    BY <1>2, <1>6, MessageFields
  <2> QED
    BY <2>1, <2>2
<1>8. \A x \in all : ~Same(x, m) /\ ~Same(m, x)
  <2> SUFFICES ASSUME NEW x \in all, x.conn = m.conn, x.num = m.num PROVE FALSE
    BY DEF Same
  <2> QED
    BY <1>6, <1>7, MessageFields
<1>9. Complete(all \cup {m}, more)
  <2>1. ASSUME NEW x \in all PROVE x.num <= more[x.conn]
    <3>1. x.num \in Nat /\ x.conn \in Conns /\ x.num <= asked[x.conn]
      BY <1>1, <1>6, <2>1, MessageFields DEF Complete
    <3> QED
      BY <1>2, <1>3, <3>1
  <2>2. m.num <= more[m.conn]
    BY <1>2, <1>3
  <2>3. ASSUME NEW c \in Conns, NEW n \in 1 .. more[c]
        PROVE  \E x \in all \cup {m} : IsOf(x, c, n)
    <3>1. CASE n \in 1 .. asked[c]
      BY <1>1, <3>1 DEF Complete
    <3>2. CASE n \notin 1 .. asked[c]
      <4>1. c = m.conn /\ n = m.num
        BY <1>2, <1>3, <3>2
      <4> QED
        BY <4>1 DEF IsOf
    <3> QED
      BY <3>1, <3>2
  <2> QED
    BY <2>1, <2>2, <2>3 DEF Complete
<1>10. Flow(own, longer, gone, more)
  <2>1. Typed(own, longer, gone, more)
    BY <1>1, <1>3, <1>4 DEF Typed
  <2>2. Sorted(own, longer)
    <3>1. Earlier(ToSet(way), {m})
      BY <1>5, <1>7 DEF Earlier
    <3>2. InAskedOrder(longer)
      BY <1>1, <3>1, OneMessage, OrderOfConcat DEF Typed, Sorted
    <3>3. \A d \in Conns : Earlier(ToSet(own[d]), ToSet(longer))
      BY <1>1, <1>4, <1>5, <1>7 DEF Earlier, Sorted
    <3> QED
      BY <1>1, <3>2, <3>3 DEF Sorted
  <2>3. Disjoint(own, longer, gone)
    BY <1>1, <1>4, <1>5, <1>8 DEF Disjoint, Apart
  <2>4. Anywhere(own, longer, gone) = all \cup {m}
    BY <1>4 DEF Anywhere
  <2> QED
    BY <1>9, <2>1, <2>2, <2>3, <2>4 DEF Flow
<1>11. Flow(own, way, gone \cup {m}, more)
  <2>1. Typed(own, way, gone \cup {m}, more)
    BY <1>1, <1>3 DEF Typed
  <2>2. Disjoint(own, way, gone \cup {m})
    <3>1. \A x, y \in gone \cup {m} : Same(x, y) => x = y
      BY <1>1, <1>5, <1>8 DEF Disjoint
    <3> QED
      BY <1>1, <1>5, <1>8, <3>1 DEF Disjoint, Apart
  <2>3. Anywhere(own, way, gone \cup {m}) = all \cup {m}
    BY DEF Anywhere
  <2> QED
    BY <1>1, <1>9, <2>1, <2>2, <2>3 DEF Flow
<1> QED
  BY <1>10, <1>11

(* The first message on the way reaches a connection.                      *)
LEMMA Deliver ==
  ASSUME NEW own, NEW way, NEW gone, NEW asked, Flow(own, way, gone, asked),
         NEW d \in Conns, NEW m \in Messages, NEW rest \in Seq(Messages),
         way = <<m>> \o rest
  PROVE  Flow([own EXCEPT ![d] = @ \o <<m>>], rest, gone, asked)
<1> DEFINE mine == own[d] \o <<m>>
           new == [own EXCEPT ![d] = mine]
<1>1. /\ Typed(own, way, gone, asked) /\ Sorted(own, way)
      /\ Disjoint(own, way, gone) /\ Complete(Anywhere(own, way, gone), asked)
  BY DEF Flow
<1>2. own \in [Conns -> Seq(Messages)] /\ own[d] \in Seq(Messages)
  BY <1>1 DEF Typed
<1>0. <<m>> \in Seq(Messages) /\ ToSet(<<m>>) = {m}
  BY OneMessage
<1>3. mine \in Seq(Messages) /\ ToSet(mine) = ToSet(own[d]) \cup {m}
  BY <1>2, OneMore
<1>4. /\ ToSet(way) = {m} \cup ToSet(rest)
      /\ InAskedOrder(rest) /\ Earlier({m}, ToSet(rest))
  <2>1. ToSet(way) = {m} \cup ToSet(rest)
    BY <1>0, SetOfConcat
  <2>2. InAskedOrder(<<m>> \o rest)
    BY <1>1 DEF Sorted
  <2> QED
    BY <1>0, <2>1, <2>2, OrderOfConcat
<1> HIDE DEF mine
<1>5. /\ new \in [Conns -> Seq(Messages)] /\ new[d] = mine
      /\ \A e \in Conns : e # d => new[e] = own[e]
  BY <1>2, <1>3
<1> HIDE DEF new
<1>6. Typed(new, rest, gone, asked)
  BY <1>1, <1>5 DEF Typed
<1>7. Sorted(new, rest)
  <2>1. Earlier(ToSet(own[d]), {m})
    BY <1>1, <1>4 DEF Sorted, Earlier
  <2>2. InAskedOrder(mine)
    BY <1>1, <1>2, <2>1, OneMessage, OrderOfConcat, ZenonT(40) DEF Sorted, mine
  <2>3. \A e \in Conns : Earlier(ToSet(own[e]), ToSet(rest))
    BY <1>1, <1>4 DEF Sorted, Earlier
  <2>4. Earlier(ToSet(mine), ToSet(rest))
    BY <1>3, <1>4, <2>3 DEF Earlier
  <2> QED
    BY <1>1, <1>4, <1>5, <2>2, <2>3, <2>4 DEF Sorted
<1>8. Disjoint(new, rest, gone)
  <2>1. \A e \in Conns : ToSet(new[e]) \subseteq ToSet(own[e]) \cup {m}
    BY <1>3, <1>5
  <2>2. \A e \in Conns : Apart(ToSet(own[e]), {m}) /\ Apart({m}, ToSet(own[e]))
    <3> SUFFICES ASSUME NEW e \in Conns, NEW x \in ToSet(own[e]),
                        Same(x, m) \/ Same(m, x)
                 PROVE  FALSE
      BY DEF Apart
    <3>1. x.conn = m.conn /\ x.num = m.num
      BY DEF Same
    <3>2. x.num < m.num
      BY <1>1, <1>4, <3>1 DEF Sorted, Earlier
    <3> QED
      BY <3>1, <3>2, MessageFields
  <2>3. \A e, f \in Conns : e # f => Apart(ToSet(new[e]), ToSet(new[f]))
    <3> SUFFICES ASSUME NEW e \in Conns, NEW f \in Conns, e # f
                 PROVE  Apart(ToSet(new[e]), ToSet(new[f]))
      OBVIOUS
    <3>1. Apart(ToSet(own[e]), ToSet(own[f]))
      BY <1>1 DEF Disjoint
    <3> QED
      BY <1>3, <1>5, <2>2, <3>1 DEF Apart
  <2>4. \A e \in Conns : Apart(ToSet(new[e]), gone)
    BY <1>1, <1>4, <2>1 DEF Disjoint, Apart
  <2>5. Apart(ToSet(rest), gone)
    BY <1>1, <1>4 DEF Disjoint, Apart
  <2> QED
    BY <1>1, <2>3, <2>4, <2>5 DEF Disjoint
<1>9. Anywhere(new, rest, gone) = Anywhere(own, way, gone)
  <2>1. \A x : (\E e \in Conns : x \in ToSet(new[e]))
                <=> x = m \/ \E e \in Conns : x \in ToSet(own[e])
    BY <1>3, <1>5
  <2> QED
    BY <1>4, <2>1 DEF Anywhere
<1> QED
  BY <1>1, <1>6, <1>7, <1>8, <1>9 DEF Flow, new, mine

(* A message on the way is dropped.                                        *)
LEMMA Drop ==
  ASSUME NEW own, NEW way, NEW gone, NEW asked, Flow(own, way, gone, asked),
         NEW p \in Seq(Messages), NEW m \in Messages, NEW r \in Seq(Messages),
         way = p \o (<<m>> \o r)
  PROVE  Flow(own, p \o r, gone \cup {m}, asked)
<1>1. /\ Typed(own, way, gone, asked) /\ Sorted(own, way)
      /\ Disjoint(own, way, gone) /\ Complete(Anywhere(own, way, gone), asked)
  BY DEF Flow
<1>2. <<m>> \o r \in Seq(Messages) /\ p \o r \in Seq(Messages)
  BY OneMessage
<1>3. /\ ToSet(<<m>> \o r) = {m} \cup ToSet(r)
      /\ ToSet(p \o r) = ToSet(p) \cup ToSet(r)
      /\ ToSet(way) = ToSet(p) \cup {m} \cup ToSet(r)
  <2>1. <<m>> \in Seq(Messages) /\ ToSet(<<m>>) = {m}
    BY OneMessage
  <2>2. /\ ToSet(<<m>> \o r) = {m} \cup ToSet(r)
        /\ ToSet(p \o r) = ToSet(p) \cup ToSet(r)
    BY <2>1, SetOfConcat
  <2>3. ToSet(p \o (<<m>> \o r)) = ToSet(p) \cup ToSet(<<m>> \o r)
    BY <1>2, SetOfConcat
  <2> QED
    BY <2>2, <2>3
<1>4. /\ InAskedOrder(p) /\ InAskedOrder(r)
      /\ Earlier(ToSet(p), ToSet(r)) /\ Earlier(ToSet(p), {m})
      /\ Earlier({m}, ToSet(r))
  <2>1. InAskedOrder(p) /\ InAskedOrder(<<m>> \o r)
        /\ Earlier(ToSet(p), ToSet(<<m>> \o r))
    BY <1>1, <1>2, OrderOfConcat DEF Sorted
  <2>2. InAskedOrder(r) /\ Earlier({m}, ToSet(r))
    <3>1. <<m>> \in Seq(Messages) /\ ToSet(<<m>>) = {m}
      BY OneMessage
    <3> QED
      BY <2>1, <3>1, OrderOfConcat
  <2> QED
    BY <1>3, <2>1, <2>2 DEF Earlier
<1> DEFINE left == p \o r
<1>5. left \in Seq(Messages) /\ ToSet(left) = ToSet(p) \cup ToSet(r)
      /\ InAskedOrder(left)
  BY <1>2, <1>3, <1>4, OrderOfConcat
<1> HIDE DEF left
<1>6. Typed(own, left, gone \cup {m}, asked)
  BY <1>1, <1>5 DEF Typed
<1>7. Sorted(own, left)
  BY <1>1, <1>3, <1>5 DEF Sorted, Earlier
<1>8. Disjoint(own, left, gone \cup {m})
  <2>1. \A q \in Seq(Messages) : ToSet(q) \subseteq Messages
    BY DEF ToSet
  <2>2. \A x, y \in Messages : Same(x, y) => x.conn = y.conn /\ ~(x.num < y.num) /\ ~(y.num < x.num)
    BY MessageFields DEF Same
  <2>3. \A d \in Conns : Apart(ToSet(own[d]), {m})
    BY <1>1, <1>3, <2>1, <2>2, ZenonT(40) DEF Sorted, Earlier, Apart, Typed
  <2>4. Apart(ToSet(left), {m})
    BY <1>4, <1>5, <2>1, <2>2 DEF Earlier, Apart
  <2>5. \A x \in gone : ~Same(x, m) /\ ~Same(m, x)
    BY <1>1, <1>3 DEF Disjoint, Apart, Same
  <2>6. \A x, y \in gone \cup {m} : Same(x, y) => x = y
    BY <1>1, <2>5 DEF Disjoint
  <2>7. Apart(ToSet(left), gone)
    BY <1>1, <1>3, <1>5 DEF Disjoint, Apart
  <2> QED
    BY <1>1, <2>3, <2>4, <2>6, <2>7 DEF Disjoint, Apart
<1>9. Anywhere(own, left, gone \cup {m}) = Anywhere(own, way, gone)
  BY <1>3, <1>5 DEF Anywhere
<1> QED
  BY <1>1, <1>6, <1>7, <1>8, <1>9 DEF Flow, left

(* A connection ends, and what it had of responses beyond those its client *)
(* has got is dropped.                                                     *)
LEMMA End ==
  ASSUME NEW own, NEW way, NEW gone, NEW asked, Flow(own, way, gone, asked),
         NEW d \in Conns, NEW p \in Seq(Messages), NEW r \in Seq(Messages),
         own[d] = p \o r
  PROVE  Flow([own EXCEPT ![d] = p], way, gone \cup ToSet(r), asked)
<1> DEFINE new == [own EXCEPT ![d] = p]
           more == gone \cup ToSet(r)
<1>1. /\ Typed(own, way, gone, asked) /\ Sorted(own, way)
      /\ Disjoint(own, way, gone) /\ Complete(Anywhere(own, way, gone), asked)
  BY DEF Flow
<1>2. ToSet(own[d]) = ToSet(p) \cup ToSet(r)
  BY SetOfConcat
<1>3. /\ InAskedOrder(p) /\ InAskedOrder(r) /\ Earlier(ToSet(p), ToSet(r))
  BY <1>1, OrderOfConcat DEF Sorted
<1>4. /\ new \in [Conns -> Seq(Messages)] /\ new[d] = p
      /\ \A e \in Conns : e # d => new[e] = own[e]
  BY <1>1 DEF Typed
<1>5. ToSet(p) \subseteq Messages /\ ToSet(r) \subseteq Messages
  BY DEF ToSet
<1>6. \A e \in Conns : ToSet(new[e]) \subseteq ToSet(own[e])
  BY <1>2, <1>4
<1> HIDE DEF new
<1>7. Typed(new, way, more, asked)
  BY <1>1, <1>4, <1>5 DEF Typed
<1>8. Sorted(new, way)
  BY <1>1, <1>3, <1>4, <1>6 DEF Sorted, Earlier
<1>9. Disjoint(new, way, more)
  <2>1. \A x, y \in Messages :
          Same(x, y) => x.conn = y.conn /\ ~(x.num < y.num) /\ ~(y.num < x.num)
    BY MessageFields DEF Same
  <2>2. Apart(ToSet(p), ToSet(r))
    BY <1>3, <1>5, <2>1 DEF Earlier, Apart
  <2>3. \A x, y \in ToSet(r) : Same(x, y) => x = y
    <3> SUFFICES ASSUME NEW i \in DOMAIN r, NEW j \in DOMAIN r, Same(r[i], r[j])
                 PROVE  r[i] = r[j]
      BY DEF ToSet
    <3>1. r[i] \in Messages /\ r[j] \in Messages /\ i \in Nat /\ j \in Nat
      OBVIOUS
    <3>2. ~(i < j) /\ ~(j < i)
      BY <1>3, <2>1, <3>1 DEF InAskedOrder, Same
    <3> QED
      BY <3>1, <3>2
  <2>4. Apart(ToSet(r), gone)
    BY <1>1, <1>2 DEF Disjoint, Apart
  <2>5. \A x, y \in more : Same(x, y) => x = y
    <3>1. \A x \in gone : \A y \in ToSet(r) : ~Same(x, y)
      BY <2>4 DEF Apart, Same
    <3> QED
      BY <1>1, <2>3, <2>4, <3>1 DEF Disjoint, Apart
  <2>6. Apart(ToSet(way), ToSet(r))
    <3> SUFFICES ASSUME NEW x \in ToSet(way), NEW y \in ToSet(r), Same(x, y)
                 PROVE  FALSE
      BY DEF Apart
    <3>1. y.conn = x.conn => y.num < x.num
      BY <1>1, <1>2 DEF Sorted, Earlier
    <3>2. x \in Messages /\ y \in Messages
      BY <1>1, <1>5 DEF Typed, ToSet
    <3> QED
      BY <2>1, <3>1, <3>2 DEF Same
  <2>7. \A e, f \in Conns : e # f => Apart(ToSet(new[e]), ToSet(new[f]))
    BY <1>1, <1>6 DEF Disjoint, Apart
  <2>8. ASSUME NEW e \in Conns PROVE Apart(ToSet(new[e]), more)
    <3>1. Apart(ToSet(new[e]), gone)
      BY <1>1, <1>6 DEF Disjoint, Apart
    <3>2. Apart(ToSet(new[e]), ToSet(r))
      <4>1. CASE e = d
        BY <1>4, <2>2, <4>1
      <4>2. CASE e # d
        BY <1>1, <1>2, <1>4, <4>2 DEF Disjoint, Apart
      <4> QED
        BY <4>1, <4>2
    <3> QED
      BY <3>1, <3>2 DEF Apart
  <2>9. Apart(ToSet(way), more)
    BY <1>1, <2>6 DEF Disjoint, Apart
  <2> HIDE DEF more
  <2> QED
    BY <2>5, <2>7, <2>8, <2>9 DEF Disjoint
<1>10. Anywhere(new, way, more) = Anywhere(own, way, gone)
  <2>1. \A x : (\E e \in Conns : x \in ToSet(own[e]))
                <=> x \in ToSet(r) \/ \E e \in Conns : x \in ToSet(new[e])
    BY <1>2, <1>4
  <2> QED
    BY <2>1 DEF Anywhere
<1> QED
  BY <1>1, <1>7, <1>8, <1>9, <1>10 DEF Flow, new

-----------------------------------------------------------------------------
(* The steps of the relay.                                                 *)
LEMMA FlowTypes ==
  ASSUME TypeOK
  PROVE  /\ InHand \in Seq(Messages) /\ OnTheWay \in Seq(Messages)
         /\ \A d \in Conns : Received(d) \in Seq(Messages)
<1>1. InHand \in Seq(Messages)
  <2>1. wk.pc = "reply" => wk.msg \in Messages
    BY DEF TypeOK
  <2> QED
    BY <2>1 DEF InHand
<1>2. OnTheWay \in Seq(Messages)
  BY <1>1, RestOfType DEF OnTheWay
<1>3. \A d \in Conns : Received(d) \in Seq(Messages)
  BY OfType DEF Received
<1> QED
  BY <1>1, <1>2, <1>3

LEMMA FlowKept ==
  ASSUME FlowInv, OnTheWay' = OnTheWay, lost' = lost,
         \A d \in Conns : Received(d)' = Received(d) /\ obj'[d].asked = obj[d].asked
  PROVE  FlowInv'
<1>1. ReceivedBy' = ReceivedBy /\ Asked' = Asked
  BY DEF ReceivedBy, Asked
<1> QED
  BY <1>1 DEF FlowInv

LEMMA ReceivedKept ==
  ASSUME NEW d \in Conns, client'[d].got = client[d].got,
         sock'[d].out = sock[d].out, obj'[d].rcache = obj[d].rcache
  PROVE  Received(d)' = Received(d)
BY DEF Received

LEMMA OnTheWayKept ==
  ASSUME UNCHANGED <<reqRing, respRing, wk>>
  PROVE  OnTheWay' = OnTheWay
BY DEF OnTheWay, InHand

(* Steps that touch no message.                                            *)
LEMMA NothingMoves ==
  ASSUME FlowInv, UNCHANGED <<reqRing, respRing, wk, lost>>,
         \A d \in Conns : /\ client'[d].got = client[d].got
                          /\ sock'[d].out = sock[d].out
                          /\ obj'[d].rcache = obj[d].rcache
                          /\ obj'[d].asked = obj[d].asked
  PROVE  FlowInv'
BY FlowKept, ReceivedKept, OnTheWayKept

LEMMA OutKept ==
  ASSUME TypeOK, NEW c \in Conns, NEW k, k.out = sock[c].out,
         sock' = [sock EXCEPT ![c] = k]
  PROVE  \A d \in Conns : sock'[d].out = sock[d].out
<1>1. sock \in [Conns -> Socks]
  BY OfType
<1> QED
  BY <1>1

LEMMA SameOut ==
  ASSUME NEW k \in Socks
  PROVE  /\ [k EXCEPT !.fin = TRUE].out = k.out
         /\ [k EXCEPT !.rst = "abort"].out = k.out
         /\ \A n : [k EXCEPT !.in = n].out = k.out
BY DEF Socks

LEMMA ClientFlow ==
  ASSUME TypeOK, FlowInv, NEW c \in Conns,
         Connect(c) \/ Send(c) \/ Close(c) \/ Reset(c)
  PROVE  FlowInv'
<1>1. UNCHANGED <<obj, reqRing, respRing, wk, lost>>
  BY DEF Connect, Send, Close, Reset, rings
<1>2. \A d \in Conns : client'[d].got = client[d].got
  <2>1. CASE Connect(c)
    BY <2>1, OfType DEF Connect, Clients
  <2>2. CASE Send(c)
    BY <2>2, OfType DEF Send, Clients
  <2>3. CASE Close(c)
    BY <2>3, OfType DEF Close, Clients
  <2>4. CASE Reset(c)
    BY <2>4 DEF Reset
  <2> QED
    BY <2>1, <2>2, <2>3, <2>4
<1>3. \A d \in Conns : sock'[d].out = sock[d].out
  <2>1. CASE Connect(c)
    BY <2>1, OfType DEF Connect, Socks
  <2>2. CASE Send(c)
    <3>1. \/ sock' = [sock EXCEPT ![c] = [sock[c] EXCEPT !.in = sock[c].in + 1]]
          \/ sock' = sock
      BY <2>2 DEF Send
    <3> DEFINE k == [sock[c] EXCEPT !.in = sock[c].in + 1]
    <3>2. k.out = sock[c].out
      BY OfType, SameOut
    <3> HIDE DEF k
    <3>3. CASE sock' = [sock EXCEPT ![c] = k]
      BY <3>2, <3>3, OutKept
    <3> QED
      BY <3>1, <3>3 DEF k
  <2>3. CASE Close(c)
    <3>1. \/ sock' = [sock EXCEPT ![c] = [sock[c] EXCEPT !.fin = TRUE]]
          \/ sock' = [sock EXCEPT ![c] = [sock[c] EXCEPT !.rst = "abort"]]
          \/ sock' = sock
      BY <2>3 DEF Close
    <3>2. sock[c] \in Socks
      BY OfType
    <3>3. /\ [sock[c] EXCEPT !.fin = TRUE].out = sock[c].out
          /\ [sock[c] EXCEPT !.rst = "abort"].out = sock[c].out
      BY <3>2, SameOut
    <3> DEFINE j == [sock[c] EXCEPT !.fin = TRUE]
               k == [sock[c] EXCEPT !.rst = "abort"]
    <3> HIDE DEF j, k
    <3>4. CASE sock' = [sock EXCEPT ![c] = j]
      BY <3>3, <3>4, OutKept DEF j
    <3>5. CASE sock' = [sock EXCEPT ![c] = k]
      BY <3>3, <3>5, OutKept DEF k
    <3> QED
      BY <3>1, <3>4, <3>5 DEF j, k
  <2>4. CASE Reset(c)
    BY <2>4, OfType DEF Reset, Socks
  <2> QED
    BY <2>1, <2>2, <2>3, <2>4
<1> QED
  BY <1>1, <1>2, <1>3, NothingMoves

LEMMA ReceiveFlow ==
  ASSUME TypeOK, FlowInv, NEW c \in Conns, ClientReceive(c)
  PROVE  FlowInv'
<1> DEFINE m == Head(sock[c].out)
           rest == Tail(sock[c].out)
           got == client[c].got
<1>1. /\ client' = [client EXCEPT ![c].got = Append(got, m)]
      /\ sock' = [sock EXCEPT ![c].out = rest]
      /\ UNCHANGED <<obj, reqRing, respRing, wk, lost>>
  BY OfType DEF ClientReceive, rings
<1>2. /\ sock[c].out \in Seq(Messages) /\ sock[c].out # <<>>
      /\ got \in Seq(Messages) /\ obj[c].rcache \in Seq(Messages)
  BY OfType DEF ClientReceive
<1>3. m \in Messages /\ rest \in Seq(Messages) /\ sock[c].out = <<m>> \o rest
  BY <1>2, HeadAndTail
<1> HIDE DEF m, rest, got
<1>4. \A d \in Conns : d # c => Received(d)' = Received(d)
  BY <1>1, OfType DEF Received
<1>5. Received(c)' = Received(c)
  <2>1. /\ client'[c].got = Append(got, m) /\ sock'[c].out = rest
        /\ obj'[c].rcache = obj[c].rcache
    BY <1>1, OfType DEF Clients, Socks
  <2>2. Append(got, m) \o rest = got \o (<<m>> \o rest)
    BY <1>2, <1>3
  <2> QED
    BY <1>3, <2>1, <2>2 DEF Received, got
<1> QED
  BY <1>1, <1>4, <1>5, FlowKept, OnTheWayKept

(* Turns of the proxy's loop that touch no message.                        *)
LEMMA AcceptFlow ==
  ASSUME TypeOK, FlowInv, PxAccept
  PROVE  FlowInv'
<1>1. UNCHANGED <<client, sock, reqRing, respRing, wk, lost>>
  BY DEF PxAccept, AcceptNone, AcceptOne, kernel, rings
<1>2. CASE AcceptNone
  BY <1>1, <1>2, NothingMoves DEF AcceptNone
<1>3. CASE AcceptOne
  <2>1. obj' = [obj EXCEPT ![Head(backlog)].seq = Head(free)]
    BY <1>3 DEF AcceptOne, AddPollerObj
  <2>2. \A d \in Conns : obj'[d].rcache = obj[d].rcache /\ obj'[d].asked = obj[d].asked
    BY <2>1, OfType DEF CClients
  <2> QED
    BY <1>1, <2>2, NothingMoves
<1> QED
  BY <1>2, <1>3 DEF PxAccept

LEMMA FifoFlow ==
  ASSUME FlowInv, PxWait \/ PxNotify \/ PxDrain
  PROVE  FlowInv'
<1>1. UNCHANGED <<client, sock, obj, reqRing, respRing, wk, lost>>
  BY DEF PxWait, PxNotify, PxDrain, kernel, rings
<1> QED
  BY <1>1, NothingMoves

(* A connection is closed.                                                 *)
LEMMA OverFlow ==
  ASSUME TypeOK, FlowInv, NEW c \in Conns, OnConnOver(c),
         UNCHANGED <<client, rings, wk>>
  PROVE  FlowInv'
<1> DEFINE p == client[c].got
           q == sock[c].out
           r == obj[c].rcache
<1>1. p \in Seq(Messages) /\ q \in Seq(Messages) /\ r \in Seq(Messages)
  BY OfType
<1>2. /\ lost' = lost \cup ToSet(q \o r)
      /\ q \o r \in Seq(Messages)
      /\ Received(c) = p \o (q \o r)
  <2>1. ToSet(q \o r) = ToSet(q) \cup ToSet(r)
    BY <1>1, SetOfConcat
  <2>2. Received(c) = p \o (q \o r)
    BY <1>1, Regrouped, ZenonT(40) DEF Received
  <2> QED
    BY <1>1, <2>1, <2>2, SMTT(20) DEF OnConnOver
<1>3. Received(c)' = p
  <2>1. sock'[c].out = <<>> /\ obj'[c].rcache = <<>> /\ client' = client
    BY OfType DEF OnConnOver, NoSock, NoObj
  <2> QED
    BY <1>1, <2>1 DEF Received
<1>4. \A d \in Conns : d # c => Received(d)' = Received(d)
  BY OfType DEF OnConnOver, Received
<1> HIDE DEF p, q, r
<1>5. \A d \in Conns : obj'[d].asked = obj[d].asked
  BY OfType DEF OnConnOver, NoObj
<1>6. Asked' = Asked /\ OnTheWay' = OnTheWay
  BY <1>5, OnTheWayKept DEF Asked, rings
<1>7. ReceivedBy' = [ReceivedBy EXCEPT ![c] = p]
  BY <1>3, <1>4 DEF ReceivedBy
<1>8. ReceivedBy[c] = p \o (q \o r)
  BY <1>2 DEF ReceivedBy
<1>9. Flow([ReceivedBy EXCEPT ![c] = p], OnTheWay, lost \cup ToSet(q \o r), Asked)
  BY <1>1, <1>2, <1>8, End DEF FlowInv
<1> QED
  BY <1>2, <1>6, <1>7, <1>9 DEF FlowInv

(* What is written moves from the cache to the socket.                     *)
LEMMA WrittenFlow ==
  ASSUME TypeOK, FlowInv, NEW c \in Conns, NEW n \in 0 .. Len(obj[c].rcache),
         NEW o, o.rcache = SubSeq(obj[c].rcache, n + 1, Len(obj[c].rcache)),
         o.asked = obj[c].asked,
         obj' = [obj EXCEPT ![c] = o],
         sock' = [sock EXCEPT ![c] =
                    [sock[c] EXCEPT !.out = @ \o SubSeq(obj[c].rcache, 1, n)]],
         UNCHANGED <<client, rings, wk, lost>>
  PROVE  FlowInv'
<1> DEFINE p == client[c].got
           q == sock[c].out
           r == obj[c].rcache
           r1 == SubSeq(r, 1, n)
           r2 == SubSeq(r, n + 1, Len(r))
<1>1. /\ p \in Seq(Messages) /\ q \in Seq(Messages) /\ r \in Seq(Messages)
      /\ n \in 0 .. Len(r)
  BY OfType
<1>2. /\ client' = client
      /\ sock'[c].out = q \o r1 /\ obj'[c].rcache = r2
      /\ \A d \in Conns : /\ obj'[d].asked = obj[d].asked
                           /\ d # c => obj'[d] = obj[d] /\ sock'[d] = sock[d]
  BY OfType DEF Socks
<1> HIDE DEF r, q, p
<1>3. r1 \in Seq(Messages) /\ r2 \in Seq(Messages) /\ r = r1 \o r2
  BY <1>1, Parts, Cut
<1> HIDE DEF r1, r2
<1>4. Received(c)' = Received(c)
  <2>1. p \o (q \o r1) \o r2 = p \o q \o (r1 \o r2)
    <3>0. /\ p \in Seq(Messages) /\ q \in Seq(Messages)
          /\ r1 \in Seq(Messages)
      BY <1>1, <1>3
    <3>1. (p \o q) \o r1 = p \o (q \o r1) /\ p \o q \in Seq(Messages)
      BY <3>0, SMTT(20)
    <3>2. ((p \o q) \o r1) \o r2 = (p \o q) \o (r1 \o r2)
      BY <1>3, <3>1, Regrouped
    <3> QED
      BY <3>1, <3>2
  <2> QED
    BY <1>2, <1>3, <2>1 DEF Received, p, q, r
<1>5. \A d \in Conns : d # c => Received(d)' = Received(d)
  BY <1>2, ReceivedKept
<1> QED
  BY <1>2, <1>4, <1>5, FlowKept, OnTheWayKept DEF rings

LEMMA OutputFlow ==
  ASSUME RelayInv, FlowInv, PxOutput
  PROVE  FlowInv'
<1>1. TypeOK /\ At("event") /\ Event.out /\ slots[Event.seq] \in Conns
  BY HandedOutput DEF PxOutput
<1>2. PICK c \in Conns : c = slots[Event.seq]
  BY <1>1
<1> DEFINE r == obj[c].rcache
           n == Fitting(r, sock[c])
           o == [obj[c] EXCEPT !.rcache = Unsent(r, n)]
<1>3. UNCHANGED <<client, rings, wk>>
  BY DEF PxOutput
<1>4. CASE UNCHANGED <<sock, obj, lost>>
  BY <1>3, <1>4, NothingMoves DEF rings
<1>5. CASE OnConnOver(c)
  BY <1>1, <1>3, <1>5, OverFlow
<1>6. CASE /\ sock' = [sock EXCEPT ![c] =
                         [sock[c] EXCEPT !.out = @ \o SubSeq(r, 1, n)]]
           /\ obj' \in {[obj EXCEPT ![c] = [o EXCEPT !.watchOut = TRUE]],
                        [obj EXCEPT ![c] = o]}
           /\ UNCHANGED lost
  <2>1. n \in 0 .. Len(r) /\ obj[c] \in CClients
    BY <1>1, OfType, FittingType
  <2> HIDE DEF n
  <2>2. /\ o.rcache = SubSeq(r, n + 1, Len(r)) /\ o.asked = obj[c].asked
        /\ [o EXCEPT !.watchOut = TRUE].rcache = SubSeq(r, n + 1, Len(r))
        /\ [o EXCEPT !.watchOut = TRUE].asked = obj[c].asked
    BY <2>1 DEF CClients, Unsent
  <2> HIDE DEF o
  <2>3. CASE obj' = [obj EXCEPT ![c] = o]
    BY <1>1, <1>3, <1>6, <2>1, <2>2, <2>3, WrittenFlow
  <2>4. CASE obj' = [obj EXCEPT ![c] = [o EXCEPT !.watchOut = TRUE]]
    BY <1>1, <1>3, <1>6, <2>1, <2>2, <2>4, WrittenFlow
  <2> QED
    BY <1>6, <2>3, <2>4
<1> QED
  BY <1>2, <1>4, <1>5, <1>6 DEF PxOutput, EnableOutput

LEMMA InputFlow ==
  ASSUME RelayInv, FlowInv, PxInput
  PROVE  FlowInv'
<1>1. TypeOK /\ Event.seq \in Seqs /\ At("event")
  BY DEF RelayInv, PxInput
<1>2. PICK c \in Conns : c = slots[Event.seq]
  BY <1>1, Handed DEF RelayInv, At
<1>3. UNCHANGED <<client, rings, wk>>
  BY DEF PxInput
<1>4. CASE OnConnOver(c)
  BY <1>1, <1>3, <1>4, OverFlow
<1>5. CASE /\ sock' = [sock EXCEPT ![c] = [sock[c] EXCEPT !.in = 0]]
           /\ EnableInput(c, [sock[c] EXCEPT !.in = 0])
           /\ UNCHANGED lost
  <2>1. \A d \in Conns : sock'[d].out = sock[d].out
    BY <1>1, <1>5, OfType, SameOut, OutKept
  <2>2. \A d \in Conns : obj'[d].rcache = obj[d].rcache /\ obj'[d].asked = obj[d].asked
    BY <1>1, <1>5, OfType DEF EnableInput, CClients
  <2> QED
    BY <1>3, <1>5, <2>1, <2>2, NothingMoves DEF rings
<1> QED
  BY <1>2, <1>4, <1>5 DEF PxInput

LEMMA Askable ==
  ASSUME TypeOK, NEW c \in Conns, obj[c].wcache >= Pieces
  PROVE  obj[c].asked + 1 <= MaxRequests[c]
<1> DEFINE a == obj[c].asked
           x == Pieces * a
           y == MaxRequests[c] * Pieces
<1>1. /\ a \in Nat /\ x \in Nat /\ y \in Nat /\ sock[c].in \in Nat
      /\ obj[c].wcache \in Nat /\ client[c].sent \in Nat
      /\ Pieces \in Nat /\ Pieces > 0 /\ MaxRequests[c] \in Nat
  BY OfType, Sorts
<1>2. sock[c].in + obj[c].wcache + x <= client[c].sent /\ client[c].sent <= y
  BY OfType DEF Within
<1> HIDE DEF x, y
<1>3. x + Pieces <= y
  BY <1>1, <1>2
<1> HIDE DEF a
<1> QED
  BY <1>1, <1>3, Fewer DEF a, x, y

(* A request is asked.                                                     *)
LEMMA ProduceFlow ==
  ASSUME RelayInv, FlowInv, PxProduce
  PROVE  FlowInv'
<1>1. TypeOK /\ TypeOK' /\ px.batch # <<>> /\ px.pc = "produce" /\ Event.seq \in Seqs
  BY PxProduceType DEF RelayInv, Producing, PxProduce, At
<1>2. PICK c \in Conns : c = slots[Event.seq]
  BY <1>1, Handed DEF RelayInv
<1> DEFINE m == [seq |-> Event.seq, conn |-> c, num |-> obj[c].asked + 1]
<1>3. UNCHANGED <<client, sock, respRing, wk>>
  BY DEF PxProduce, kernel
<1>4. CASE ~(obj[c].wcache >= Pieces)
  BY <1>2, <1>3, <1>4, NothingMoves DEF PxProduce
<1>5. CASE obj[c].wcache >= Pieces
  <2>1. /\ obj' = [obj EXCEPT ![c].wcache = @ - Pieces, ![c].asked = @ + 1]
        /\ reqRing' = Produce(reqRing, m)
        /\ lost' = lost \cup Refused(reqRing, m)
    BY <1>2, <1>5 DEF PxProduce
  <2>2. /\ obj'[c].asked = obj[c].asked + 1
        /\ \A d \in Conns : d # c => obj'[d].asked = obj[d].asked
        /\ \A d \in Conns : obj'[d].rcache = obj[d].rcache
    BY <1>1, <2>1, OfType DEF CClients
  <2>3. m \in Messages
    <3>1. obj[c].asked + 1 <= MaxRequests[c] /\ obj[c].asked \in Nat
      BY <1>1, <1>5, OfType, Askable
    <3> QED
      BY <1>1, <3>1 DEF Messages
  <2>4. m.conn = c /\ m.num = obj[c].asked + 1
    OBVIOUS
  <2> HIDE DEF m
  <2>5. Asked' = [Asked EXCEPT ![c] = @ + 1] /\ Asked[c] = obj[c].asked
    BY <2>2 DEF Asked
  <2>6. ReceivedBy' = ReceivedBy
    BY <1>3, <2>2, ReceivedKept DEF ReceivedBy
  <2>7. /\ Flow(ReceivedBy, OnTheWay \o <<m>>, lost, Asked')
        /\ Flow(ReceivedBy, OnTheWay, lost \cup {m}, Asked')
    BY <2>3, <2>4, <2>5, Ask DEF FlowInv
  <2>8. CASE Len(reqRing) < RingCap
    <3>1. reqRing' = Append(reqRing, m) /\ lost' = lost
      BY <2>1, <2>8 DEF Produce, Refused
    <3>2. /\ reqRing \in Seq(Messages) /\ respRing \in Seq(Messages)
          /\ InHand \in Seq(Messages) /\ InHand' = InHand
      BY <1>1, <1>3, RestOfType, FlowTypes DEF InHand
    <3> DEFINE first == respRing \o InHand
    <3>3. first \in Seq(Messages) /\ <<m>> \in Seq(Messages)
      BY <2>3, <3>2
    <3>4. OnTheWay = first \o reqRing /\ OnTheWay' = first \o Append(reqRing, m)
      BY <1>3, <3>1, <3>2 DEF OnTheWay
    <3> HIDE DEF first
    <3>5. Append(reqRing, m) = reqRing \o <<m>>
      BY <2>3, <3>2
    <3>6. OnTheWay' = OnTheWay \o <<m>>
      BY <3>2, <3>3, <3>4, <3>5, Regrouped
    <3> QED
      BY <2>6, <2>7, <3>1, <3>6 DEF FlowInv
  <2>9. CASE ~(Len(reqRing) < RingCap)
    <3>1. reqRing' = reqRing /\ lost' = lost \cup {m}
      BY <2>1, <2>9 DEF Produce, Refused
    <3>2. OnTheWay' = OnTheWay
      BY <1>3, <3>1, OnTheWayKept
    <3> QED
      BY <2>6, <2>7, <3>1, <3>2 DEF FlowInv
  <2> QED
    BY <2>8, <2>9
<1> QED
  BY <1>4, <1>5

(* A response reaches the object in its slot, or finds none.               *)
LEMMA ConsumeFlow ==
  ASSUME RelayInv, FlowInv, PxConsume
  PROVE  FlowInv'
<1>1. TypeOK /\ UNCHANGED <<client, sock, reqRing, wk>>
  BY DEF RelayInv, PxConsume
<1>2. respRing \in Seq(Messages) /\ reqRing \in Seq(Messages) /\ InHand \in Seq(Messages)
  BY <1>1, RestOfType, FlowTypes
<1>3. CASE respRing = <<>>
  BY <1>1, <1>3, NothingMoves DEF PxConsume
<1>4. CASE respRing # <<>>
  <2> DEFINE m == Head(respRing)
             rest == Tail(respRing) \o InHand \o reqRing
  <2>1. /\ m \in Messages /\ Tail(respRing) \in Seq(Messages)
        /\ respRing = <<m>> \o Tail(respRing) /\ <<m>> \in Seq(Messages)
    BY <1>2, <1>4, HeadAndTail, OneMessage
  <2>2. /\ respRing' = Tail(respRing)
        /\ slots[m.seq] = None => lost' = lost \cup {m} /\ UNCHANGED obj
        /\ slots[m.seq] # None =>
             /\ EnableOutput(slots[m.seq],
                             [obj[slots[m.seq]] EXCEPT !.rcache = Cached(@, m)],
                             sock[slots[m.seq]])
             /\ UNCHANGED lost
    BY <1>4 DEF PxConsume
  <2> HIDE DEF m
  <2>3. rest \in Seq(Messages) /\ OnTheWay = <<m>> \o rest
    <3>1. Tail(respRing) \o InHand \in Seq(Messages) /\ rest \in Seq(Messages)
      BY <1>2, <2>1
    <3>2. (<<m>> \o Tail(respRing)) \o InHand = <<m>> \o (Tail(respRing) \o InHand)
      BY <1>2, <2>1, Regrouped
    <3>3. (<<m>> \o (Tail(respRing) \o InHand)) \o reqRing = <<m>> \o rest
      BY <1>2, <2>1, <3>1, Regrouped
    <3> QED
      BY <2>1, <3>1, <3>2, <3>3 DEF OnTheWay
  <2>4. OnTheWay' = rest
    BY <1>1, <2>2 DEF OnTheWay, InHand
  <2> HIDE DEF rest
  <2>5. CASE slots[m.seq] = None
    <3>1. ReceivedBy' = ReceivedBy /\ Asked' = Asked /\ lost' = lost \cup {m}
      BY <1>1, <2>2, <2>5, ReceivedKept DEF ReceivedBy, Asked
    <3>2. <<>> \in Seq(Messages) /\ <<>> \o rest = rest /\ <<>> \o (<<m>> \o rest) = <<m>> \o rest
      BY <2>1, <2>3
    <3>3. Flow(ReceivedBy, <<>> \o rest, lost \cup {m}, Asked)
      BY <2>1, <2>3, <3>2, Drop DEF FlowInv
    <3> QED
      BY <2>4, <3>1, <3>2, <3>3 DEF FlowInv
  <2>6. CASE slots[m.seq] # None
    <3>1. slots[m.seq] \in Conns
      BY <1>1, <2>1, <2>6 DEF TypeOK, Messages
    <3>2. PICK c \in Conns : c = slots[m.seq]
      BY <3>1
    <3> DEFINE q == Append(obj[c].rcache, m)
               o1 == [obj[c] EXCEPT !.rcache = q]
               o == [o1 EXCEPT !.watchOut = TRUE]
    <3>3. obj' = [obj EXCEPT ![c] = o] /\ lost' = lost
      BY <2>2, <2>6, <3>2 DEF EnableOutput, Cached
    <3>4. obj[c] \in CClients /\ obj[c].rcache \in Seq(Messages)
      BY <1>1, OfType
    <3> HIDE DEF q
    <3>5. o.rcache = q /\ o.asked = obj[c].asked
      BY <3>4 DEF CClients
    <3> HIDE DEF o
    <3>6. obj'[c].rcache = q /\ obj'[c].asked = obj[c].asked
      BY <1>1, <3>3, <3>5, OfType
    <3>7. ASSUME NEW d \in Conns, d # c PROVE obj'[d] = obj[d]
      BY <1>1, <3>3, <3>7, OfType
    <3>8. Asked' = Asked
      <4>1. \A d \in Conns : obj'[d].asked = obj[d].asked
        BY <3>6, <3>7, Zenon
      <4> QED
        BY <4>1 DEF Asked
    <3>9. Received(c)' = Received(c) \o <<m>>
      <4>0. q = obj[c].rcache \o <<m>>
        BY <2>1, <3>4, SMTT(20) DEF q
      <4>1. client[c].got \in Seq(Messages) /\ sock[c].out \in Seq(Messages)
        BY <1>1, OfType
      <4> DEFINE p == client[c].got \o sock[c].out
      <4>2. p \in Seq(Messages)
        BY <4>1
      <4>3. Received(c) = p \o obj[c].rcache /\ Received(c)' = p \o q
        BY <1>1, <3>6 DEF Received
      <4> HIDE DEF p
      <4>4. (p \o obj[c].rcache) \o <<m>> = p \o (obj[c].rcache \o <<m>>)
        BY <2>1, <3>4, <4>2, Regrouped
      <4> QED
        BY <4>0, <4>3, <4>4
    <3>10. \A d \in Conns : d # c => Received(d)' = Received(d)
      <4> SUFFICES ASSUME NEW d \in Conns, d # c PROVE Received(d)' = Received(d)
        OBVIOUS
      <4>1. client'[d] = client[d] /\ sock'[d] = sock[d] /\ obj'[d] = obj[d]
        BY <1>1, <3>7
      <4> QED
        BY <4>1, ReceivedKept
    <3>11. ReceivedBy' = [ReceivedBy EXCEPT ![c] = @ \o <<m>>]
      BY <3>9, <3>10 DEF ReceivedBy
    <3>12. Flow([ReceivedBy EXCEPT ![c] = @ \o <<m>>], rest, lost, Asked)
      BY <2>1, <2>3, Deliver DEF FlowInv
    <3> QED
      BY <2>4, <3>3, <3>8, <3>11, <3>12 DEF FlowInv
  <2> QED
    BY <2>5, <2>6
<1> QED
  BY <1>3, <1>4

(* The worker takes a request, and puts its response into the ring.        *)
LEMMA WorkerFlow ==
  ASSUME RelayInv, FlowInv, WkNext
  PROVE  FlowInv'
<1>1. TypeOK /\ UNCHANGED <<client, sock, obj>>
  BY WkNextType DEF RelayInv
<1>2. respRing \in Seq(Messages) /\ reqRing \in Seq(Messages) /\ InHand \in Seq(Messages)
  BY <1>1, RestOfType, FlowTypes
<1>3. /\ \A d \in Conns : Received(d)' = Received(d) /\ obj'[d].asked = obj[d].asked
      /\ ReceivedBy' = ReceivedBy /\ Asked' = Asked
  BY <1>1 DEF Received, ReceivedBy, Asked
<1>4. wk \in Workers /\ (wk.pc # "reply" => InHand = <<>>)
  BY <1>1, RestOfType DEF InHand
<1>6. CASE WkWait \/ WkDrain \/ WkNotify
  <2>1. UNCHANGED <<reqRing, respRing, lost>> /\ wk.pc # "reply"
    BY <1>6 DEF WkWait, WkDrain, WkNotify
  <2>2. wk'.pc # "reply"
    BY <1>4, <1>6 DEF WkWait, WkDrain, WkNotify, Workers
  <2>3. OnTheWay' = OnTheWay
    BY <2>1, <2>2 DEF OnTheWay, InHand
  <2> QED
    BY <1>3, <2>1, <2>3, FlowKept
<1>7. CASE WkConsume
  <2>1. lost' = lost /\ respRing' = respRing /\ InHand = <<>>
    BY <1>4, <1>7 DEF WkConsume
  <2>2. CASE reqRing = <<>>
    <3>1. reqRing' = reqRing /\ wk'.pc # "reply"
      BY <1>4, <1>7, <2>2 DEF WkConsume, Workers
    <3>2. InHand' = <<>>
      BY <3>1 DEF InHand
    <3>3. OnTheWay' = OnTheWay
      BY <2>1, <3>1, <3>2 DEF OnTheWay
    <3> QED
      BY <1>3, <2>1, <3>3, FlowKept
  <2>3. CASE reqRing # <<>>
    <3> DEFINE m == Head(reqRing)
               rest == Tail(reqRing)
    <3>1. m \in Messages /\ rest \in Seq(Messages) /\ reqRing = <<m>> \o rest
          /\ <<m>> \in Seq(Messages)
      BY <1>2, <2>3, HeadAndTail, OneMessage
    <3>2. wk' = [pc |-> "reply", msg |-> m] /\ reqRing' = rest
      BY <1>7, <2>3 DEF WkConsume
    <3> HIDE DEF m, rest
    <3>3. InHand' = <<m>>
      BY <3>2 DEF InHand
    <3>4. OnTheWay = respRing \o reqRing
      BY <1>2, <2>1 DEF OnTheWay
    <3>5. OnTheWay' = respRing \o <<m>> \o rest
      BY <2>1, <3>2, <3>3 DEF OnTheWay
    <3>6. OnTheWay' = OnTheWay
      BY <1>2, <3>1, <3>4, <3>5, Regrouped
    <3> QED
      BY <1>3, <2>1, <3>6, FlowKept
  <2> QED
    BY <2>2, <2>3
<1>8. CASE WkReply
  <2> DEFINE m == wk.msg
  <2>1. m \in Messages /\ <<m>> \in Seq(Messages) /\ InHand = <<m>>
    <3>1. m \in Messages
      BY <1>1, <1>8 DEF TypeOK, WkReply
    <3> QED
      BY <1>8, <3>1, OneMessage DEF InHand, WkReply
  <2>2. /\ respRing' = Produce(respRing, m) /\ lost' = lost \cup Refused(respRing, m)
        /\ InHand' = <<>> /\ reqRing' = reqRing
    BY <1>8 DEF WkReply, InHand
  <2> HIDE DEF m
  <2>3. OnTheWay = respRing \o (<<m>> \o reqRing)
    BY <1>2, <2>1, Regrouped DEF OnTheWay
  <2>4. CASE Len(respRing) < RingCap
    <3>1. respRing' = respRing \o <<m>> /\ lost' = lost
      BY <1>2, <2>1, <2>2, <2>4 DEF Produce, Refused
    <3>2. respRing \o <<m>> \in Seq(Messages)
      BY <1>2, <2>1
    <3>3. (respRing \o <<m>>) \o <<>> = respRing \o <<m>>
      BY <3>2
    <3>4. OnTheWay' = (respRing \o <<m>>) \o reqRing
      BY <2>2, <3>1, <3>3 DEF OnTheWay
    <3>5. OnTheWay' = OnTheWay
      BY <1>2, <2>1, <2>3, <3>4, Regrouped
    <3> QED
      BY <1>3, <3>1, <3>5, FlowKept
  <2>5. CASE ~(Len(respRing) < RingCap)
    <3>1. respRing' = respRing /\ lost' = lost \cup {m}
      BY <2>2, <2>5 DEF Produce, Refused
    <3>2. respRing \o <<>> = respRing
      BY <1>2
    <3>3. OnTheWay' = respRing \o reqRing
      BY <2>2, <3>1, <3>2 DEF OnTheWay
    <3>4. Flow(ReceivedBy, respRing \o reqRing, lost \cup {m}, Asked)
      BY <1>2, <2>1, <2>3, Drop DEF FlowInv
    <3> QED
      BY <1>3, <3>1, <3>3, <3>4 DEF FlowInv
  <2> QED
    BY <2>4, <2>5
<1> QED
  BY <1>6, <1>7, <1>8 DEF WkNext

LEMMA InitFlow == Init => FlowInv
<1> SUFFICES ASSUME Init PROVE FlowInv
  OBVIOUS
<1> DEFINE own == [d \in Conns |-> <<>>]
           zero == [d \in Conns |-> 0]
<1>1. ReceivedBy = own
  <2>1. ASSUME NEW d \in Conns PROVE Received(d) = <<>>
    BY DEF Init, Received, NoClient, NoSock, NoObj
  <2> QED
    BY <2>1 DEF ReceivedBy
<1>2. Asked = zero
  BY DEF Init, Asked, NoObj
<1>3. OnTheWay = <<>> /\ lost = {}
  BY DEF Init, CommInit, WorkerInit, OnTheWay, InHand
<1>4. /\ own \in [Conns -> Seq(Messages)] /\ \A d \in Conns : own[d] = <<>>
      /\ zero \in [Conns -> Nat] /\ \A d \in Conns : zero[d] = 0
  OBVIOUS
<1>5. ToSet(<<>>) = {} /\ InAskedOrder(<<>>)
  BY DEF ToSet, InAskedOrder
<1> HIDE DEF own, zero
<1>6. Typed(own, <<>>, {}, zero)
  BY <1>4 DEF Typed
<1>7. Sorted(own, <<>>)
  BY <1>4, <1>5 DEF Sorted, Earlier
<1>8. Disjoint(own, <<>>, {})
  BY <1>4, <1>5 DEF Disjoint, Apart
<1>9. Complete(Anywhere(own, <<>>, {}), zero)
  <2>1. Anywhere(own, <<>>, {}) = {}
    BY <1>4, <1>5 DEF Anywhere
  <2>2. \A c \in Conns : 1 .. zero[c] = {}
    BY <1>4
  <2> QED
    BY <2>1, <2>2 DEF Complete
<1> QED
  BY <1>1, <1>2, <1>3, <1>6, <1>7, <1>8, <1>9 DEF FlowInv, Flow

LEMMA NextFlow == RelayInv /\ FlowInv /\ [Next]_vars => FlowInv'
<1> SUFFICES ASSUME RelayInv, FlowInv, [Next]_vars PROVE FlowInv'
  OBVIOUS
<1>1. TypeOK
  BY DEF RelayInv
<1>2. CASE ClientNext
  <2>1. PICK c \in Conns : \/ Connect(c) \/ Send(c) \/ Close(c) \/ Reset(c)
                           \/ ClientReceive(c)
    BY <1>2 DEF ClientNext
  <2> QED
    BY <1>1, <2>1, ClientFlow, ReceiveFlow
<1>3. CASE PxNext
  BY <1>1, <1>3, AcceptFlow, FifoFlow, OutputFlow, InputFlow, ProduceFlow,
     ConsumeFlow DEF PxNext
<1>4. CASE WkNext
  BY <1>4, WorkerFlow
<1>5. CASE UNCHANGED vars
  BY <1>5, NothingMoves DEF vars, rings
<1> QED
  BY <1>2, <1>3, <1>4, <1>5 DEF Next

LEMMA AlwaysFlow == Spec => []FlowInv
BY InitFlow, NextFlow, AlwaysRelayInv, PTL DEF Spec

-----------------------------------------------------------------------------
(* The places of a request.                                                *)
Sole(places, found) == (\A x, y \in places : x = y) /\ (places # {} <=> found)
Holds(S, c, n) == \E m \in S : IsOf(m, c, n)

LEMMA OnePlace ==
  ASSUME NEW a \in Seq(Messages), NEW b \in Seq(Messages), NEW e \in Seq(Messages),
         InAskedOrder(a \o b \o e), NEW A, NEW B, NEW E, NEW d,
         NEW c \in Conns, NEW n \in Nat
  PROVE  Sole(PlacesIn(A, d, a, c, n) \cup PlacesIn(B, d, b, c, n)
                \cup PlacesIn(E, d, e, c, n),
              Holds(ToSet(a \o b \o e), c, n))
<1>1. a \o b \in Seq(Messages)
  OBVIOUS
<1>2. ToSet(a \o b \o e) = ToSet(a) \cup ToSet(b) \cup ToSet(e)
  <2>1. ToSet(a \o b) = ToSet(a) \cup ToSet(b)
    BY SetOfConcat
  <2>2. ToSet((a \o b) \o e) = ToSet(a \o b) \cup ToSet(e)
    BY <1>1, SetOfConcat
  <2> QED
    BY <2>1, <2>2
<1>3. /\ InAskedOrder(a) /\ InAskedOrder(b) /\ InAskedOrder(e)
      /\ Earlier(ToSet(a), ToSet(b)) /\ Earlier(ToSet(a), ToSet(e))
      /\ Earlier(ToSet(b), ToSet(e))
  <2>1. InAskedOrder(a \o b) /\ InAskedOrder(e) /\ Earlier(ToSet(a \o b), ToSet(e))
    BY <1>1, OrderOfConcat
  <2>2. InAskedOrder(a) /\ InAskedOrder(b) /\ Earlier(ToSet(a), ToSet(b))
    BY <2>1, OrderOfConcat
  <2>3. ToSet(a \o b) = ToSet(a) \cup ToSet(b)
    BY SetOfConcat
  <2> QED
    BY <2>1, <2>2, <2>3 DEF Earlier
<1> DEFINE Has(q) == \E m \in ToSet(q) : IsOf(m, c, n)
<1>4. ASSUME NEW q \in Seq(Messages), InAskedOrder(q), NEW X
      PROVE  /\ \A x, y \in PlacesIn(X, d, q, c, n) : x = y
             /\ PlacesIn(X, d, q, c, n) # {} <=> Has(q)
  <2>1. \A x : x \in PlacesIn(X, d, q, c, n)
                 <=> \E i \in DOMAIN q : x = <<X, d, i>> /\ IsOf(q[i], c, n)
    BY DEF PlacesIn
  <2>2. ASSUME NEW i \in DOMAIN q, NEW j \in DOMAIN q, IsOf(q[i], c, n),
               IsOf(q[j], c, n)
        PROVE  i = j
    <3>1. ~(n < n) /\ i \in Nat /\ j \in Nat
      OBVIOUS
    <3>2. ~(i < j) /\ ~(j < i)
      BY <1>4, <2>2, <3>1 DEF InAskedOrder, IsOf
    <3> QED
      BY <3>1, <3>2
  <2>3. Has(q) <=> \E i \in DOMAIN q : IsOf(q[i], c, n)
    BY DEF ToSet
  <2> DEFINE S == PlacesIn(X, d, q, c, n)
  <2> HIDE DEF S
  <2>4. \A x, y \in S : x = y
    <3> SUFFICES ASSUME NEW x \in S, NEW y \in S PROVE x = y
      OBVIOUS
    <3>1. PICK i \in DOMAIN q : x = <<X, d, i>> /\ IsOf(q[i], c, n)
      BY <2>1 DEF S
    <3>2. PICK j \in DOMAIN q : y = <<X, d, j>> /\ IsOf(q[j], c, n)
      BY <2>1 DEF S
    <3> QED
      BY <2>2, <3>1, <3>2
  <2>5. S # {} <=> \E i \in DOMAIN q : IsOf(q[i], c, n)
    BY <2>1 DEF S
  <2> QED
    BY <2>3, <2>4, <2>5 DEF S
<1>5. ASSUME NEW p, NEW q, Earlier(ToSet(p), ToSet(q)) PROVE ~(Has(p) /\ Has(q))
  <2>1. ~(n < n)
    OBVIOUS
  <2> QED
    BY <1>5, <2>1 DEF Earlier, IsOf
<1>6. ~(Has(a) /\ Has(b)) /\ ~(Has(a) /\ Has(e)) /\ ~(Has(b) /\ Has(e))
  BY <1>3, <1>5
<1>7. Holds(ToSet(a \o b \o e), c, n) <=> Has(a) \/ Has(b) \/ Has(e)
  BY <1>2 DEF Holds
<1> HIDE DEF Has
<1> DEFINE P == PlacesIn(A, d, a, c, n)
           Q == PlacesIn(B, d, b, c, n)
           R == PlacesIn(E, d, e, c, n)
<1>8. /\ \A x, y \in P : x = y
      /\ \A x, y \in Q : x = y
      /\ \A x, y \in R : x = y
      /\ P # {} <=> Has(a)
      /\ Q # {} <=> Has(b)
      /\ R # {} <=> Has(e)
  BY <1>3, <1>4
<1> HIDE DEF P, Q, R
<1>9. /\ \A x, y \in P \cup Q \cup R : x = y
      /\ P \cup Q \cup R # {} <=> Has(a) \/ Has(b) \/ Has(e)
  BY <1>6, <1>8
<1> HIDE DEF Holds
<1> QED
  BY <1>7, <1>9 DEF P, Q, R, Sole

(* A number the connection has asked is in one place; nothing is in two.   *)
LEMMA FlowAccounted == TypeOK /\ FlowInv => Accounted
<1> SUFFICES ASSUME TypeOK, FlowInv, NEW c \in Conns, NEW n \in 1 .. obj[c].asked
             PROVE  Cardinality(Places(c, n)) = 1
  BY DEF Accounted
<1> DEFINE Has(S) == Holds(S, c, n)
           way == PlacesIn("resp", None, respRing, c, n)
                    \cup PlacesIn("worker", None, InHand, c, n)
                    \cup PlacesIn("req", None, reqRing, c, n)
           own(d) == PlacesIn("client", d, client[d].got, c, n)
                       \cup PlacesIn("socket", d, sock[d].out, c, n)
                       \cup PlacesIn("cache", d, obj[d].rcache, c, n)
           gone == {<<"lost", None, m.seq>> : m \in {x \in lost : IsOf(x, c, n)}}
<1>1. /\ ReceivedBy \in [Conns -> Seq(Messages)] /\ OnTheWay \in Seq(Messages)
      /\ Sorted(ReceivedBy, OnTheWay) /\ Disjoint(ReceivedBy, OnTheWay, lost)
      /\ Complete(Anywhere(ReceivedBy, OnTheWay, lost), Asked)
      /\ \A d \in Conns : ReceivedBy[d] = Received(d)
  BY DEF FlowInv, Flow, Typed, ReceivedBy
<1>2. n \in Nat
  BY OfType
<1>3. /\ \A x, y \in way : x = y
      /\ way # {} <=> Has(ToSet(OnTheWay))
  <2>1. /\ reqRing \in Seq(Messages) /\ respRing \in Seq(Messages)
        /\ InHand \in Seq(Messages)
    BY RestOfType, FlowTypes
  <2>2. InAskedOrder(respRing \o InHand \o reqRing)
    BY <1>1 DEF OnTheWay, Sorted
  <2>3. Sole(way, Has(ToSet(respRing \o InHand \o reqRing)))
    BY <1>2, <2>1, <2>2, OnePlace
  <2> QED
    BY <2>3, Zenon DEF OnTheWay, Sole
<1>4. ASSUME NEW d \in Conns
      PROVE  /\ \A x, y \in own(d) : x = y
             /\ own(d) # {} <=> Has(ToSet(ReceivedBy[d]))
  <2>1. /\ client[d].got \in Seq(Messages) /\ sock[d].out \in Seq(Messages)
        /\ obj[d].rcache \in Seq(Messages)
    BY OfType
  <2>2. /\ InAskedOrder(ReceivedBy[d])
        /\ ReceivedBy[d] = client[d].got \o sock[d].out \o obj[d].rcache
    BY <1>1 DEF Sorted, Received
  <2>3. Sole(own(d), Has(ToSet(client[d].got \o sock[d].out \o obj[d].rcache)))
    BY <1>2, <2>1, <2>2, OnePlace
  <2> QED
    BY <2>2, <2>3, Zenon DEF Sole
<1>5. /\ \A x, y \in gone : x = y
      /\ gone # {} <=> Has(lost)
  <2>1. \A x, y \in lost : IsOf(x, c, n) /\ IsOf(y, c, n) => x = y
    BY <1>1 DEF Disjoint, Same, IsOf
  <2> QED
    BY <2>1 DEF Holds
<1>6. \A x : x \in Places(c, n)
               <=> x \in way \/ x \in gone \/ \E d \in Conns : x \in own(d)
  <2> DEFINE owned == UNION {own(d) : d \in Conns}
  <2>1. Places(c, n) = way \cup gone \cup owned
    BY DEF Places
  <2> HIDE DEF own
  <2>2. \A x : x \in owned <=> \E d \in Conns : x \in own(d)
    BY Zenon
  <2> HIDE DEF owned, way, gone
  <2> QED
    BY <2>1, <2>2
<1> HIDE DEF way, own, gone
<1>7. ~(Has(ToSet(OnTheWay)) /\ Has(lost))
  BY <1>1 DEF Disjoint, Apart, Same, Holds, IsOf
<1>8. \A d \in Conns : ~(Has(ToSet(ReceivedBy[d])) /\ Has(lost))
  BY <1>1 DEF Disjoint, Apart, Same, Holds, IsOf
<1>9. \A d, e \in Conns :
        Has(ToSet(ReceivedBy[d])) /\ Has(ToSet(ReceivedBy[e])) => d = e
  BY <1>1 DEF Disjoint, Apart, Same, Holds, IsOf
<1>10. \A d \in Conns : ~(Has(ToSet(ReceivedBy[d])) /\ Has(ToSet(OnTheWay)))
  <2>1. ~(n < n)
    BY <1>2
  <2> QED
    BY <1>1, <2>1 DEF Sorted, Earlier, Holds, IsOf
<1>11. Has(ToSet(OnTheWay)) \/ Has(lost) \/ \E d \in Conns : Has(ToSet(ReceivedBy[d]))
  <2>1. n \in 1 .. Asked[c]
    BY DEF Asked
  <2>2. PICK m \in Anywhere(ReceivedBy, OnTheWay, lost) : IsOf(m, c, n)
    BY <1>1, <2>1 DEF Complete
  <2> QED
    BY <2>2 DEF Anywhere, Holds
<1> HIDE DEF Has
<1>12. /\ \A x, y \in Places(c, n) : x = y
       /\ \E x : x \in Places(c, n)
  <2>1. ASSUME NEW x \in Places(c, n), NEW y \in Places(c, n) PROVE x = y
    <3>1. CASE x \in way
      BY <1>3, <1>4, <1>5, <1>6, <1>7, <1>10, <3>1
    <3>2. CASE x \in gone
      BY <1>3, <1>4, <1>5, <1>6, <1>7, <1>8, <3>2
    <3>3. ASSUME NEW d \in Conns, x \in own(d) PROVE x = y
      BY <1>3, <1>4, <1>5, <1>6, <1>8, <1>9, <1>10, <3>3
    <3> QED
      BY <1>6, <3>1, <3>2, <3>3
  <2> QED
    BY <1>3, <1>4, <1>5, <1>6, <1>11, <2>1
<1>13. PICK x : Places(c, n) = {x}
  BY <1>12
<1> QED
  BY <1>13, FS_Singleton

LEMMA FlowInOrder == TypeOK /\ FlowInv => InOrder
<1> SUFFICES ASSUME TypeOK, FlowInv, NEW d \in Conns
             PROVE  InAskedOrder(Received(d) \o OnTheWay)
  BY DEF InOrder
<1>1. Received(d) \in Seq(Messages) /\ OnTheWay \in Seq(Messages)
  BY FlowTypes
<1>2. /\ InAskedOrder(Received(d)) /\ InAskedOrder(OnTheWay)
      /\ Earlier(ToSet(Received(d)), ToSet(OnTheWay))
  BY DEF FlowInv, Flow, Sorted, ReceivedBy
<1> QED
  BY <1>1, <1>2, OrderOfConcat

-----------------------------------------------------------------------------
(* A request the proxy has taken from a connection is always in exactly    *)
(* one place on its way, or was dropped once                               *)
(* (client.cpp:129, notifier.cpp:13, service.cpp:37).                      *)
THEOREM RelayAccounted == Spec => []Accounted
BY AlwaysFlow, RelayTypes, FlowAccounted, PTL

(* What one connection asked is in the order it was asked, all the way to  *)
(* any receiving connection (client.cpp:76, client.cpp:179,                *)
(* notifier.cpp:36).                                                       *)
THEOREM RelayInOrder == Spec => []InOrder
BY AlwaysFlow, RelayTypes, FlowInOrder, PTL

=============================================================================

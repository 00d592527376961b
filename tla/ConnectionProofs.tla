-------------------------- MODULE ConnectionProofs --------------------------
(***************************************************************************)
(* What holds of a connection for every size of caches, reads, ints and    *)
(* for every sequence of items the clients send: the caches keep inside    *)
(* their buffers and are streams of bytes, and the messages in the ring    *)
(* are framed as the worker takes them to be.                              *)
(***************************************************************************)
EXTENDS Connection, DemoMsgProofs

-----------------------------------------------------------------------------
(* Sequences.                                                              *)

(* What a sequence grew by is the rest of it.                              *)
LEMMA RestOfConcat ==
  ASSUME NEW S, NEW u \in Seq(S), NEW s \in Seq(S)
  PROVE  SubSeq(u \o s, Len(u) + 1, Len(u \o s)) = s
<1> DEFINE x == SubSeq(u \o s, Len(u) + 1, Len(u \o s))
<1>1. Len(u \o s) = Len(u) + Len(s)
  OBVIOUS
<1>2. x \in Seq(S) /\ Len(x) = Len(s)
  BY <1>1
<1>3. \A i \in 1 .. Len(s) : x[i] = s[i]
  BY <1>1
<1> QED
  BY <1>2, <1>3

-----------------------------------------------------------------------------
(* The cache.                                                              *)

(* What is readable is a sequence of bytes.                                *)
LEMMA ReadableType ==
  ASSUME NEW c, IsCache(c), InsideCache(c)
  PROVE  /\ Readable(c) \in Seq(Bytes)
         /\ Len(Readable(c)) = c.w - c.r
         /\ \A i \in 1 .. c.w - c.r : Readable(c)[i] = c.data[c.r + i - 1]
<1> DEFINE n == c.w - c.r
<1>1. /\ n \in Nat /\ c.r \in Nat /\ c.w \in Nat /\ c.w <= c.cap
      /\ c.cap \in Nat
  BY DEF IsCache, InsideCache
<1>2. \A i \in 1 .. n : c.r + i - 1 \in 0 .. c.cap - 1
  BY <1>1
<1>3. \A i \in 1 .. n : c.data[c.r + i - 1] \in Bytes
  BY <1>2 DEF IsCache
<1>4. Readable(c) = [i \in 1 .. n |-> c.data[c.r + i - 1]]
  BY DEF Readable
<1> QED
  BY <1>1, <1>3, <1>4, SMTT(20)

(* realloc keeps the bytes both sizes have room for.                       *)
LEMMA ReallocRight ==
  ASSUME NEW c, IsCache(c), NEW n \in Nat
  PROVE  LET b == Realloc(c, n)
         IN  /\ IsCache(b)
             /\ b.r = c.r /\ b.w = c.w /\ b.cap = n
             /\ \A i \in 0 .. n - 1 : i < c.cap => b.data[i] = c.data[i]
<1> DEFINE d == [i \in 0 .. n - 1 |-> IF i < c.cap THEN c.data[i] ELSE Junk]
<1>1. d \in [0 .. n - 1 -> Bytes]
  BY ClientDataAssumption DEF IsCache
<1>2. \A i \in 0 .. n - 1 : i < c.cap => d[i] = c.data[i]
  OBVIOUS
<1>3. Realloc(c, n) = Cache(d, c.r, c.w, n)
  BY DEF Realloc
<1> HIDE DEF d
<1> QED
  BY <1>1, <1>2, <1>3 DEF IsCache, Cache

(* The room expandeSpace makes is enough, and made only when needed.       *)
LEMMA ExpandRight ==
  ASSUME NEW c, IsCache(c), InsideCache(c), NEW n \in Nat
  PROVE  LET b == Expand(c, n)
         IN  /\ IsCache(b)
             /\ b.r = c.r /\ b.w = c.w
             /\ b.cap >= c.w + n
             /\ b.cap >= BuffSize
             /\ b.cap > BuffSize => c.w + n >= BuffSize
             /\ \A i \in 0 .. c.w - 1 : b.data[i] = c.data[i]
<1>1. c.cap \in Nat /\ c.w \in Nat /\ c.r \in Nat /\ c.w <= c.cap
      /\ c.cap >= BuffSize /\ BuffSize \in Nat
      /\ (c.cap > BuffSize => c.w >= BuffSize)
  BY ClientDataAssumption DEF IsCache, InsideCache
<1>2. CASE c.cap - c.w < n
  <2> DEFINE m == c.w + n + 2
             b == Realloc(c, m)
  <2>1. Expand(c, n) = b /\ m \in Nat
    BY <1>1, <1>2 DEF Expand
  <2>2. \A i \in 0 .. c.w - 1 : i \in 0 .. m - 1 /\ i < c.cap
    BY <1>1
  <2>3. m >= c.w + n /\ m >= BuffSize /\ c.w + n >= BuffSize
    BY <1>1, <1>2
  <2> HIDE DEF m
  <2>4. /\ IsCache(b) /\ b.r = c.r /\ b.w = c.w /\ b.cap = m
        /\ \A i \in 0 .. m - 1 : i < c.cap => b.data[i] = c.data[i]
    BY <2>1, ReallocRight
  <2> HIDE DEF b
  <2> QED
    BY <2>1, <2>2, <2>3, <2>4
<1>3. CASE ~(c.cap - c.w < n)
  BY <1>1, <1>3 DEF Expand
<1> QED
  BY <1>2, <1>3

(* write appends to what is readable, and stays inside the buffer.         *)
LEMMA WriteRight ==
  ASSUME NEW c, IsCache(c), InsideCache(c), NEW s \in Seq(Bytes)
  PROVE  /\ IsCache(Write(c, s))
         /\ InsideCache(Write(c, s))
         /\ Readable(Write(c, s)) = Readable(c) \o s
         /\ Write(c, s).w = c.w + Len(s)
<1> DEFINE n == Len(s)
           b == Expand(c, n)
           d == [i \in 0 .. b.cap - 1 |->
                   IF i \in b.w .. b.w + n - 1 THEN s[i - b.w + 1] ELSE b.data[i]]
           e == Write(c, s)
<1>1. n \in Nat /\ \A i \in 1 .. n : s[i] \in Bytes
  OBVIOUS
<1>2. /\ IsCache(b) /\ b.r = c.r /\ b.w = c.w
      /\ b.cap >= c.w + n /\ b.cap >= BuffSize
      /\ b.cap > BuffSize => c.w + n >= BuffSize
      /\ \A i \in 0 .. c.w - 1 : b.data[i] = c.data[i]
  BY <1>1, ExpandRight
<1>3. e = Cache(d, b.r, b.w + n, b.cap)
  BY DEF Write
<1>4. /\ c.r \in Nat /\ c.w \in Nat /\ c.r <= c.w /\ b.cap \in Nat
      /\ b.data \in [0 .. b.cap - 1 -> Bytes]
  BY <1>2 DEF IsCache, InsideCache
<1> HIDE DEF n, b
<1>nat. /\ c.r \in Nat /\ c.w \in Nat /\ n \in Nat /\ b.cap \in Nat
        /\ b.w = c.w /\ c.r <= c.w /\ c.w + n <= b.cap
  BY <1>1, <1>2, <1>4
<1>5. d \in [0 .. b.cap - 1 -> Bytes]
  <2>1. ASSUME NEW i \in 0 .. b.cap - 1, i \in b.w .. b.w + n - 1
        PROVE  s[i - b.w + 1] \in Bytes
    <3>1. i - b.w + 1 \in 1 .. n
      BY <1>nat, <2>1, SMTT(20)
    <3> QED
      BY <1>1, <3>1
  <2>2. \A i \in 0 .. b.cap - 1 : b.data[i] \in Bytes
    BY <1>4
  <2> QED
    BY <2>1, <2>2
<1>6. e.data = d /\ e.r = c.r /\ e.w = c.w + n /\ e.cap = b.cap
  BY <1>2, <1>3 DEF Cache
<1>7. IsCache(e) /\ InsideCache(e)
  <2>1. e = Cache(e.data, e.r, e.w, e.cap)
    BY <1>2, <1>3, <1>6
  <2> HIDE DEF d, e
  <2>2. IsCache(e)
    BY <1>1, <1>4, <1>5, <1>6, <2>1 DEF IsCache
  <2>3. InsideCache(e)
    BY <1>1, <1>2, <1>4, <1>6 DEF InsideCache
  <2> QED
    BY <2>2, <2>3
<1>8. \A i \in 1 .. c.w - c.r : d[c.r + i - 1] = c.data[c.r + i - 1]
  <2>1. ASSUME NEW i \in 1 .. c.w - c.r
        PROVE  d[c.r + i - 1] = c.data[c.r + i - 1]
    <3>1. i \in Nat /\ 1 <= i /\ c.r + i <= c.w
      BY <1>nat
    <3>2. c.r + i - 1 \in 0 .. c.w - 1
      BY <1>nat, <3>1, SMTT(20)
    <3>3. c.r + i - 1 \in 0 .. b.cap - 1
      BY <1>nat, <3>1, SMTT(20)
    <3>4. c.r + i - 1 \notin b.w .. b.w + n - 1
      BY <1>nat, <3>1, SMTT(20)
    <3> QED
      BY <1>2, <3>2, <3>3, <3>4
  <2> QED
    BY <2>1
<1>9. \A i \in 1 .. n : d[c.w + i - 1] = s[i]
  <2>1. ASSUME NEW i \in 1 .. n
        PROVE  d[c.w + i - 1] = s[i]
    <3>1. c.w + i - 1 \in 0 .. b.cap - 1 /\ c.w + i - 1 \in b.w .. b.w + n - 1
          /\ (c.w + i - 1) - b.w + 1 = i
      BY <1>nat, SMTT(20)
    <3> QED
      BY <3>1
  <2> QED
    BY <2>1
<1> HIDE DEF d, e
<1>10. Readable(e) = Readable(c) \o s
  <2> DEFINE x == Readable(e)
             u == Readable(c)
             k == c.w - c.r
  <2>1. /\ u \in Seq(Bytes) /\ Len(u) = k
        /\ \A i \in 1 .. k : u[i] = c.data[c.r + i - 1]
        /\ k \in Nat
    BY <1>4, ReadableType
  <2>2. /\ x \in Seq(Bytes) /\ Len(x) = k + n
        /\ \A i \in 1 .. k + n : x[i] = d[c.r + i - 1]
    <3>1. e.w - e.r = k + n
      BY <1>1, <1>4, <1>6
    <3> QED
      BY <1>6, <1>7, <3>1, ReadableType
  <2>3. \A i \in 1 .. k : x[i] = u[i]
    <3>1. ASSUME NEW i \in 1 .. k
          PROVE  x[i] = u[i]
      <4>1. i \in 1 .. k + n
        BY <1>1, <2>1
      <4>2. x[i] = d[c.r + i - 1] /\ u[i] = c.data[c.r + i - 1]
        BY <2>1, <2>2, <4>1
      <4> QED
        BY <1>8, <4>2
    <3> QED
      BY <3>1
  <2>4. \A i \in 1 .. n : x[k + i] = s[i]
    <3>1. ASSUME NEW i \in 1 .. n
          PROVE  x[k + i] = s[i]
      <4>1. k + i \in 1 .. k + n /\ c.r + (k + i) - 1 = c.w + i - 1
        BY <1>1, <1>4, <2>1, SMTT(20)
      <4> QED
        BY <1>9, <2>2, <4>1
    <3> QED
      BY <3>1
  <2> HIDE DEF x, u, k
  <2>5. x = u \o s
    BY <2>1, <2>2, <2>3, <2>4, IsConcat DEF n
  <2> QED
    BY <2>5 DEF x, u
<1> QED
  BY <1>6, <1>7, <1>10 DEF e, n

(* alignPosition drops the bytes read, keeps the others in front, and      *)
(* leaves the buffer large enough for them.                                *)
LEMMA AlignRight ==
  ASSUME NEW c, IsCache(c), InsideCache(c), NEW n \in 0 .. c.w - c.r
  PROVE  /\ IsCache(AlignPositionBy(c, n))
         /\ InsideCache(AlignPositionBy(c, n))
         /\ Readable(AlignPositionBy(c, n))
              = SubSeq(Readable(c), n + 1, Len(Readable(c)))
         /\ AlignPositionBy(c, n).w = c.w - c.r - n
<1> DEFINE m == c.w - (c.r + n)
           d == [i \in 0 .. c.cap - 1 |->
                   IF i < m THEN c.data[c.r + n + i] ELSE c.data[i]]
           f == Cache(d, 0, m, c.cap)
           e == AlignPositionBy(c, n)
<1>1. /\ c.r \in Nat /\ c.w \in Nat /\ c.cap \in Nat /\ c.r <= c.w /\ c.w <= c.cap
      /\ c.data \in [0 .. c.cap - 1 -> Bytes]
      /\ c.cap >= BuffSize /\ BuffSize \in Nat
  BY ClientDataAssumption DEF IsCache, InsideCache
<1>2. n \in Nat /\ m \in Nat /\ m = c.w - c.r - n /\ c.r + n + m = c.w
  BY <1>1
<1>3. e = Revert(f)
  BY DEF AlignPositionBy, AlignPosition, MoveToFront, Cache
<1> HIDE DEF m, e
<1>4. d \in [0 .. c.cap - 1 -> Bytes]
  <2>1. ASSUME NEW i \in 0 .. c.cap - 1, i < m
        PROVE  c.data[c.r + n + i] \in Bytes
    <3>1. c.r \in Nat /\ n \in Nat /\ m \in Nat /\ c.cap \in Nat /\ i \in Nat
      BY <1>1, <1>2, <2>1
    <3>2. c.r + n + m <= c.cap
      BY <1>1, <1>2
    <3>3. c.r + n + i >= 0 /\ c.r + n + i <= c.cap - 1
      BY <2>1, <3>1, <3>2, SMT
    <3>4. c.r + n + i \in 0 .. c.cap - 1
      BY <3>1, <3>3, SMT
    <3> QED
      BY <1>1, <3>4
  <2>2. \A i \in 0 .. c.cap - 1 : c.data[i] \in Bytes
    BY <1>1
  <2> QED
    BY <2>1, <2>2
<1>5. \A i \in 0 .. m - 1 : d[i] = c.data[c.r + n + i]
  <2>1. m \in Int /\ c.cap \in Int /\ m <= c.cap
    BY <1>1, <1>2
  <2>2. \A i \in 0 .. m - 1 : i \in 0 .. c.cap - 1 /\ i < m
    BY <2>1
  <2> QED
    BY <2>2
<1> HIDE DEF d
<1>6. f.data = d /\ f.r = 0 /\ f.w = m /\ f.cap = c.cap /\ IsCache(f)
  BY <1>1, <1>2, <1>4 DEF IsCache, Cache
<1> HIDE DEF f
<1>7. /\ IsCache(e) /\ e.r = 0 /\ e.w = m
      /\ e.cap >= BuffSize /\ m <= e.cap
      /\ e.cap > BuffSize => m >= BuffSize
      /\ \A i \in 0 .. m - 1 : e.data[i] = d[i]
  <2>1. CASE f.cap > BuffSize /\ f.w < BuffSize
    <3> DEFINE g == Realloc(f, BuffSize)
    <3>1. e = g
      BY <1>3, <2>1 DEF Revert
    <3>2. /\ IsCache(g) /\ g.r = f.r /\ g.w = f.w /\ g.cap = BuffSize
          /\ \A i \in 0 .. BuffSize - 1 : i < f.cap => g.data[i] = f.data[i]
      BY <1>1, <1>6, ReallocRight, ZenonT(40)
    <3>3. \A i \in 0 .. m - 1 : i \in 0 .. BuffSize - 1 /\ i < f.cap
      BY <1>1, <1>2, <1>6, <2>1
    <3> HIDE DEF g
    <3> QED
      BY <1>1, <1>2, <1>6, <2>1, <3>1, <3>2, <3>3, SMTT(20)
  <2>2. CASE ~(f.cap > BuffSize /\ f.w < BuffSize)
    <3>1. e = f
      BY <1>3, <2>2 DEF Revert
    <3> QED
      BY <1>1, <1>2, <1>6, <2>2, <3>1, SMTT(20)
  <2> QED
    BY <2>1, <2>2
<1>8. InsideCache(e)
  BY <1>2, <1>7 DEF InsideCache
<1>9. Readable(e) = SubSeq(Readable(c), n + 1, Len(Readable(c)))
  <2> DEFINE x == Readable(e)
             u == Readable(c)
             y == SubSeq(u, n + 1, Len(u))
  <2>1. /\ u \in Seq(Bytes) /\ Len(u) = n + m
        /\ \A i \in 1 .. n + m : u[i] = c.data[c.r + i - 1]
    <3>1. c.w - c.r = n + m
      BY <1>1, <1>2
    <3> QED
      BY <3>1, ReadableType
  <2>2. /\ x \in Seq(Bytes) /\ Len(x) = m
        /\ \A i \in 1 .. m : x[i] = e.data[i - 1]
    <3>1. e.w - e.r = m /\ \A i \in 1 .. m : e.r + i - 1 = i - 1
      BY <1>2, <1>7
    <3> QED
      BY <1>7, <1>8, <3>1, ReadableType
  <2> HIDE DEF x, u
  <2>3. /\ y \in Seq(Bytes) /\ Len(y) = m
        /\ \A i \in 1 .. m : y[i] = u[n + i]
    BY <1>2, <2>1
  <2>4. ASSUME NEW i \in 1 .. m
        PROVE  x[i] = y[i]
    <3>1. /\ i - 1 \in 0 .. m - 1
          /\ n + i \in 1 .. n + m
          /\ c.r + (n + i) - 1 = c.r + n + (i - 1)
      <4>1. i \in Int /\ 1 <= i /\ i <= m /\ c.r \in Int
        BY <1>1, <1>2
      <4> QED
        BY <1>2, <4>1
    <3>2. x[i] = e.data[i - 1] /\ e.data[i - 1] = d[i - 1]
      BY <1>7, <2>2, <3>1
    <3>3. d[i - 1] = c.data[c.r + n + (i - 1)]
      BY <1>5, <3>1
    <3>4. y[i] = u[n + i] /\ u[n + i] = c.data[c.r + (n + i) - 1]
      BY <2>1, <2>3, <3>1
    <3> QED
      BY <3>1, <3>2, <3>3, <3>4
  <2> HIDE DEF y
  <2>5. x = y
    BY <2>2, <2>3, <2>4
  <2> QED
    BY <2>5 DEF x, y, u
<1> QED
  BY <1>2, <1>7, <1>8, <1>9 DEF e

(* A partial write moves the read position only.                           *)
LEMMA SkipRight ==
  ASSUME NEW c, IsCache(c), InsideCache(c), NEW n \in 0 .. c.w - c.r
  PROVE  LET e == Cache(c.data, c.r + n, c.w, c.cap)
         IN  /\ IsCache(e) /\ InsideCache(e) /\ e.w = c.w
             /\ Readable(e) = SubSeq(Readable(c), n + 1, Len(Readable(c)))
<1> DEFINE e == Cache(c.data, c.r + n, c.w, c.cap)
           m == c.w - c.r - n
<1>1. /\ c.r \in Nat /\ c.w \in Nat /\ c.cap \in Nat /\ c.r <= c.w /\ c.w <= c.cap
      /\ c.data \in [0 .. c.cap - 1 -> Bytes]
      /\ c.cap >= BuffSize /\ (c.cap > BuffSize => c.w >= BuffSize)
  BY DEF IsCache, InsideCache
<1>2. n \in Nat /\ m \in Nat /\ c.w - c.r = n + m
  BY <1>1
<1>3. e.data = c.data /\ e.r = c.r + n /\ e.w = c.w /\ e.cap = c.cap
  BY DEF Cache
<1>4. e = Cache(e.data, e.r, e.w, e.cap)
  BY <1>3
<1> HIDE DEF e
<1>5. IsCache(e) /\ InsideCache(e)
  BY <1>1, <1>2, <1>3, <1>4, SMTT(20) DEF IsCache, InsideCache
<1>6. Readable(e) = SubSeq(Readable(c), n + 1, Len(Readable(c)))
  <2> DEFINE x == Readable(e)
             u == Readable(c)
             y == SubSeq(u, n + 1, Len(u))
  <2>1. /\ u \in Seq(Bytes) /\ Len(u) = n + m
        /\ \A i \in 1 .. n + m : u[i] = c.data[c.r + i - 1]
    BY <1>2, ReadableType
  <2>2. /\ x \in Seq(Bytes) /\ Len(x) = m
        /\ \A i \in 1 .. m : x[i] = e.data[e.r + i - 1]
    <3>1. e.w - e.r = m
      BY <1>1, <1>2, <1>3
    <3> QED
      BY <1>5, <3>1, ReadableType
  <2> HIDE DEF x, u, m
  <2>3. /\ y \in Seq(Bytes) /\ Len(y) = m
        /\ \A i \in 1 .. m : y[i] = u[n + i]
    BY <1>2, <2>1
  <2>4. ASSUME NEW i \in 1 .. m
        PROVE  x[i] = y[i]
    <3>1. n + i \in 1 .. n + m /\ c.r + (n + i) - 1 = e.r + i - 1
      BY <1>1, <1>2, <1>3
    <3> QED
      BY <1>3, <2>1, <2>2, <2>3, <3>1
  <2> HIDE DEF y
  <2>5. x = y
    BY <2>2, <2>3, <2>4
  <2> QED
    BY <2>5 DEF x, y, u
<1> QED
  BY <1>3, <1>5, <1>6 DEF e

(* A new cache is empty.                                                   *)
LEMMA NewCacheRight ==
  /\ IsCache(NewCache) /\ InsideCache(NewCache) /\ NewCache.w = 0
  /\ Readable(NewCache) = <<>>
<1> DEFINE d == [i \in 0 .. BuffSize - 1 |-> Junk]
<1>1. BuffSize \in Nat /\ d \in [0 .. BuffSize - 1 -> Bytes]
  BY ClientDataAssumption
<1>2. NewCache = Cache(d, 0, 0, BuffSize)
  BY DEF NewCache
<1> HIDE DEF d
<1>3. /\ NewCache.data = d /\ NewCache.r = 0 /\ NewCache.w = 0
      /\ NewCache.cap = BuffSize
  BY <1>2 DEF Cache
<1>4. IsCache(NewCache) /\ InsideCache(NewCache)
  BY <1>1, <1>2, <1>3 DEF IsCache, InsideCache
<1>5. Readable(NewCache) \in Seq(Bytes) /\ Len(Readable(NewCache)) = 0
  BY <1>3, <1>4, ReadableType
<1> QED
  BY <1>3, <1>4, <1>5

-----------------------------------------------------------------------------
(* Framing.                                                                *)

LEMMA ConstantTypes ==
  /\ ReadSize \in Nat \ {0} /\ HeaderLen \in Nat \ {0}
  /\ IntMax \in Nat /\ SizeMod \in Nat \ {0} /\ MaxBytes \in Nat
  /\ SizeMod > 2 * IntMax + 1 /\ MaxBytes <= IntMax
  /\ TornInt \in Ints
  BY ConnectionAssumption

LEMMA IntAtType ==
  ASSUME NEW s PROVE IntAt(s) \in Ints
<1>1. CASE \E v \in Ints : SubSeq(s, 1, HeaderLen) = IntBytes(v)
  BY <1>1 DEF IntAt
<1>2. CASE ~\E v \in Ints : SubSeq(s, 1, HeaderLen) = IntBytes(v)
  BY <1>2, ConstantTypes DEF IntAt
<1> QED
  BY <1>1, <1>2

(* An int that is not negative stays as it is where it meets a size_t, and *)
(* a negative one becomes larger than every int.                           *)
LEMMA ToSizeRight ==
  ASSUME NEW v \in Ints
  PROVE  /\ ToSize(v) \in Int
         /\ v >= 0 => ToSize(v) = v
         /\ v < 0 => ToSize(v) > IntMax
<1>1. v \in Int /\ -IntMax - 1 <= v /\ v <= IntMax
  BY ConstantTypes DEF Ints
<1>2. v % SizeMod \in 0 .. SizeMod - 1
  BY <1>1, ConstantTypes, ModDef
<1>3. ASSUME v >= 0 PROVE v % SizeMod = v
  <2>1. v \in 0 .. SizeMod - 1
    BY <1>1, <1>3, ConstantTypes
  <2> QED
    BY <2>1, ConstantTypes, ModBelow
<1>4. ASSUME v < 0 PROVE v % SizeMod > IntMax
  <2>1. v + SizeMod \in 0 .. SizeMod - 1 /\ v + SizeMod > IntMax
    BY <1>1, <1>4, ConstantTypes
  <2>2. (v + SizeMod) % SizeMod = v + SizeMod
    BY <2>1, ConstantTypes, ModBelow
  <2>3. SizeMod \in 0 .. SizeMod
    BY ConstantTypes
  <2>4. (v + SizeMod) % SizeMod
          = IF (v % SizeMod) + SizeMod < SizeMod
            THEN (v % SizeMod) + SizeMod ELSE (v % SizeMod) + SizeMod - SizeMod
    BY <1>1, <2>3, ConstantTypes, ModShift
  <2>5. v % SizeMod = v + SizeMod
    BY <1>1, <1>2, <2>2, <2>4, ConstantTypes
  <2> QED
    BY <2>1, <2>5
<1> QED
  BY <1>2, <1>3, <1>4 DEF ToSize

(* What haspackage finds is there, and is a header with the length of what *)
(* follows it, for all widths of int and size_t and whatever length the    *)
(* client declares (message.cpp:36 to 50).                                 *)
THEOREM PackageRight ==
  ASSUME NEW s \in Seq(Bytes), Len(s) <= MaxBytes, HasPackage(s) > 0
  PROVE  /\ HasPackage(s) \in 1 .. Len(s)
         /\ Framed(SubSeq(s, 1, HasPackage(s)))
<1> DEFINE v == IntAt(s)
           n == HasPackage(s)
           m == SubSeq(s, 1, n)
<1>1. v \in Ints /\ v \in Int
  BY IntAtType, ConstantTypes DEF Ints
<1>2. Len(s) \in Nat
  OBVIOUS
<1>3. Len(s) >= HeaderLen /\ ~(ToSize(v) > Len(s) - HeaderLen) /\ n = HeaderLen + v
  BY <1>2, ConstantTypes DEF HasPackage
<1> HIDE DEF v, n
<1>4. v >= 0
  BY <1>1, <1>2, <1>3, ToSizeRight, ConstantTypes
<1>5. v <= Len(s) - HeaderLen
  BY <1>1, <1>2, <1>3, <1>4, ToSizeRight, ConstantTypes
<1>6. n \in HeaderLen .. Len(s) /\ n \in 1 .. Len(s)
  BY <1>1, <1>2, <1>3, <1>4, <1>5, ConstantTypes
<1>7. m \in Seq(Bytes) /\ Len(m) = n
  BY <1>2, <1>6
<1>8. SubSeq(m, 1, HeaderLen) = SubSeq(s, 1, HeaderLen)
  <2>1. HeaderLen \in 1 .. n /\ HeaderLen \in 1 .. Len(s)
    BY <1>2, <1>6, ConstantTypes
  <2> DEFINE x == SubSeq(m, 1, HeaderLen)
             y == SubSeq(s, 1, HeaderLen)
  <2>2. x \in Seq(Bytes) /\ Len(x) = HeaderLen
    BY <1>7, <2>1
  <2>3. y \in Seq(Bytes) /\ Len(y) = HeaderLen
    BY <2>1
  <2>4. \A i \in 1 .. HeaderLen : y[i] = s[i]
    BY <2>1
  <2>5. \A i \in 1 .. n : m[i] = s[i]
    BY <1>2, <1>6
  <2>6. \A i \in 1 .. HeaderLen : i \in 1 .. n
    BY <1>6, <2>1
  <2> HIDE DEF m
  <2>7. \A i \in 1 .. HeaderLen : x[i] = m[i]
    BY <1>7, <2>1
  <2> HIDE DEF x, y
  <2>8. x = y
    BY <2>2, <2>3, <2>4, <2>5, <2>6, <2>7
  <2> QED
    BY <2>8 DEF x, y
<1> HIDE DEF m
<1>9. IntAt(m) = v
  BY <1>8 DEF IntAt, v
<1>10. Framed(m)
  BY <1>1, <1>3, <1>6, <1>7, <1>9, ConstantTypes DEF Framed
<1> QED
  BY <1>6, <1>10 DEF m, n

(* The worker's response is a sequence of bytes.                           *)
LEMMA ResponseType ==
  ASSUME NEW m \in Seq(Bytes), Framed(m), Len(m) <= MaxBytes
  PROVE  Response(m) \in Seq(Bytes)
<1>1. /\ IntAt(m) = Len(m) - HeaderLen /\ Len(m) \in Nat
      /\ Len(m) >= HeaderLen /\ IntAt(m) + HeaderLen = Len(m)
  BY ConstantTypes DEF Framed
<1>2. Len(m) \in Ints
  BY <1>1, ConstantTypes DEF Ints
<1>3. IntBytes(Len(m)) \in Seq(Bytes)
  BY <1>2, ConstantTypes, ConnectionAssumption DEF IntBytes
<1>4. Body(m) \in Seq(Bytes)
  BY <1>1, ConstantTypes DEF Body
<1> QED
  BY <1>1, <1>3, <1>4 DEF Response

-----------------------------------------------------------------------------
(* The invariant.  Messages in the ring are as long as the cache they come *)
(* from at most, so that the length of a response is an int.               *)
Bounded ==
  /\ wCache.w <= MaxBytes
  /\ \A i \in DOMAIN toWorker : Len(toWorker[i]) <= MaxBytes

IInv == TypeOK /\ CachesInside /\ MessagesFramed /\ Bounded

LEMMA InitInv == Init => IInv
<1> SUFFICES ASSUME Init PROVE IInv
  OBVIOUS
<1>1. scene \in Scenarios /\ scene.items \in Seq(Seq(Bytes))
  BY ConnectionAssumption DEF Init
<1>2. TypeOK
  <2>1. <<>> \in Seq(Bytes) /\ <<>> \in Seq(Seq(Bytes))
    OBVIOUS
  <2>2. /\ unsent \in Seq(Seq(Bytes)) /\ arrived = <<>> /\ toWorker = <<>>
        /\ toProxy = <<>> /\ fin = FALSE /\ reset = "no" /\ pc = "idle"
        /\ count = 0 /\ read = <<>> /\ cut = <<>> /\ answered = <<>> /\ got = <<>>
    BY <1>1 DEF Init
  <2>3. IsCache(wCache) /\ IsCache(rCache)
    BY NewCacheRight DEF Init
  <2> QED
    BY <1>1, <2>1, <2>2, <2>3 DEF TypeOK
<1>3. CachesInside
  BY NewCacheRight DEF Init, CachesInside
<1>4. MessagesFramed
  BY DEF Init, MessagesFramed
<1>5. Bounded
  BY NewCacheRight, ConstantTypes DEF Init, Bounded
<1> QED
  BY <1>2, <1>3, <1>4, <1>5 DEF IInv

(* The clients' steps touch the network only.                              *)
LEMMA NetworkStep ==
  ASSUME IInv, SendBytes \/ SendDatagram \/ CloseClient \/ Abort \/ Reset
  PROVE  IInv'
<1>0. reset' \in {"no", "abort", "pipe"}
  BY DEF SendBytes, SendDatagram, CloseClient, Abort, Reset, IInv, TypeOK
<1>1. UNCHANGED <<scene, requests, responses, pc, toWorker, toProxy>>
  BY DEF SendBytes, SendDatagram, CloseClient, Abort, Reset
<1>2. /\ fin' \in BOOLEAN /\ {unsent', arrived'} \subseteq Seq(Seq(Bytes))
      /\ IsTcp => arrived' = <<>> \/ (Len(arrived') = 1 /\ arrived'[1] # <<>>)
  <2>1. CASE SendBytes
    <3>1. PICK n \in 1 .. Len(Head(unsent)) :
            LET s == SubSeq(Head(unsent), 1, n)
                rest == SubSeq(Head(unsent), n + 1, Len(Head(unsent)))
            IN  /\ unsent' = IF rest = <<>> THEN Tail(unsent)
                             ELSE <<rest>> \o Tail(unsent)
                /\ arrived' = IF arrived = <<>> THEN <<s>>
                              ELSE <<arrived[1] \o s>>
      BY <2>1 DEF SendBytes
    <3> DEFINE h == Head(unsent)
               s == SubSeq(h, 1, n)
               rest == SubSeq(h, n + 1, Len(h))
    <3>2. /\ IsTcp /\ unsent # <<>> /\ fin' = fin
          /\ {unsent, arrived} \subseteq Seq(Seq(Bytes)) /\ fin \in BOOLEAN
          /\ arrived = <<>> \/ (Len(arrived) = 1 /\ arrived[1] # <<>>)
      BY <2>1 DEF SendBytes, IInv, TypeOK
    <3>3. h \in Seq(Bytes) /\ Tail(unsent) \in Seq(Seq(Bytes))
      BY <3>2
    <3> HIDE DEF h
    <3>4. n \in 1 .. Len(h)
      BY <3>1 DEF h
    <3>5. s \in Seq(Bytes) /\ Len(s) = n /\ rest \in Seq(Bytes) /\ s # <<>>
      <4>1. s \in Seq(Bytes) /\ Len(s) = n
        BY <3>3, <3>4
      <4>2. rest \in Seq(Bytes)
        BY <3>3, <3>4
      <4> HIDE DEF s, rest
      <4> QED
        BY <3>4, <4>1, <4>2
    <3> HIDE DEF s, rest
    <3>6. unsent' \in Seq(Seq(Bytes))
      <4>1. <<rest>> \in Seq(Seq(Bytes))
        BY <3>5
      <4> QED
        BY <3>1, <3>3, <4>1 DEF h, rest
    <3>7. CASE arrived = <<>>
      <4>1. arrived' = <<s>>
        BY <3>1, <3>7 DEF s, h
      <4> QED
        BY <3>2, <3>5, <3>6, <4>1
    <3>8. CASE arrived # <<>>
      <4> DEFINE a == arrived[1]
                 t == a \o s
      <4>1. arrived' = <<t>>
        BY <3>1, <3>8 DEF s, h
      <4>2. a \in Seq(Bytes)
        BY <3>2, <3>8
      <4> HIDE DEF a
      <4>3. t \in Seq(Bytes) /\ t # <<>>
        <5>1. Len(t) = Len(a) + Len(s) /\ t \in Seq(Bytes)
          BY <3>5, <4>2
        <5>2. Len(t) > 0
          BY <3>4, <3>5, <4>2, <5>1
        <5> QED
          BY <5>1, <5>2
      <4> HIDE DEF t
      <4> QED
        BY <3>2, <3>6, <4>1, <4>3
    <3> QED
      BY <3>7, <3>8
  <2>2. CASE SendDatagram
    <3>1. /\ Head(unsent) \in Seq(Bytes) /\ Tail(unsent) \in Seq(Seq(Bytes))
          /\ ~IsTcp /\ fin' = fin /\ fin \in BOOLEAN
          /\ arrived \in Seq(Seq(Bytes))
      BY <2>2 DEF SendDatagram, IInv, TypeOK
    <3> QED
      BY <2>2, <3>1 DEF SendDatagram
  <2>3. CASE CloseClient
    BY <2>3 DEF CloseClient, IInv, TypeOK
  <2>4. CASE Abort \/ Reset
    BY <2>4 DEF Abort, Reset, IInv, TypeOK
  <2> QED
    BY <2>1, <2>2, <2>3, <2>4
<1>3. TypeOK'
  BY <1>0, <1>1, <1>2 DEF IInv, TypeOK, requests, responses, IsTcp
<1>4. CachesInside' /\ MessagesFramed' /\ Bounded'
  BY <1>1 DEF IInv, CachesInside, MessagesFramed, Bounded, requests, responses
<1> QED
  BY <1>3, <1>4 DEF IInv

(* A queue with one element has none behind it.                            *)
LEMMA TailOfOne ==
  ASSUME NEW S, NEW q \in Seq(S), Len(q) = 1
  PROVE  Tail(q) = <<>>
<1> DEFINE t == Tail(q)
<1>1. t \in Seq(S) /\ Len(t) = 0
  OBVIOUS
<1> HIDE DEF t
<1>2. t = <<>>
  <2> SUFFICES ASSUME t # <<>> PROVE FALSE
    OBVIOUS
  <2>1. Len(t) > 0
    BY <1>1
  <2> QED
    BY <1>1, <2>1
<1> QED
  BY <1>2 DEF t

(* A queue's elements after one was added.                                 *)
LEMMA AppendElements ==
  ASSUME NEW S, NEW q \in Seq(S), NEW e \in S
  PROVE  /\ Append(q, e) \in Seq(S)
         /\ \A i \in DOMAIN Append(q, e) :
              \/ i \in DOMAIN q /\ Append(q, e)[i] = q[i]
              \/ Append(q, e)[i] = e
<1>1. /\ Append(q, e) \in Seq(S) /\ Len(Append(q, e)) = Len(q) + 1
      /\ Append(q, e)[Len(q) + 1] = e
      /\ \A i \in 1 .. Len(q) : Append(q, e)[i] = q[i]
  OBVIOUS
<1>2. DOMAIN Append(q, e) = 1 .. Len(q) + 1 /\ DOMAIN q = 1 .. Len(q)
  BY <1>1
<1>3. Len(q) \in Nat
  OBVIOUS
<1> QED
  BY <1>1, <1>2, <1>3

(* A queue's elements after the first was taken.                           *)
LEMMA TailElements ==
  ASSUME NEW S, NEW q \in Seq(S), q # <<>>
  PROVE  /\ Head(q) \in S /\ Head(q) = q[1] /\ 1 \in DOMAIN q
         /\ Tail(q) \in Seq(S)
         /\ \A i \in DOMAIN Tail(q) : i + 1 \in DOMAIN q /\ Tail(q)[i] = q[i + 1]
<1>1. /\ Tail(q) \in Seq(S) /\ Len(Tail(q)) = Len(q) - 1 /\ Len(q) \in Nat
      /\ Len(q) > 0
      /\ \A i \in 1 .. Len(Tail(q)) : Tail(q)[i] = q[i + 1]
  OBVIOUS
<1>2. DOMAIN q = 1 .. Len(q) /\ DOMAIN Tail(q) = 1 .. Len(Tail(q))
  BY <1>1
<1>3. Head(q) = q[1] /\ Head(q) \in S
  OBVIOUS
<1> QED
  BY <1>1, <1>2, <1>3

(* A turn of recvData's loop puts what it reads into the cache, or ends    *)
(* the connection.                                                         *)
LEMMA RecvStep ==
  ASSUME IInv, RecvData
  PROVE  /\ IInv'
         /\ RequestStream!Put \/ UNCHANGED <<read, Readable(wCache), cut>>
<1> DEFINE piece == Head(arrived)
           n == IF Len(piece) < ReadSize THEN Len(piece) ELSE ReadSize
           s == SubSeq(piece, 1, n)
           rest == SubSeq(piece, n + 1, Len(piece))
<1>1. /\ arrived # <<>> /\ wCache.w + n <= MaxBytes
      /\ arrived' = IF IsTcp /\ rest # <<>> THEN <<rest>> ELSE Tail(arrived)
      /\ IF n = 0
         THEN pc' = "closed" /\ UNCHANGED <<wCache, read>>
         ELSE /\ pc' = "recv"
              /\ wCache' = Write(wCache, s)
              /\ read' = read \o s
      /\ UNCHANGED <<scene, unsent, fin, reset, responses, toWorker, toProxy>>
      /\ UNCHANGED <<count, cut>>
  BY DEF RecvData
<1>2. /\ arrived \in Seq(Seq(Bytes)) /\ read \in Seq(Bytes)
      /\ IsTcp => arrived = <<>> \/ (Len(arrived) = 1 /\ arrived[1] # <<>>)
      /\ IsCache(wCache) /\ InsideCache(wCache)
  BY DEF IInv, TypeOK, CachesInside
<1>3. piece \in Seq(Bytes) /\ Tail(arrived) \in Seq(Seq(Bytes))
  BY <1>1, <1>2
<1> HIDE DEF piece
<1>4. n \in 0 .. Len(piece)
  BY <1>3, ConstantTypes
<1>5. s \in Seq(Bytes) /\ Len(s) = n /\ rest \in Seq(Bytes)
  <2> HIDE DEF n
  <2> QED
    BY <1>3, <1>4
<1>6. /\ arrived' \in Seq(Seq(Bytes))
      /\ IsTcp => arrived' = <<>> \/ (Len(arrived') = 1 /\ arrived'[1] # <<>>)
  <2> HIDE DEF n, s, rest
  <2>1. CASE IsTcp /\ rest # <<>>
    BY <1>1, <1>5, <2>1 DEF rest, n, piece
  <2>2. CASE ~(IsTcp /\ rest # <<>>)
    <3>1. arrived' = Tail(arrived)
      BY <1>1, <2>2 DEF rest, n, piece
    <3>2. Len(arrived) = 1 => Tail(arrived) = <<>>
      BY <1>2, TailOfOne
    <3> QED
      BY <1>1, <1>2, <1>3, <3>1, <3>2
  <2> QED
    BY <2>1, <2>2
<1>7. CASE n = 0
  <2>1. UNCHANGED <<wCache, read, cut>> /\ pc' = "closed"
    BY <1>1, <1>7
  <2> HIDE DEF n, s, rest
  <2>2. TypeOK'
    BY <1>1, <1>6, <2>1 DEF IInv, TypeOK, IsTcp, responses
  <2>3. CachesInside' /\ MessagesFramed' /\ Bounded'
    BY <1>1, <2>1 DEF IInv, CachesInside, MessagesFramed, Bounded, responses
  <2>4. UNCHANGED <<read, Readable(wCache), cut>>
    BY <2>1
  <2> QED
    BY <2>2, <2>3, <2>4 DEF IInv
<1>8. CASE n # 0
  <2>1. wCache' = Write(wCache, s) /\ read' = read \o s /\ cut' = cut /\ pc' = "recv"
    BY <1>1, <1>8 DEF piece
  <2>2. wCache.w + n <= MaxBytes
    BY <1>1 DEF piece
  <2> HIDE DEF n, s, rest
  <2>3. /\ IsCache(wCache') /\ InsideCache(wCache')
        /\ Readable(wCache') = Readable(wCache) \o s
        /\ wCache'.w = wCache.w + Len(s)
    BY <1>2, <1>5, <2>1, WriteRight
  <2>4. read' \in Seq(Bytes)
    BY <1>2, <1>5, <2>1
  <2>5. TypeOK'
    BY <1>1, <1>6, <2>1, <2>3, <2>4 DEF IInv, TypeOK, IsTcp, responses
  <2>6. CachesInside' /\ MessagesFramed'
    BY <1>1, <2>3 DEF IInv, CachesInside, MessagesFramed, responses
  <2>7. Bounded'
    BY <1>1, <1>5, <2>2, <2>3 DEF IInv, Bounded
  <2>8. RequestStream!Put
    <3>1. SubSeq(read', Len(read) + 1, Len(read')) = s
      BY <1>2, <1>5, <2>1, RestOfConcat
    <3> QED
      BY <2>1, <2>3, <3>1 DEF RequestStream!Put
  <2> QED
    BY <2>5, <2>6, <2>7, <2>8 DEF IInv
<1> QED
  BY <1>7, <1>8

(* The end of the loop changes the object's state only.                    *)
LEMMA RecvEndStep ==
  ASSUME IInv, RecvEnd
  PROVE  IInv'
<1>1. /\ pc' \in {"closed", "process"}
      /\ UNCHANGED <<scene, network, requests, responses, toWorker, toProxy>>
  BY DEF RecvEnd
<1>2. TypeOK'
  BY <1>1 DEF IInv, TypeOK, IsTcp, network, requests, responses
<1>3. CachesInside' /\ MessagesFramed' /\ Bounded'
  BY <1>1 DEF IInv, CachesInside, MessagesFramed, Bounded, requests, responses
<1> QED
  BY <1>2, <1>3 DEF IInv

(* A turn of processData's loop takes a framed message from the front of   *)
(* the cache.                                                              *)
LEMMA ProcessStep ==
  ASSUME IInv, ProcessData
  PROVE  /\ IInv'
         /\ RequestStream!Take \/ UNCHANGED <<read, Readable(wCache), cut>>
<1> DEFINE n == HandleInput(wCache)
           u == Readable(wCache)
           m == SubSeq(u, 1, n)
<1>1. /\ IF n > 0
         THEN /\ toWorker' \in {Append(toWorker, m), toWorker}
              /\ wCache' = AlignPositionBy(wCache, n)
              /\ cut' = cut \o m
              /\ count' = count + 1
              /\ UNCHANGED pc
         ELSE pc' = "idle" /\ UNCHANGED <<toWorker, wCache, cut, count>>
      /\ UNCHANGED <<scene, network, responses, toProxy, read>>
  BY DEF ProcessData
<1>2. /\ IsCache(wCache) /\ InsideCache(wCache) /\ wCache.w <= MaxBytes
      /\ toWorker \in Seq(Seq(Bytes)) /\ cut \in Seq(Bytes) /\ count \in Nat
  BY DEF IInv, TypeOK, CachesInside, Bounded
<1>3. u \in Seq(Bytes) /\ Len(u) = wCache.w - wCache.r /\ Len(u) <= MaxBytes
  <2>1. wCache.w \in Nat /\ wCache.r \in Nat
    BY <1>2 DEF IsCache
  <2> QED
    BY <1>2, <2>1, ReadableType, ConstantTypes
<1>4. CASE ~(n > 0)
  <2>1. UNCHANGED <<toWorker, wCache, cut, count, read>> /\ pc' = "idle"
    BY <1>1, <1>4
  <2> HIDE DEF n, u, m
  <2>2. TypeOK'
    BY <1>1, <2>1 DEF IInv, TypeOK, IsTcp, network, responses
  <2>3. CachesInside' /\ MessagesFramed' /\ Bounded'
    BY <1>1, <2>1 DEF IInv, CachesInside, MessagesFramed, Bounded, responses
  <2> QED
    BY <2>1, <2>2, <2>3 DEF IInv
<1>5. CASE n > 0
  <2>1. /\ toWorker' \in {Append(toWorker, m), toWorker}
        /\ wCache' = AlignPositionBy(wCache, n)
        /\ cut' = cut \o m /\ count' = count + 1 /\ read' = read /\ pc' = pc
    BY <1>1, <1>5
  <2>2. n \in 1 .. Len(u) /\ (scene.plugin = "example" => Framed(m))
    <3>1. CASE scene.plugin = "example"
      <4>1. n = HasPackage(u)
        BY <3>1 DEF HandleInput
      <4> HIDE DEF u, n
      <4> QED
        BY <1>3, <1>5, <4>1, PackageRight
    <3>2. CASE scene.plugin # "example"
      <4>1. n = wCache.w - wCache.r /\ wCache.w \in Nat /\ wCache.r \in Nat
        BY <1>2, <3>2 DEF HandleInput, IsCache
      <4> HIDE DEF u, n
      <4> QED
        BY <1>3, <1>5, <3>2, <4>1
    <3> QED
      BY <3>1, <3>2
  <2> HIDE DEF n
  <2>3. /\ IsCache(wCache') /\ InsideCache(wCache')
        /\ Readable(wCache') = SubSeq(u, n + 1, Len(u))
        /\ wCache'.w <= MaxBytes
    <3>1. n \in 0 .. wCache.w - wCache.r /\ wCache.w \in Nat /\ wCache.r \in Nat
      BY <1>2, <1>3, <2>2 DEF IsCache
    <3>2. /\ IsCache(wCache') /\ InsideCache(wCache')
          /\ Readable(wCache') = SubSeq(Readable(wCache), n + 1, Len(Readable(wCache)))
          /\ wCache'.w = wCache.w - wCache.r - n
      BY <1>2, <2>1, <3>1, AlignRight
    <3>3. wCache'.w <= MaxBytes
      BY <1>2, <3>1, <3>2, ConstantTypes
    <3> QED
      BY <3>2, <3>3
  <2> HIDE DEF u
  <2>4. m \in Seq(Bytes) /\ Len(m) = n /\ Len(m) <= MaxBytes
    BY <1>3, <2>2, ConstantTypes
  <2> HIDE DEF m
  <2>5. /\ toWorker' \in Seq(Seq(Bytes))
        /\ \A i \in DOMAIN toWorker' :
             \/ i \in DOMAIN toWorker /\ toWorker'[i] = toWorker[i]
             \/ toWorker'[i] = m
    <3>1. CASE toWorker' = Append(toWorker, m)
      BY <1>2, <2>4, <3>1, AppendElements
    <3>2. CASE toWorker' = toWorker
      BY <1>2, <3>2
    <3> QED
      BY <2>1, <3>1, <3>2
  <2>6. cut' \in Seq(Bytes) /\ count' \in Nat
    BY <1>2, <2>1, <2>4
  <2>7. TypeOK'
    BY <1>1, <2>1, <2>3, <2>5, <2>6 DEF IInv, TypeOK, IsTcp, network, responses
  <2>8. CachesInside'
    BY <1>1, <2>3 DEF IInv, CachesInside, responses
  <2>9. MessagesFramed' /\ Bounded'
    BY <1>1, <2>2, <2>3, <2>4, <2>5 DEF IInv, MessagesFramed, Bounded
  <2>10. RequestStream!Take
    <3>1. n \in 0 .. Len(u)
      BY <1>3, <2>2
    <3> QED
      BY <2>1, <2>3, <3>1 DEF RequestStream!Take, u, m
  <2> QED
    BY <2>7, <2>8, <2>9, <2>10 DEF IInv
<1> QED
  BY <1>4, <1>5

(* The worker takes a request and adds an answer, which is a sequence of   *)
(* bytes.                                                                  *)
LEMMA WorkerStep ==
  ASSUME IInv, WorkerProcess
  PROVE  /\ IInv'
         /\ UNCHANGED <<read, Readable(wCache), cut>>
         /\ UNCHANGED <<answered, Readable(rCache), got>>
<1>1. /\ toWorker # <<>> /\ toWorker' = Tail(toWorker)
      /\ UNCHANGED <<scene, network, requests, responses, pc>>
      /\ \/ toProxy' = toProxy
         \/ /\ scene.plugin = "example"
            /\ toProxy' = Append(toProxy, Response(Head(toWorker)))
  BY DEF WorkerProcess
<1>2. /\ toWorker \in Seq(Seq(Bytes)) /\ toProxy \in Seq(Seq(Bytes))
      /\ \A i \in DOMAIN toWorker : Len(toWorker[i]) <= MaxBytes
      /\ scene.plugin = "example" => \A i \in DOMAIN toWorker : Framed(toWorker[i])
  BY DEF IInv, TypeOK, MessagesFramed, Bounded
<1>3. /\ Head(toWorker) \in Seq(Bytes) /\ Head(toWorker) = toWorker[1]
      /\ 1 \in DOMAIN toWorker
      /\ toWorker' \in Seq(Seq(Bytes))
      /\ \A i \in DOMAIN toWorker' :
           i + 1 \in DOMAIN toWorker /\ toWorker'[i] = toWorker[i + 1]
  BY <1>1, <1>2, TailElements
<1>4. toProxy' \in Seq(Seq(Bytes))
  <2>1. CASE toProxy' = toProxy
    BY <1>2, <2>1
  <2>2. CASE scene.plugin = "example" /\ toProxy' = Append(toProxy, Response(Head(toWorker)))
    <3>1. Response(Head(toWorker)) \in Seq(Bytes)
      BY <1>2, <1>3, <2>2, ResponseType
    <3> QED
      BY <1>2, <2>2, <3>1, AppendElements
  <2> QED
    BY <1>1, <2>1, <2>2
<1>5. TypeOK'
  BY <1>1, <1>3, <1>4 DEF IInv, TypeOK, IsTcp, network, requests, responses
<1>6. CachesInside'
  BY <1>1 DEF IInv, CachesInside, requests, responses
<1>7. MessagesFramed' /\ Bounded'
  BY <1>1, <1>2, <1>3 DEF IInv, MessagesFramed, Bounded, requests
<1>8. UNCHANGED <<read, wCache, cut, answered, rCache, got>>
  BY <1>1 DEF requests, responses
<1> QED
  BY <1>5, <1>6, <1>7, <1>8 DEF IInv

(* The notifier's response goes behind what is still to be written, or is  *)
(* dropped.                                                                *)
LEMMA NotifyStep ==
  ASSUME IInv, SentResponseCache
  PROVE  /\ IInv'
         /\ UNCHANGED <<read, Readable(wCache), cut>>
         /\ ResponseStream!Put \/ UNCHANGED <<answered, Readable(rCache), got>>
<1> DEFINE s == Head(toProxy)
<1>1. /\ toProxy # <<>> /\ toProxy' = Tail(toProxy)
      /\ UNCHANGED <<scene, network, requests, got, pc, toWorker>>
      /\ \/ UNCHANGED <<rCache, answered>>
         \/ rCache' = Write(rCache, s) /\ answered' = answered \o s
  BY DEF SentResponseCache
<1>2. /\ toProxy \in Seq(Seq(Bytes)) /\ answered \in Seq(Bytes)
      /\ IsCache(rCache) /\ InsideCache(rCache)
  BY DEF IInv, TypeOK, CachesInside
<1>3. s \in Seq(Bytes) /\ toProxy' \in Seq(Seq(Bytes))
  BY <1>1, <1>2, TailElements
<1> HIDE DEF s
<1>4. UNCHANGED <<read, wCache, cut>>
  BY <1>1 DEF requests
<1>5. MessagesFramed' /\ Bounded'
  BY <1>1 DEF IInv, MessagesFramed, Bounded, requests
<1>6. CASE UNCHANGED <<rCache, answered>>
  <2>1. TypeOK'
    BY <1>1, <1>3, <1>6 DEF IInv, TypeOK, IsTcp, network, requests
  <2>2. CachesInside'
    BY <1>4, <1>6 DEF IInv, CachesInside
  <2> QED
    BY <1>1, <1>4, <1>5, <1>6, <2>1, <2>2 DEF IInv
<1>7. CASE rCache' = Write(rCache, s) /\ answered' = answered \o s
  <2>1. /\ IsCache(rCache') /\ InsideCache(rCache')
        /\ Readable(rCache') = Readable(rCache) \o s
    BY <1>2, <1>3, <1>7, WriteRight
  <2>2. answered' \in Seq(Bytes)
    BY <1>2, <1>3, <1>7
  <2>3. TypeOK'
    BY <1>1, <1>3, <2>1, <2>2 DEF IInv, TypeOK, IsTcp, network, requests
  <2>4. CachesInside'
    BY <1>4, <2>1 DEF IInv, CachesInside
  <2>5. SubSeq(answered', Len(answered) + 1, Len(answered')) = s
    BY <1>2, <1>3, <1>7, RestOfConcat
  <2>6. ResponseStream!Put
    BY <1>1, <1>7, <2>1, <2>5 DEF ResponseStream!Put
  <2> QED
    BY <1>4, <1>5, <2>3, <2>4, <2>6 DEF IInv
<1> QED
  BY <1>1, <1>6, <1>7

(* What the socket takes comes from the front of the cache.                *)
LEMMA OutputStep ==
  ASSUME IInv, OutputNotify
  PROVE  /\ IInv'
         /\ UNCHANGED <<read, Readable(wCache), cut>>
         /\ ResponseStream!Take \/ UNCHANGED <<answered, Readable(rCache), got>>
<1> DEFINE u == Readable(rCache)
<1>0. CASE SendFails
  <2>1. /\ pc' \in {"closed", "dead"}
        /\ UNCHANGED <<scene, network, requests, responses, toWorker, toProxy>>
    BY <1>0 DEF OutputNotify, SendFails, responses
  <2>2. TypeOK'
    BY <2>1 DEF IInv, TypeOK, IsTcp, network, requests, responses
  <2>3. CachesInside' /\ MessagesFramed' /\ Bounded'
    BY <2>1 DEF IInv, CachesInside, MessagesFramed, Bounded, requests, responses
  <2> QED
    BY <2>1, <2>2, <2>3 DEF IInv, requests, responses
<1> SUFFICES ASSUME ~SendFails
             PROVE  /\ IInv'
                    /\ UNCHANGED <<read, Readable(wCache), cut>>
                    /\ ResponseStream!Take
  BY <1>0
<1>1. PICK n \in Taken(u) :
        /\ rCache' = IF n = Len(u)
                     THEN AlignPositionBy(rCache, n)
                     ELSE Cache(rCache.data, rCache.r + n, rCache.w, rCache.cap)
        /\ got' = got \o SubSeq(u, 1, n)
  BY DEF OutputNotify, SendData
<1>2. UNCHANGED <<scene, network, requests, answered, pc, toWorker, toProxy>>
  BY DEF OutputNotify
<1>3. IsCache(rCache) /\ InsideCache(rCache) /\ got \in Seq(Bytes)
  BY DEF IInv, TypeOK, CachesInside
<1>4. /\ u \in Seq(Bytes) /\ Len(u) = rCache.w - rCache.r
      /\ rCache.w \in Nat /\ rCache.r \in Nat
  BY <1>3, ReadableType DEF IsCache
<1>5. n \in 0 .. Len(u)
  <2> HIDE DEF u
  <2> QED
    BY <1>1, <1>4 DEF Taken
<1>6. n \in 0 .. rCache.w - rCache.r
  <2> HIDE DEF u
  <2> QED
    BY <1>4, <1>5
<1>7. /\ IsCache(rCache') /\ InsideCache(rCache')
      /\ Readable(rCache') = SubSeq(u, n + 1, Len(u))
  <2>1. CASE n = Len(u)
    BY <1>1, <1>3, <1>6, <2>1, AlignRight
  <2>2. CASE n # Len(u)
    BY <1>1, <1>3, <1>6, <2>2, SkipRight
  <2> QED
    BY <2>1, <2>2
<1>8. got' \in Seq(Bytes)
  <2>1. SubSeq(u, 1, n) \in Seq(Bytes)
    <3> HIDE DEF u
    <3> QED
      BY <1>4, <1>5
  <2> QED
    BY <1>1, <1>3, <2>1
<1>9. UNCHANGED <<read, wCache, cut>>
  BY <1>2 DEF requests
<1>10. TypeOK'
  BY <1>2, <1>7, <1>8 DEF IInv, TypeOK, IsTcp, network, requests
<1>11. CachesInside' /\ MessagesFramed' /\ Bounded'
  BY <1>2, <1>7 DEF IInv, CachesInside, MessagesFramed, Bounded, requests
<1>12. ResponseStream!Take
  <2> HIDE DEF u
  <2>1. got' = got \o SubSeq(u, 1, n) /\ answered' = answered
    BY <1>1, <1>2 DEF u
  <2> QED
    BY <1>5, <1>7, <2>1 DEF ResponseStream!Take, u
<1> QED
  BY <1>9, <1>10, <1>11, <1>12 DEF IInv

(* The end of the loop, and what the network does, move no byte.           *)
LEMMA QuietSteps ==
  ASSUME SendBytes \/ SendDatagram \/ CloseClient \/ Abort \/ Reset \/ RecvEnd
  PROVE  /\ UNCHANGED <<read, Readable(wCache), cut>>
         /\ UNCHANGED <<answered, Readable(rCache), got>>
<1>1. UNCHANGED <<requests, responses>>
  BY DEF SendBytes, SendDatagram, CloseClient, Abort, Reset, RecvEnd
<1> QED
  BY <1>1 DEF requests, responses

(* An event's input leaves the responses alone.                            *)
LEMMA InputSteps ==
  ASSUME RecvData \/ ProcessData
  PROVE  UNCHANGED <<answered, Readable(rCache), got>>
<1>1. UNCHANGED responses
  BY DEF RecvData, ProcessData
<1> QED
  BY <1>1 DEF responses

(* Every step keeps the invariant, and is a step of both streams or none.  *)
LEMMA StepRight ==
  ASSUME IInv, [Next]_vars
  PROVE  /\ IInv'
         /\ RequestStream!Next \/ UNCHANGED <<read, Readable(wCache), cut>>
         /\ ResponseStream!Next \/ UNCHANGED <<answered, Readable(rCache), got>>
<1>1. CASE SendBytes \/ SendDatagram \/ CloseClient \/ Abort \/ Reset
  BY <1>1, NetworkStep, QuietSteps
<1>2. CASE RecvData
  BY <1>2, RecvStep, InputSteps DEF RequestStream!Next
<1>3. CASE RecvEnd
  BY <1>3, RecvEndStep, QuietSteps
<1>4. CASE ProcessData
  BY <1>4, ProcessStep, InputSteps DEF RequestStream!Next
<1>5. CASE WorkerProcess
  BY <1>5, WorkerStep
<1>6. CASE SentResponseCache
  BY <1>6, NotifyStep DEF ResponseStream!Next
<1>7. CASE OutputNotify
  BY <1>7, OutputStep DEF ResponseStream!Next
<1>8. CASE UNCHANGED vars
  <2>1. UNCHANGED <<scene, unsent, arrived, fin, reset, wCache, rCache, pc,
                    toWorker, toProxy, count, read, cut, answered, got>>
    BY <1>8 DEF vars
  <2>2. TypeOK'
    BY <2>1 DEF IInv, TypeOK, IsTcp
  <2>3. CachesInside' /\ MessagesFramed' /\ Bounded'
    BY <2>1 DEF IInv, CachesInside, MessagesFramed, Bounded
  <2> QED
    BY <2>1, <2>2, <2>3 DEF IInv
<1> QED
  BY <1>1, <1>2, <1>3, <1>4, <1>5, <1>6, <1>7, <1>8 DEF Next

(* The four invariants hold in every reachable state.                      *)
LEMMA InvAlways == Spec => []IInv
<1>1. IInv /\ [Next]_vars => IInv'
  BY StepRight
<1> QED
  BY <1>1, InitInv, PTL DEF Spec

(* Every variable of the connection keeps its type.                        *)
THEOREM TypeCorrect == Spec => []TypeOK
<1>1. IInv => TypeOK
  BY DEF IInv
<1> QED
  BY <1>1, InvAlways, PTL

(* The positions stay inside the two caches, which are no larger than      *)
(* needed, whatever is read and written in whatever pieces.                *)
THEOREM CachesRight == Spec => []CachesInside
<1>1. IInv => CachesInside
  BY DEF IInv
<1> QED
  BY <1>1, InvAlways, PTL

(* Every message of the example plug-in in the request ring is whole: its  *)
(* header says its length, whatever length the client declared.            *)
THEOREM FramedRight == Spec => []MessagesFramed
<1>1. IInv => MessagesFramed
  BY DEF IInv
<1> QED
  BY <1>1, InvAlways, PTL

(* The receive cache implements the byte stream: what was read is cut into *)
(* messages once, unchanged and in order.                                  *)
THEOREM RequestsImplement == Spec => RequestStreamSpec
<1>1. Init => RequestStream!Init
  BY NewCacheRight DEF Init, RequestStream!Init
<1>2. IInv /\ [Next]_vars =>
        [RequestStream!Next]_<<read, Readable(wCache), cut>>
  BY StepRight
<1> QED
  BY <1>1, <1>2, InvAlways, PTL DEF Spec, RequestStreamSpec, RequestStream!Spec

(* The send cache implements the byte stream: what the workers answered is *)
(* written once, unchanged and in order, in whatever pieces.               *)
THEOREM ResponsesImplement == Spec => ResponseStreamSpec
<1>1. Init => ResponseStream!Init
  BY NewCacheRight DEF Init, ResponseStream!Init
<1>2. IInv /\ [Next]_vars =>
        [ResponseStream!Next]_<<answered, Readable(rCache), got>>
  BY StepRight
<1> QED
  BY <1>1, <1>2, InvAlways, PTL DEF Spec, ResponseStreamSpec, ResponseStream!Spec

-----------------------------------------------------------------------------
(* What the clients sent, as one stream.                                   *)

(* What the proxy reads of an item: a datagram's bytes that do not fit are *)
(* lost.                                                                   *)
Piece(s, i) ==
  LET b == s.items[i]
  IN  IF s.link = "tcp" \/ Len(b) < ReadSize THEN b ELSE SubSeq(b, 1, ReadSize)
Stream(s, n) == FlattenSeq([i \in 1 .. n |-> Piece(s, i)])

LEMMA PieceType ==
  ASSUME NEW s \in Scenarios, NEW i \in 1 .. Len(s.items)
  PROVE  /\ s.items[i] \in Seq(Bytes) /\ Piece(s, i) \in Seq(Bytes)
         /\ Len(Piece(s, i)) <= Len(s.items[i])
         /\ s.link = "tcp" \/ Len(s.items[i]) <= ReadSize => Piece(s, i) = s.items[i]
         /\ \A j \in 1 .. Len(Piece(s, i)) : Piece(s, i)[j] = s.items[i][j]
         /\ Len(s.items[i]) >= HeaderLen => Len(Piece(s, i)) >= HeaderLen
<1> DEFINE b == s.items[i]
           p == Piece(s, i)
<1>1. /\ b \in Seq(Bytes) /\ ReadSize \in Nat \ {0} /\ HeaderLen \in Nat
      /\ HeaderLen <= ReadSize
  BY ConnectionAssumption
<1>2. p = IF s.link = "tcp" \/ Len(b) < ReadSize THEN b ELSE SubSeq(b, 1, ReadSize)
  BY DEF Piece
<1> HIDE DEF b, p
<1>3. CASE p = b
  BY <1>1, <1>3 DEF b, p
<1>4. CASE p # b
  <2>1. s.link # "tcp" /\ Len(b) >= ReadSize /\ p = SubSeq(b, 1, ReadSize)
    BY <1>1, <1>2, <1>4
  <2>2. ReadSize # Len(b)
    BY <1>1, <1>4, <2>1, SubSeqFull
  <2>3. /\ p \in Seq(Bytes) /\ Len(p) = ReadSize
        /\ \A j \in 1 .. ReadSize : p[j] = b[j]
    BY <1>1, <2>1
  <2>4. Len(b) \in Nat
    BY <1>1
  <2> QED
    BY <1>1, <2>1, <2>2, <2>3, <2>4 DEF b, p
<1> QED
  BY <1>3, <1>4

(* The stream grows by a piece.                                            *)
LEMMA StreamGrows ==
  ASSUME NEW s \in Scenarios, NEW n \in 1 .. Len(s.items)
  PROVE  Stream(s, n) = Stream(s, n - 1) \o Piece(s, n)
<1> DEFINE P == [i \in 1 .. n - 1 |-> Piece(s, i)]
           Q == [i \in 1 .. n |-> Piece(s, i)]
           e == Piece(s, n)
           S == Seq(Bytes)
<1>1. \A i \in 1 .. Len(s.items) : Piece(s, i) \in S
  BY PieceType
<1>2. n - 1 \in Nat /\ n \in Nat /\ Len(s.items) \in Nat /\ 1 .. n \subseteq 1 .. Len(s.items)
  <2>1. s.items \in Seq(Seq(Bytes))
    BY ConnectionAssumption
  <2>2. Len(s.items) \in Nat
    BY <2>1
  <2> QED
    BY <2>2
<1> HIDE DEF S
<1>3. e \in S /\ P \in Seq(S) /\ Len(P) = n - 1
  BY <1>1, <1>2
<1>4. Q \in Seq(S) /\ Len(Q) = n
  BY <1>1, <1>2
<1>5. \A i \in 1 .. n : Q[i] = Piece(s, i)
  OBVIOUS
<1>6. \A i \in 1 .. n - 1 : P[i] = Piece(s, i)
  OBVIOUS
<1>7. Q = Append(P, e)
  <2> HIDE DEF P, Q
  <2> DEFINE A == Append(P, e)
  <2>1. /\ A \in Seq(S) /\ Len(A) = n /\ A[n] = e
        /\ \A i \in 1 .. n - 1 : A[i] = P[i]
    BY <1>2, <1>3, AppendProperties
  <2> HIDE DEF A
  <2>2. \A i \in 1 .. n : Q[i] = A[i]
    BY <1>2, <1>5, <1>6, <2>1
  <2> QED
    BY <1>4, <2>1, <2>2, SeqEqual DEF A
<1>8. P \in Seq(Seq(Bytes)) /\ e \in Seq(Bytes)
  BY <1>3 DEF S
<1> HIDE DEF P, Q, e
<1>9. FlattenSeq(Append(P, e)) = FlattenSeq(P) \o e
  BY <1>8, FlattenAppend
<1> QED
  BY <1>7, <1>9 DEF P, Q, e, Stream

LEMMA StreamType ==
  ASSUME NEW s \in Scenarios
  PROVE  /\ Len(s.items) \in Nat
         /\ Stream(s, 0) = <<>>
         /\ \A n \in 0 .. Len(s.items) : Stream(s, n) \in Seq(Bytes)
<1> DEFINE N == Len(s.items)
           S == {n \in Nat : n \in 0 .. N => Stream(s, n) \in Seq(Bytes)}
<1>1. N \in Nat
  <2>1. s.items \in Seq(Seq(Bytes))
    BY ConnectionAssumption
  <2> QED
    BY <2>1
<1>2. Stream(s, 0) = <<>>
  <2> DEFINE E == [i \in 1 .. 0 |-> Piece(s, i)]
  <2>1. E = <<>>
    OBVIOUS
  <2>2. FlattenSeq(<<>>) = <<>>
    BY DEF FlattenSeq
  <2> HIDE DEF E
  <2> QED
    BY <2>1, <2>2 DEF Stream, E
<1>3. 0 \in S
  <2>1. Stream(s, 0) \in Seq(Bytes)
    <3>1. <<>> \in Seq(Bytes)
      OBVIOUS
    <3> QED
      BY <1>2, <3>1, Zenon
  <2> QED
    BY <2>1
<1>4. ASSUME NEW n \in S PROVE n + 1 \in S
  <2>1. n \in Nat /\ (n \in 0 .. N => Stream(s, n) \in Seq(Bytes))
    OBVIOUS
  <2> SUFFICES ASSUME n + 1 \in 0 .. N PROVE Stream(s, n + 1) \in Seq(Bytes)
    BY <2>1
  <2>2. n + 1 \in 1 .. N /\ n \in 0 .. N /\ (n + 1) - 1 = n
    BY <1>1, <2>1
  <2>3. Stream(s, n + 1) = Stream(s, n) \o Piece(s, n + 1)
    BY <2>2, StreamGrows
  <2>4. Piece(s, n + 1) \in Seq(Bytes)
    BY <2>2, PieceType
  <2> QED
    BY <2>1, <2>2, <2>3, <2>4, ConcatProperties
<1>5. S = Nat
  <2>1. S \in SUBSET Nat
    OBVIOUS
  <2> HIDE DEF S
  <2> QED
    BY <1>3, <1>4, <2>1, Induction
<1> QED
  BY <1>1, <1>2, <1>5

LEMMA StreamLengths ==
  ASSUME NEW s \in Scenarios, NEW k \in 0 .. Len(s.items),
         NEW m \in k .. Len(s.items)
  PROVE  Len(Stream(s, k)) <= Len(Stream(s, m))
<1> DEFINE N == Len(s.items)
           L(i) == Len(Stream(s, i))
           S == {i \in Nat : i \in k .. N => L(k) <= L(i)}
<1>1. N \in Nat /\ \A i \in 0 .. N : L(i) \in Nat
  BY StreamType, LenProperties
<1>2. \A i \in 1 .. N : L(i - 1) <= L(i)
  <2> SUFFICES ASSUME NEW i \in 1 .. N PROVE L(i - 1) <= L(i)
    OBVIOUS
  <2> DEFINE a == Stream(s, i - 1)
             b == Piece(s, i)
  <2>1. i - 1 \in 0 .. N
    BY <1>1
  <2>2. a \in Seq(Bytes) /\ b \in Seq(Bytes)
    BY <2>1, StreamType, PieceType
  <2>3. Stream(s, i) = a \o b
    BY StreamGrows
  <2> HIDE DEF a, b
  <2>4. Len(a \o b) = Len(a) + Len(b) /\ Len(a) \in Nat /\ Len(b) \in Nat
    BY <2>2
  <2> QED
    BY <2>3, <2>4 DEF a
<1> HIDE DEF L, N
<1>3. 0 \in S
  BY <1>1 DEF N
<1>4. ASSUME NEW i \in S PROVE i + 1 \in S
  <2>1. i \in Nat /\ (i \in k .. N => L(k) <= L(i))
    OBVIOUS
  <2> SUFFICES ASSUME i + 1 \in k .. N PROVE L(k) <= L(i + 1)
    BY <2>1
  <2>2. k \in Nat /\ k <= N /\ L(k) \in Nat
    BY <1>1 DEF N
  <2>3. CASE i + 1 = k
    BY <2>2, <2>3
  <2>4. CASE i + 1 # k
    <3>1. i + 1 \in 1 .. N /\ (i + 1) - 1 = i /\ i \in k .. N /\ i \in 0 .. N
      BY <1>1, <2>1, <2>2, <2>4
    <3>2. L(i) <= L(i + 1)
      BY <1>2, <3>1
    <3>3. L(i) \in Nat /\ L(i + 1) \in Nat
      BY <1>1, <3>1
    <3> QED
      BY <2>1, <2>2, <3>1, <3>2, <3>3
  <2> QED
    BY <2>3, <2>4
<1>5. S = Nat
  <2>1. S \in SUBSET Nat
    OBVIOUS
  <2> HIDE DEF S
  <2> QED
    BY <1>3, <1>4, <2>1, Induction
<1>6. m \in k .. N /\ m \in Nat
  BY <1>1 DEF N
<1> QED
  BY <1>5, <1>6 DEF L

(* The n-th piece is where the pieces before it end.                       *)
LEMMA StreamElements ==
  ASSUME NEW s \in Scenarios, NEW n \in 1 .. Len(s.items),
         NEW k \in n .. Len(s.items)
  PROVE  \A j \in 1 .. Len(Piece(s, n)) :
           /\ Len(Stream(s, n - 1)) + j <= Len(Stream(s, k))
           /\ Stream(s, k)[Len(Stream(s, n - 1)) + j] = Piece(s, n)[j]
<1> DEFINE N == Len(s.items)
           a == Stream(s, n - 1)
           p == Piece(s, n)
           There(x) == \A j \in 1 .. Len(p) :
                         Len(a) + j <= Len(x) /\ x[Len(a) + j] = p[j]
           S == {i \in Nat : i \in n .. N => There(Stream(s, i))}
<1>1. /\ N \in Nat /\ n \in Nat /\ n - 1 \in 0 .. N /\ n >= 1
      /\ \A i \in 0 .. N : Stream(s, i) \in Seq(Bytes)
      /\ \A i \in 1 .. N : Piece(s, i) \in Seq(Bytes)
  BY StreamType, PieceType
<1>2. a \in Seq(Bytes) /\ p \in Seq(Bytes) /\ Len(a) \in Nat /\ Len(p) \in Nat
  <2>1. a \in Seq(Bytes) /\ p \in Seq(Bytes)
    BY <1>1
  <2> QED
    BY <2>1
<1>3. Stream(s, n) = a \o p
  BY StreamGrows
<1> HIDE DEF N, a, p
<1>4. There(Stream(s, n))
  <2>1. /\ Len(a \o p) = Len(a) + Len(p)
        /\ \A j \in 1 .. Len(p) : (a \o p)[Len(a) + j] = p[j]
    <3>1. Len(a \o p) = Len(a) + Len(p)
      BY <1>2
    <3>2. ASSUME NEW j \in 1 .. Len(p) PROVE (a \o p)[Len(a) + j] = p[j]
      <4> DEFINE i == Len(a) + j
      <4>1. i \in 1 .. Len(a) + Len(p) /\ ~(i <= Len(a)) /\ i - Len(a) = j
        BY <1>2
      <4> HIDE DEF i
      <4>2. (a \o p)[i] = p[i - Len(a)]
        BY <1>2, <4>1
      <4> QED
        BY <4>1, <4>2 DEF i
    <3> QED
      BY <3>1, <3>2
  <2> QED
    BY <1>2, <1>3, <2>1
<1>5. ASSUME NEW x \in Seq(Bytes), NEW y \in Seq(Bytes), There(x)
      PROVE  There(x \o y)
  <2> SUFFICES ASSUME NEW j \in 1 .. Len(p)
               PROVE  /\ Len(a) + j <= Len(x \o y)
                      /\ (x \o y)[Len(a) + j] = p[j]
    OBVIOUS
  <2> DEFINE i == Len(a) + j
  <2>1. i \in 1 .. Len(x) /\ x[i] = p[j]
    BY <1>2, <1>5
  <2> HIDE DEF i
  <2>2. i <= Len(x \o y) /\ (x \o y)[i] = x[i]
    BY <2>1
  <2> QED
    BY <2>1, <2>2 DEF i
<1> HIDE DEF There
<1>6. 0 \in S
  BY <1>1
<1>7. ASSUME NEW i \in S PROVE i + 1 \in S
  <2>1. i \in Nat /\ (i \in n .. N => There(Stream(s, i)))
    OBVIOUS
  <2> SUFFICES ASSUME i + 1 \in n .. N PROVE There(Stream(s, i + 1))
    BY <2>1
  <2>2. CASE i + 1 = n
    BY <1>4, <2>2
  <2>3. CASE i + 1 # n
    <3>1. /\ i + 1 \in 1 .. N /\ (i + 1) - 1 = i
          /\ i \in n .. N /\ i \in 0 .. N
      BY <1>1, <2>1, <2>3
    <3>2. Stream(s, i + 1) = Stream(s, i) \o Piece(s, i + 1)
      BY <3>1, StreamGrows DEF N
    <3> QED
      BY <1>1, <1>5, <2>1, <3>1, <3>2
  <2> QED
    BY <2>2, <2>3
<1>8. S = Nat
  <2>1. S \in SUBSET Nat
    OBVIOUS
  <2> HIDE DEF S
  <2> QED
    BY <1>6, <1>7, <2>1, Induction
<1>9. k \in n .. N /\ k \in Nat
  BY <1>1 DEF N
<1>10. There(Stream(s, k))
  BY <1>8, <1>9
<1> QED
  BY <1>10 DEF There, a, p

(* What has been read of the n-th piece is what the client sent.           *)
LEMMA ReadAgrees ==
  ASSUME NEW s \in Scenarios, NEW k \in 0 .. Len(s.items),
         NEW x \in Seq(Bytes), NEW z \in Seq(Bytes), x \o z = Stream(s, k),
         NEW n \in 1 .. Len(s.items), NEW j \in 1 .. Len(Piece(s, n)),
         Len(Stream(s, n - 1)) + j <= Len(x)
  PROVE  x[Len(Stream(s, n - 1)) + j] = Piece(s, n)[j]
<1> DEFINE N == Len(s.items)
           a == Stream(s, n - 1)
           y == x \o z
<1>1. /\ N \in Nat /\ n - 1 \in 0 .. N
      /\ \A i \in 0 .. N : Stream(s, i) \in Seq(Bytes)
  <2>1. N \in Nat
    BY StreamType
  <2>2. n - 1 \in 0 .. N
    BY <2>1
  <2> QED
    BY <2>1, <2>2, StreamType
<1>2. Len(a) \in Nat /\ Len(x) \in Nat /\ Len(z) \in Nat /\ Len(y) = Len(x) + Len(z)
  <2>1. a \in Seq(Bytes)
    BY <1>1
  <2> HIDE DEF a
  <2>2. Len(a) \in Nat /\ Len(x) \in Nat /\ Len(z) \in Nat
    BY <2>1
  <2> QED
    BY <2>2, ConcatProperties
<1>3. j \in Nat /\ j >= 1
  <2>1. Piece(s, n) \in Seq(Bytes)
    BY PieceType
  <2> QED
    BY <2>1
<1>4. Len(a) + j \in 1 .. Len(x)
  <2> HIDE DEF a
  <2> QED
    BY <1>2, <1>3 DEF a
<1>5. y[Len(a) + j] = x[Len(a) + j]
  <2> HIDE DEF a
  <2> QED
    BY <1>4
<1>6. k >= n
  <2> SUFFICES ASSUME ~(k >= n) PROVE FALSE
    OBVIOUS
  <2>1. n - 1 \in k .. N
    BY <1>1
  <2>2. Len(y) <= Len(a)
    BY <2>1, StreamLengths
  <2> HIDE DEF a, y
  <2> QED
    BY <1>2, <1>4, <2>2
<1>7. k \in n .. N
  BY <1>1, <1>6
<1>8. y[Len(a) + j] = Piece(s, n)[j]
  BY <1>7, StreamElements
<1> QED
  BY <1>5, <1>8

-----------------------------------------------------------------------------
(* Where the stream is: read, in the socket, or not sent yet.              *)
First(q) == IF q = <<>> THEN <<>> ELSE q[1]

(* u: the items unsent; a: the bytes in the socket; x: the bytes read.     *)
TcpAt(s, u, a, x) ==
  /\ Len(u) <= Len(s.items)
  /\ \A i \in DOMAIN u : i > 1 => u[i] = s.items[Len(s.items) - Len(u) + i]
  /\ (x \o a) \o First(u) = Stream(s, Len(s.items) - Len(u) + IF u = <<>> THEN 0 ELSE 1)

(* q: the datagrams in the socket.                                         *)
UdpAt(s, u, q, x) ==
  /\ Len(u) + Len(q) <= Len(s.items)
  /\ \A i \in DOMAIN u : u[i] = s.items[Len(s.items) - Len(u) + i]
  /\ \A i \in DOMAIN q : q[i] = s.items[Len(s.items) - Len(u) - Len(q) + i]
  /\ x = Stream(s, Len(s.items) - Len(u) - Len(q))

LEMMA FirstType ==
  ASSUME NEW u \in Seq(Seq(Bytes)) PROVE First(u) \in Seq(Bytes)
<1>1. CASE u = <<>>
  BY <1>1 DEF First
<1>2. CASE u # <<>>
  <2>1. 1 \in 1 .. Len(u)
    BY <1>2
  <2> QED
    BY <1>2, <2>1 DEF First
<1> QED
  BY <1>1, <1>2

LEMMA Joined ==
  ASSUME NEW x \in Seq(Bytes), NEW y \in Seq(Bytes)
  PROVE  /\ x \o y \in Seq(Bytes) /\ Len(x \o y) = Len(x) + Len(y)
         /\ Len(x) \in Nat /\ Len(y) \in Nat
         /\ \A i \in 1 .. Len(x) + Len(y) :
              (x \o y)[i] = IF i <= Len(x) THEN x[i] ELSE y[i - Len(x)]
BY ConcatProperties

LEMMA Regroup ==
  ASSUME NEW x \in Seq(Bytes), NEW y \in Seq(Bytes), NEW z \in Seq(Bytes)
  PROVE  (x \o y) \o z = x \o (y \o z)
<1> DEFINE b == Len(x)
           c == Len(y)
           d == Len(z)
           xy == x \o y
           yz == y \o z
           l == xy \o z
           r == x \o yz
<1>1. /\ b \in Nat /\ c \in Nat /\ d \in Nat
      /\ xy \in Seq(Bytes) /\ Len(xy) = b + c
      /\ yz \in Seq(Bytes) /\ Len(yz) = c + d
  OBVIOUS
<1>2. /\ \A i \in 1 .. b + c : xy[i] = IF i <= b THEN x[i] ELSE y[i - b]
      /\ \A i \in 1 .. c + d : yz[i] = IF i <= c THEN y[i] ELSE z[i - c]
  BY ConcatProperties
<1> HIDE DEF xy, yz
<1>3. /\ l \in Seq(Bytes) /\ Len(l) = (b + c) + d
      /\ \A i \in 1 .. (b + c) + d : l[i] = IF i <= b + c THEN xy[i] ELSE z[i - (b + c)]
  <2>1. /\ l \in Seq(Bytes) /\ Len(l) = Len(xy) + Len(z)
        /\ \A i \in 1 .. Len(xy) + Len(z) :
             l[i] = IF i <= Len(xy) THEN xy[i] ELSE z[i - Len(xy)]
    BY <1>1, Joined
  <2> HIDE DEF l
  <2> QED
    BY <1>1, <2>1
<1>4. /\ r \in Seq(Bytes) /\ Len(r) = b + (c + d)
      /\ \A i \in 1 .. b + (c + d) : r[i] = IF i <= b THEN x[i] ELSE yz[i - b]
  <2>1. /\ r \in Seq(Bytes) /\ Len(r) = Len(x) + Len(yz)
        /\ \A i \in 1 .. Len(x) + Len(yz) :
             r[i] = IF i <= Len(x) THEN x[i] ELSE yz[i - Len(x)]
    BY <1>1, Joined
  <2> HIDE DEF r
  <2> QED
    BY <1>1, <2>1
<1> HIDE DEF b, c, d, l, r
<1>5. ASSUME NEW i \in 1 .. (b + c) + d PROVE l[i] = r[i]
  <2>0. i \in 1 .. b + (c + d) /\ i \in Nat
    BY <1>1
  <2>1. CASE i <= b
    <3>1. l[i] = xy[i] /\ xy[i] = x[i]
      BY <1>1, <1>2, <1>3, <2>1, SMTT(20)
    <3>2. r[i] = x[i]
      BY <1>4, <2>0, <2>1
    <3> QED
      BY <3>1, <3>2
  <2>2. CASE i > b /\ i <= b + c
    <3>1. l[i] = y[i - b] /\ i - b \in 1 .. c + d /\ i - b <= c
      BY <1>1, <1>2, <1>3, <2>2
    <3>2. r[i] = yz[i - b]
      <4>1. ~(i <= b)
        BY <1>1, <2>0, <2>2
      <4> QED
        BY <1>4, <2>0, <4>1
    <3> QED
      BY <1>2, <3>1, <3>2
  <2>3. CASE i > b + c
    <3>1. /\ l[i] = z[i - (b + c)] /\ i - b \in 1 .. c + d /\ ~(i - b <= c)
          /\ (i - b) - c = i - (b + c)
      BY <1>1, <1>3, <2>3
    <3>2. ~(i <= b)
      BY <1>1, <2>3
    <3>3. r[i] = yz[i - b]
      BY <1>4, <2>0, <3>2
    <3> QED
      BY <1>2, <3>1, <3>3
  <2> QED
    BY <1>1, <2>1, <2>2, <2>3
<1>6. Len(l) = Len(r)
  <2>1. (b + c) + d = b + (c + d)
    BY <1>1
  <2> QED
    BY <1>3, <1>4, <2>1
<1>7. l = r
  BY <1>3, <1>4, <1>5, <1>6, SeqEqual
<1> QED
  BY <1>7 DEF l, r, xy, yz

(* What is sent of the first item moves from the client to the socket.     *)
LEMMA TcpSent ==
  ASSUME NEW s \in Scenarios, s.link = "tcp",
         NEW u \in Seq(Seq(Bytes)), u # <<>>,
         NEW a \in Seq(Bytes), NEW x \in Seq(Bytes),
         NEW p \in Seq(Bytes), NEW r \in Seq(Bytes), Head(u) = p \o r,
         TcpAt(s, u, a, x)
  PROVE  TcpAt(s, IF r = <<>> THEN Tail(u) ELSE <<r>> \o Tail(u), a \o p, x)
<1> DEFINE N == Len(s.items)
           t == Tail(u)
           k == N - Len(u)
<1>1. /\ Len(u) \in Nat \ {0} /\ t \in Seq(Seq(Bytes)) /\ Len(t) = Len(u) - 1
      /\ \A i \in 1 .. Len(t) : t[i] = u[i + 1]
      /\ DOMAIN u = 1 .. Len(u) /\ DOMAIN t = 1 .. Len(t)
      /\ Head(u) = u[1]
  <2>1. Len(u) \in Nat \ {0} /\ Head(u) = u[1] /\ DOMAIN u = 1 .. Len(u)
    OBVIOUS
  <2>2. /\ t \in Seq(Seq(Bytes)) /\ Len(t) = Len(u) - 1
        /\ \A i \in 1 .. Len(t) : t[i] = u[i + 1]
    BY HeadTailProperties
  <2> HIDE DEF t
  <2>3. DOMAIN t = 1 .. Len(t)
    BY <2>2
  <2> QED
    BY <2>1, <2>2, <2>3
<1>2. N \in Nat
  BY StreamType
<1>3. /\ Len(u) <= N
      /\ \A i \in DOMAIN u : i > 1 => u[i] = s.items[k + i]
      /\ (x \o a) \o u[1] = Stream(s, k + 1)
  BY DEF TcpAt, First
<1>4. k \in Nat /\ k + 1 \in 1 .. N
  BY <1>1, <1>2, <1>3
<1> HIDE DEF t
<1>5. (x \o (a \o p)) \o r = Stream(s, k + 1)
  <2>1. a \o p \in Seq(Bytes) /\ x \o a \in Seq(Bytes)
    OBVIOUS
  <2>2. x \o (a \o p) = (x \o a) \o p
    BY Regroup
  <2>3. ((x \o a) \o p) \o r = (x \o a) \o (p \o r)
    <3> DEFINE y == x \o a
    <3>1. y \in Seq(Bytes)
      BY <2>1
    <3> HIDE DEF y
    <3>2. (y \o p) \o r = y \o (p \o r)
      BY <3>1, Regroup
    <3> QED
      BY <3>2 DEF y
  <2> QED
    BY <1>1, <1>3, <2>2, <2>3
<1>6. CASE r # <<>>
  <2> DEFINE v == <<r>> \o t
             T == Seq(Bytes)
  <2>1. <<r>> \in Seq(T) /\ Len(<<r>>) = 1 /\ <<r>>[1] = r /\ t \in Seq(T)
    BY <1>1
  <2> HIDE DEF T
  <2>2. /\ v \in Seq(T) /\ Len(v) = 1 + Len(t)
        /\ \A i \in 1 .. 1 + Len(t) :
             v[i] = IF i <= 1 THEN <<r>>[i] ELSE t[i - 1]
    BY <2>1, ConcatProperties
  <2> HIDE DEF v
  <2>3. Len(v) = Len(u) /\ v # <<>> /\ v[1] = r /\ DOMAIN v = 1 .. Len(u)
    <3>1. Len(v) = Len(u) /\ DOMAIN v = 1 .. Len(u)
      BY <1>1, <2>2
    <3>2. v # <<>>
      BY <1>1, <3>1
    <3>3. v[1] = r
      BY <1>1, <2>1, <2>2
    <3> QED
      BY <3>1, <3>2, <3>3
  <2>4. ASSUME NEW i \in 1 .. Len(u), i > 1 PROVE v[i] = s.items[k + i]
    <3>1. v[i] = t[i - 1] /\ i - 1 \in 1 .. Len(t) /\ (i - 1) + 1 = i
      BY <1>1, <2>2, <2>4
    <3>2. v[i] = u[i]
      BY <1>1, <3>1
    <3> QED
      BY <1>1, <1>3, <2>4, <3>2
  <2>5. TcpAt(s, v, a \o p, x)
    BY <1>3, <1>5, <2>3, <2>4 DEF TcpAt, First
  <2> QED
    BY <1>6, <2>5 DEF v, t
<1>7. CASE r = <<>>
  <2>1. x \o (a \o p) = Stream(s, k + 1)
    <3>1. a \o p \in Seq(Bytes)
      OBVIOUS
    <3>2. x \o (a \o p) \in Seq(Bytes)
      BY <3>1
    <3> QED
      BY <1>5, <1>7, <3>2, ConcatEmptySeq
  <2>2. N - Len(t) = k + 1 /\ Len(t) <= N /\ Len(t) \in Nat
    BY <1>1, <1>2, <1>3, SMTT(20)
  <2>3. ASSUME NEW i \in 1 .. Len(t) PROVE t[i] = s.items[N - Len(t) + i]
    <3>0. i \in 1 .. Len(t) /\ i \in Nat /\ i >= 1 /\ i <= Len(t)
      BY <2>2
    <3> HIDE DEF N, k
    <3>1. i + 1 \in 1 .. Len(u) /\ i + 1 > 1
      <4>1. /\ Len(u) \in Nat /\ Len(t) = Len(u) - 1
        BY <1>1
      <4> QED
        BY <3>0, <4>1
    <3>2. k + (i + 1) = N - Len(t) + i
      BY <1>4, <2>2, <3>0
    <3>3. i + 1 \in DOMAIN u /\ t[i] = u[i + 1]
      BY <1>1, <3>0, <3>1
    <3> QED
      BY <1>3, <3>1, <3>2, <3>3
  <2>4. (x \o (a \o p)) \o First(t)
          = Stream(s, N - Len(t) + IF t = <<>> THEN 0 ELSE 1)
    <3> DEFINE y == x \o (a \o p)
    <3>1. y \in Seq(Bytes)
      <4>1. a \o p \in Seq(Bytes)
        OBVIOUS
      <4> QED
        BY <4>1
    <3> HIDE DEF y
    <3>2. CASE t = <<>>
      <4>1. y \o <<>> = y
        BY <3>1, ConcatEmptySeq
      <4>2. N - Len(t) + 0 = k + 1
        BY <1>4, <2>2
      <4> QED
        BY <2>1, <3>2, <4>1, <4>2 DEF First, y
    <3>3. CASE t # <<>>
      <4>1. 1 \in 1 .. Len(t) /\ Len(t) >= 1
        BY <1>1, <3>3
      <4>2. /\ t[1] = s.items[k + 2] /\ k + 2 \in 1 .. N
            /\ (k + 2) - 1 = k + 1 /\ N - Len(t) + 1 = k + 2
        <5>1. t[1] = s.items[N - Len(t) + 1]
          BY <2>3, <4>1
        <5> HIDE DEF N, k
        <5>2. /\ N - Len(t) + 1 = k + 2 /\ k + 2 \in 1 .. N
              /\ (k + 2) - 1 = k + 1
          BY <1>2, <1>4, <2>2, <4>1
        <5> QED
          BY <5>1, <5>2
      <4>3. Stream(s, k + 2) = Stream(s, k + 1) \o Piece(s, k + 2)
        BY <4>2, StreamGrows
      <4>4. Piece(s, k + 2) = s.items[k + 2]
        BY <4>2, PieceType
      <4> QED
        BY <2>1, <3>3, <4>2, <4>3, <4>4 DEF First, y
    <3> QED
      BY <3>2, <3>3 DEF y
  <2>5. TcpAt(s, t, a \o p, x)
    BY <1>1, <2>2, <2>3, <2>4 DEF TcpAt
  <2> QED
    BY <1>7, <2>5 DEF t
<1> QED
  BY <1>6, <1>7

(* What is read moves from the socket to the cache.                        *)
LEMMA TcpRead ==
  ASSUME NEW s \in Scenarios, NEW u \in Seq(Seq(Bytes)), NEW x \in Seq(Bytes),
         NEW p \in Seq(Bytes), NEW r \in Seq(Bytes), TcpAt(s, u, p \o r, x)
  PROVE  TcpAt(s, u, r, x \o p)
<1>1. (x \o p) \o r = x \o (p \o r)
  BY Regroup
<1> QED
  BY <1>1 DEF TcpAt

(* A datagram moves from its client to the socket.                         *)
LEMMA UdpSent ==
  ASSUME NEW s \in Scenarios, NEW u \in Seq(Seq(Bytes)), u # <<>>,
         NEW q \in Seq(Seq(Bytes)), NEW x \in Seq(Bytes), UdpAt(s, u, q, x)
  PROVE  UdpAt(s, Tail(u), Append(q, Head(u)), x)
<1> DEFINE N == Len(s.items)
           t == Tail(u)
           v == Append(q, Head(u))
           T == Seq(Bytes)
<1>1. /\ Len(u) \in Nat \ {0} /\ Len(q) \in Nat /\ N \in Nat
      /\ DOMAIN u = 1 .. Len(u) /\ DOMAIN q = 1 .. Len(q)
      /\ Head(u) = u[1] /\ Head(u) \in T
  <2>1. Len(u) \in Nat \ {0} /\ Len(q) \in Nat
    OBVIOUS
  <2>2. DOMAIN u = 1 .. Len(u) /\ DOMAIN q = 1 .. Len(q)
    OBVIOUS
  <2>3. Head(u) = u[1] /\ Head(u) \in T
    OBVIOUS
  <2> QED
    BY <2>1, <2>2, <2>3, StreamType
<1>2. /\ Len(t) = Len(u) - 1 /\ DOMAIN t = 1 .. Len(t)
      /\ \A i \in 1 .. Len(t) : t[i] = u[i + 1]
  <2>1. t \in Seq(Seq(Bytes)) /\ Len(t) = Len(u) - 1
    BY HeadTailProperties
  <2>2. \A i \in 1 .. Len(t) : t[i] = u[i + 1]
    BY HeadTailProperties
  <2> HIDE DEF t
  <2> QED
    BY <2>1, <2>2
<1>3. /\ Len(v) = Len(q) + 1 /\ v[Len(q) + 1] = u[1] /\ DOMAIN v = 1 .. Len(v)
      /\ \A i \in 1 .. Len(q) : v[i] = q[i]
  <2>1. u[1] \in T /\ q \in Seq(T)
    BY <1>1
  <2> HIDE DEF T
  <2> DEFINE w == Append(q, u[1])
  <2>2. /\ w \in Seq(T) /\ Len(w) = Len(q) + 1 /\ w[Len(q) + 1] = u[1]
        /\ \A i \in 1 .. Len(q) : w[i] = q[i]
    BY <2>1, AppendProperties
  <2>3. v = w
    BY <1>1
  <2> HIDE DEF v, w
  <2> QED
    BY <2>2, <2>3
<1>4. /\ Len(u) + Len(q) <= N
      /\ \A i \in 1 .. Len(u) : u[i] = s.items[N - Len(u) + i]
      /\ \A i \in 1 .. Len(q) : q[i] = s.items[N - Len(u) - Len(q) + i]
      /\ x = Stream(s, N - Len(u) - Len(q))
  BY <1>1 DEF UdpAt
<1> HIDE DEF t, v, N
<1>5. Len(t) + Len(v) = Len(u) + Len(q) /\ Len(t) + Len(v) <= N
  BY <1>1, <1>2, <1>3, <1>4
<1>6. ASSUME NEW i \in 1 .. Len(t) PROVE t[i] = s.items[N - Len(t) + i]
  <2>1. i + 1 \in 1 .. Len(u) /\ N - Len(u) + (i + 1) = N - Len(t) + i
    BY <1>1, <1>2
  <2> QED
    BY <1>2, <1>4, <2>1
<1>7. ASSUME NEW i \in 1 .. Len(v)
      PROVE  v[i] = s.items[N - Len(t) - Len(v) + i]
  <2>1. N - Len(t) - Len(v) + i = N - Len(u) - Len(q) + i
    BY <1>1, <1>2, <1>3
  <2>2. CASE i = Len(q) + 1
    <3>1. N - Len(u) - Len(q) + i = N - Len(u) + 1 /\ 1 \in 1 .. Len(u)
      BY <1>1, <2>2
    <3> QED
      BY <1>3, <1>4, <2>1, <2>2, <3>1
  <2>3. CASE i # Len(q) + 1
    <3>1. i \in 1 .. Len(q) + 1 /\ Len(q) \in Nat
      BY <1>1, <1>3
    <3>2. i \in 1 .. Len(q)
      BY <2>3, <3>1
    <3> QED
      BY <1>3, <1>4, <2>1, <3>2
  <2> QED
    BY <2>2, <2>3
<1>8. N - Len(t) - Len(v) = N - Len(u) - Len(q)
  BY <1>1, <1>2, <1>3
<1>9. UdpAt(s, t, v, x)
  BY <1>2, <1>3, <1>4, <1>5, <1>6, <1>7, <1>8 DEF UdpAt, N
<1> QED
  BY <1>9 DEF t, v

(* A datagram is read, and is gone whether all of it fitted or not.        *)
LEMMA UdpRead ==
  ASSUME NEW s \in Scenarios, NEW u \in Seq(Seq(Bytes)),
         NEW q \in Seq(Seq(Bytes)), q # <<>>, NEW x \in Seq(Bytes),
         UdpAt(s, u, q, x)
  PROVE  LET k == Len(s.items) - Len(u) - Len(q)
         IN  /\ k \in Nat /\ k + 1 \in 1 .. Len(s.items)
             /\ Head(q) = s.items[k + 1]
             /\ UdpAt(s, u, Tail(q), x \o Piece(s, k + 1))
<1> DEFINE N == Len(s.items)
           t == Tail(q)
           k == N - Len(u) - Len(q)
           y == x \o Piece(s, k + 1)
<1>1. /\ Len(q) \in Nat \ {0} /\ Len(u) \in Nat /\ N \in Nat
      /\ DOMAIN u = 1 .. Len(u) /\ DOMAIN q = 1 .. Len(q)
      /\ Head(q) = q[1]
  <2>1. Len(q) \in Nat \ {0} /\ Len(u) \in Nat
    OBVIOUS
  <2>2. DOMAIN u = 1 .. Len(u) /\ DOMAIN q = 1 .. Len(q)
    OBVIOUS
  <2>3. Head(q) = q[1]
    OBVIOUS
  <2> QED
    BY <2>1, <2>2, <2>3, StreamType
<1>2. /\ Len(t) = Len(q) - 1 /\ DOMAIN t = 1 .. Len(t)
      /\ \A i \in 1 .. Len(t) : t[i] = q[i + 1]
  <2>1. t \in Seq(Seq(Bytes)) /\ Len(t) = Len(q) - 1
    BY HeadTailProperties
  <2>2. \A i \in 1 .. Len(t) : t[i] = q[i + 1]
    BY HeadTailProperties
  <2> HIDE DEF t
  <2> QED
    BY <2>1, <2>2
<1>3. /\ Len(u) + Len(q) <= N
      /\ \A i \in 1 .. Len(u) : u[i] = s.items[N - Len(u) + i]
      /\ \A i \in 1 .. Len(q) : q[i] = s.items[k + i]
      /\ x = Stream(s, k)
  BY <1>1 DEF UdpAt
<1> HIDE DEF t, N
<1>4. /\ k \in Nat /\ k + 1 \in 1 .. N /\ (k + 1) - 1 = k
      /\ N - Len(u) - Len(t) = k + 1
      /\ Len(u) + Len(t) <= N
  BY <1>1, <1>2, <1>3
<1>5. q[1] = s.items[k + 1]
  BY <1>1, <1>3
<1> HIDE DEF k
<1>6. y = Stream(s, k + 1)
  BY <1>3, <1>4, StreamGrows DEF N
<1>7. ASSUME NEW i \in 1 .. Len(t) PROVE t[i] = s.items[(k + 1) + i]
  <2>1. i + 1 \in 1 .. Len(q) /\ k + (i + 1) = (k + 1) + i
    BY <1>1, <1>2, <1>4
  <2> QED
    BY <1>2, <1>3, <2>1
<1> HIDE DEF y
<1>8. UdpAt(s, u, t, y)
  <2>1. \A i \in DOMAIN u : u[i] = s.items[N - Len(u) + i]
    BY <1>1, <1>3
  <2>2. \A i \in DOMAIN t : t[i] = s.items[N - Len(u) - Len(t) + i]
    BY <1>2, <1>4, <1>7
  <2>3. y = Stream(s, N - Len(u) - Len(t))
    BY <1>4, <1>6
  <2> QED
    BY <1>4, <2>1, <2>2, <2>3 DEF UdpAt, N
<1> QED
  BY <1>1, <1>4, <1>5, <1>8 DEF k, t, y, N

-----------------------------------------------------------------------------
(* The network, as an invariant.                                           *)

(* How the object of a TCP client can have ended.                          *)
Ended ==
  /\ pc = "closed" => reset = "abort" \/ (fin /\ arrived = <<>>)
  /\ pc = "dead" => reset = "pipe"
  /\ reset = "pipe" => fin

(* Of TCP: the stream is read, in the socket or unsent.                    *)
TcpFlow == TcpAt(scene, unsent, First(arrived), read) /\ Ended

(* Of UDP: what is read are the datagrams that are neither unsent nor in   *)
(* the socket.                                                             *)
UdpFlow == UdpAt(scene, unsent, arrived, read)

NetInv == (IsTcp => TcpFlow) /\ (~IsTcp => UdpFlow)

LEMMA NetInit == Init => NetInv
<1> SUFFICES ASSUME Init PROVE NetInv
  OBVIOUS
<1>1. /\ scene \in Scenarios /\ unsent = scene.items /\ arrived = <<>>
      /\ reset = "no" /\ pc = "idle" /\ read = <<>>
  BY DEF Init
<1>2. PICK s \in Scenarios : s = scene
  BY <1>1
<1> DEFINE u == s.items
           N == Len(u)
<1>3. u \in Seq(Seq(Bytes)) /\ N \in Nat /\ N - N = 0 /\ DOMAIN u = 1 .. N
  <2>1. u \in Seq(Seq(Bytes))
    BY ConnectionAssumption
  <2> HIDE DEF u
  <2> QED
    BY <2>1
<1>4. \A i \in DOMAIN u : N - N + i = i
  <2> HIDE DEF u
  <2> QED
    BY <1>3
<1>5. CASE s.link = "tcp"
  <2>1. (<<>> \o <<>>) \o First(u) = Stream(s, N - N + IF u = <<>> THEN 0 ELSE 1)
    <3>1. <<>> \o <<>> = <<>> /\ <<>> \o First(u) = First(u)
      <4>1. First(u) \in Seq(Bytes) /\ <<>> \in Seq(Bytes)
        BY <1>3, FirstType
      <4> HIDE DEF u
      <4> QED
        BY <4>1, ConcatEmptySeq
    <3>2. CASE u = <<>>
      <4>1. N - N + 0 = 0
        BY <1>3
      <4> QED
        BY <3>1, <3>2, <4>1, StreamType DEF First
    <3>3. CASE u # <<>>
      <4>1. 1 \in 1 .. N /\ N - N + 1 = 1 /\ 1 - 1 = 0
        BY <1>3, <3>3
      <4>2. Stream(s, 1) = Stream(s, 0) \o Piece(s, 1)
        BY <4>1, StreamGrows
      <4>3. Piece(s, 1) = u[1] /\ u[1] \in Seq(Bytes)
        BY <1>5, <4>1, PieceType
      <4>4. Stream(s, 0) = <<>>
        BY StreamType
      <4> HIDE DEF u
      <4>5. <<>> \o u[1] = u[1]
        BY <4>3, ConcatEmptySeq
      <4> QED
        BY <3>1, <3>3, <4>1, <4>2, <4>3, <4>4, <4>5 DEF First
    <3> QED
      BY <3>2, <3>3
  <2>2. TcpAt(s, u, <<>>, <<>>)
    BY <1>3, <1>4, <2>1 DEF TcpAt
  <2>3. TcpFlow
    BY <1>1, <1>2, <2>2 DEF TcpFlow, Ended, First
  <2> QED
    BY <1>2, <1>5, <2>3 DEF NetInv, IsTcp
<1>6. CASE s.link # "tcp"
  <2>1. Len(<<>>) = 0 /\ N + 0 <= N /\ N - N - 0 = 0
    BY <1>3
  <2>2. \A i \in DOMAIN <<>> : FALSE
    OBVIOUS
  <2>3. UdpAt(s, u, <<>>, <<>>)
    BY <1>3, <1>4, <2>1, <2>2, StreamType DEF UdpAt
  <2>4. UdpFlow
    BY <1>1, <1>2, <2>3 DEF UdpFlow
  <2> QED
    BY <1>2, <1>6, <2>4 DEF NetInv, IsTcp
<1> QED
  BY <1>5, <1>6

(* A step that moves no byte of the network.                               *)
LEMMA NetQuiet ==
  ASSUME NetInv, UNCHANGED <<scene, unsent, arrived, read>>,
         IsTcp /\ Ended => Ended'
  PROVE  NetInv'
<1>1. IsTcp' = IsTcp
  BY DEF IsTcp
<1>2. IsTcp => TcpFlow'
  BY DEF NetInv, TcpFlow
<1>3. ~IsTcp => UdpFlow'
  BY DEF NetInv, UdpFlow
<1> QED
  BY <1>1, <1>2, <1>3 DEF NetInv

(* A sequence is what it begins with and the rest.                         *)
LEMMA Split ==
  ASSUME NEW h \in Seq(Bytes), NEW n \in 0 .. Len(h)
  PROVE  /\ SubSeq(h, 1, n) \in Seq(Bytes) /\ Len(SubSeq(h, 1, n)) = n
         /\ SubSeq(h, n + 1, Len(h)) \in Seq(Bytes)
         /\ SubSeq(h, 1, n) \o SubSeq(h, n + 1, Len(h)) = h
<1> DEFINE p == SubSeq(h, 1, n)
           r == SubSeq(h, n + 1, Len(h))
<1>1. Len(h) \in Nat /\ n \in Nat /\ n <= Len(h) /\ \A i \in 1 .. Len(h) : h[i] \in Bytes
  OBVIOUS
<1>2. p \in Seq(Bytes) /\ Len(p) = n /\ \A i \in 1 .. n : p[i] = h[i]
  BY <1>1
<1>3. r \in Seq(Bytes) /\ Len(r) = Len(h) - n /\ \A i \in 1 .. Len(h) - n : r[i] = h[n + i]
  <2>1. \A i \in n + 1 .. Len(h) : h[i] \in Bytes
    BY <1>1
  <2>2. n + 1 \in Int /\ Len(h) \in Int
    BY <1>1
  <2>3. /\ r \in Seq(Bytes)
        /\ Len(r) = IF n + 1 <= Len(h) THEN Len(h) - (n + 1) + 1 ELSE 0
        /\ \A i \in 1 .. Len(h) - (n + 1) + 1 : r[i] = h[(n + 1) + i - 1]
    BY <2>1, <2>2, SubSeqProperties
  <2> HIDE DEF r
  <2>4. Len(h) - (n + 1) + 1 = Len(h) - n
    BY <1>1
  <2>5. Len(r) = Len(h) - n
    BY <1>1, <2>3
  <2>6. ASSUME NEW i \in 1 .. Len(h) - n PROVE r[i] = h[n + i]
    <3>1. (n + 1) + i - 1 = n + i
      BY <1>1
    <3>2. i \in 1 .. Len(h) - (n + 1) + 1
      BY <2>4
    <3>3. r[i] = h[(n + 1) + i - 1]
      BY <2>3, <3>2, Zenon
    <3> QED
      BY <3>1, <3>3
  <2> QED
    BY <2>3, <2>5, <2>6
<1> HIDE DEF p, r
<1>4. h = p \o r
  <2>1. Len(h) = Len(p) + Len(r)
    BY <1>1, <1>2, <1>3
  <2>2. \A i \in 1 .. Len(p) : h[i] = p[i]
    BY <1>2
  <2>3. \A i \in 1 .. Len(r) : h[Len(p) + i] = r[i]
    BY <1>2, <1>3
  <2> QED
    BY <1>2, <1>3, <2>1, <2>2, <2>3, IsConcat
<1> QED
  BY <1>2, <1>3, <1>4 DEF p, r

LEMMA NetSendBytes ==
  ASSUME IInv, NetInv, SendBytes PROVE NetInv'
<1> DEFINE h == Head(unsent)
           p(n) == SubSeq(h, 1, n)
           r(n) == SubSeq(h, n + 1, Len(h))
<1>1. PICK n \in 1 .. Len(h) :
        /\ unsent' = IF r(n) = <<>> THEN Tail(unsent) ELSE <<r(n)>> \o Tail(unsent)
        /\ arrived' = IF arrived = <<>> THEN <<p(n)>> ELSE <<arrived[1] \o p(n)>>
  BY DEF SendBytes
<1>2. /\ IsTcp /\ unsent # <<>> /\ ~Gone /\ UNCHANGED <<scene, reset, read, pc>>
      /\ scene \in Scenarios /\ scene.link = "tcp"
      /\ unsent \in Seq(Seq(Bytes)) /\ arrived \in Seq(Seq(Bytes)) /\ read \in Seq(Bytes)
  <2>1. /\ IsTcp /\ unsent # <<>> /\ ~Gone
        /\ UNCHANGED <<scene, reset, requests, pc>>
    BY DEF SendBytes
  <2>2. /\ scene \in Scenarios /\ unsent \in Seq(Seq(Bytes))
        /\ arrived \in Seq(Seq(Bytes)) /\ read \in Seq(Bytes)
    BY DEF IInv, TypeOK
  <2> QED
    BY <2>1, <2>2 DEF IsTcp, requests
<1>3. h \in Seq(Bytes) /\ First(arrived) \in Seq(Bytes)
  BY <1>2, FirstType
<1> HIDE DEF h
<1>4. /\ p(n) \in Seq(Bytes) /\ r(n) \in Seq(Bytes) /\ h = p(n) \o r(n)
  <2>1. n \in 0 .. Len(h)
    BY <1>3
  <2> QED
    BY <1>3, <2>1, Split
<1>5. PICK b \in Seq(Bytes), c \in Seq(Bytes) : b = p(n) /\ c = r(n)
  BY <1>4
<1> HIDE DEF p, r
<1>6. First(arrived') = First(arrived) \o b
  <2>1. CASE arrived = <<>>
    <3>1. arrived' = <<b>>
      BY <1>1, <1>5, <2>1
    <3>2. <<>> \o b = b /\ <<b>> # <<>> /\ <<b>>[1] = b
      BY ConcatEmptySeq
    <3> QED
      BY <2>1, <3>1, <3>2 DEF First
  <2>2. CASE arrived # <<>>
    <3> DEFINE d == arrived[1] \o b
    <3>1. arrived' = <<d>> /\ First(arrived) = arrived[1]
      BY <1>1, <1>5, <2>2 DEF First
    <3> HIDE DEF d
    <3>2. First(<<d>>) = d
      BY DEF First
    <3> QED
      BY <3>1, <3>2 DEF d
  <2> QED
    BY <2>1, <2>2
<1>7. PICK s \in Scenarios, u \in Seq(Seq(Bytes)), a \in Seq(Bytes), x \in Seq(Bytes) :
        s = scene /\ u = unsent /\ a = First(arrived) /\ x = read
  BY <1>2, <1>3
<1>8. TcpAt(s, u, a, x) /\ s.link = "tcp" /\ u # <<>> /\ Head(u) = b \o c
  BY <1>2, <1>4, <1>5, <1>7 DEF NetInv, TcpFlow, h
<1>9. TcpAt(s, IF c = <<>> THEN Tail(u) ELSE <<c>> \o Tail(u), a \o b, x)
  BY <1>8, TcpSent
<1>10. unsent' = IF c = <<>> THEN Tail(u) ELSE <<c>> \o Tail(u)
  BY <1>1, <1>5, <1>7
<1>11. TcpAt(s, unsent', First(arrived'), x)
  BY <1>6, <1>7, <1>9, <1>10
<1>12. TcpFlow'
  <2>1. Ended'
    BY <1>2 DEF Ended, Gone
  <2> QED
    BY <1>2, <1>7, <1>11, <2>1 DEF TcpFlow
<1> QED
  BY <1>2, <1>12 DEF NetInv, IsTcp

LEMMA NetSendDatagram ==
  ASSUME IInv, NetInv, SendDatagram PROVE NetInv'
<1>1. /\ ~IsTcp /\ unsent # <<>> /\ UNCHANGED <<scene, requests>>
      /\ arrived' = Append(arrived, Head(unsent)) /\ unsent' = Tail(unsent)
  BY DEF SendDatagram
<1>2. /\ scene \in Scenarios /\ unsent \in Seq(Seq(Bytes))
      /\ arrived \in Seq(Seq(Bytes)) /\ read \in Seq(Bytes)
  BY DEF IInv, TypeOK
<1>3. UdpFlow
  BY <1>1 DEF NetInv
<1>4. PICK s \in Scenarios, u \in Seq(Seq(Bytes)), q \in Seq(Seq(Bytes)), x \in Seq(Bytes) :
        s = scene /\ u = unsent /\ q = arrived /\ x = read
  BY <1>2
<1>5. UdpAt(s, Tail(u), Append(q, Head(u)), x)
  BY <1>1, <1>3, <1>4, UdpSent DEF UdpFlow
<1>6. UdpAt(scene, unsent, arrived, read)'
  BY <1>1, <1>4, <1>5 DEF requests
<1> QED
  BY <1>1, <1>6 DEF NetInv, UdpFlow, IsTcp

LEMMA NetRecv ==
  ASSUME IInv, NetInv, RecvData PROVE NetInv'
<1> DEFINE piece == Head(arrived)
           n == IF Len(piece) < ReadSize THEN Len(piece) ELSE ReadSize
           b == SubSeq(piece, 1, n)
           c == SubSeq(piece, n + 1, Len(piece))
<1>1. /\ arrived # <<>>
      /\ arrived' = IF IsTcp /\ c # <<>> THEN <<c>> ELSE Tail(arrived)
      /\ n = 0 => read' = read
      /\ n # 0 => pc' = "recv" /\ read' = read \o b
      /\ UNCHANGED <<scene, unsent, fin, reset>>
  BY DEF RecvData
<1>2. /\ scene \in Scenarios /\ unsent \in Seq(Seq(Bytes))
      /\ arrived \in Seq(Seq(Bytes)) /\ read \in Seq(Bytes)
      /\ IsTcp => Len(arrived) = 1 /\ arrived[1] # <<>>
  BY <1>1 DEF IInv, TypeOK
<1>3. piece \in Seq(Bytes) /\ piece = arrived[1]
  BY <1>1, <1>2
<1> HIDE DEF piece
<1>4. n \in 0 .. Len(piece) /\ n \in Nat
  BY <1>3, ConstantTypes
<1>5. b \in Seq(Bytes) /\ Len(b) = n /\ c \in Seq(Bytes) /\ piece = b \o c
  <2> HIDE DEF n
  <2> QED
    BY <1>3, <1>4, Split
<1>6. PICK s \in Scenarios, u \in Seq(Seq(Bytes)), q \in Seq(Seq(Bytes)), x \in Seq(Bytes) :
        s = scene /\ u = unsent /\ q = arrived /\ x = read
  BY <1>2
<1>7. CASE IsTcp
  <2>1. n # 0
    <3>1. Len(piece) \in Nat /\ Len(piece) # 0
      BY <1>2, <1>3, <1>7
    <3> QED
      BY <3>1, ConstantTypes
  <2> HIDE DEF n, b, c
  <2>2. First(arrived) = b \o c
    BY <1>1, <1>3, <1>5 DEF First
  <2>3. First(arrived') = c
    <3>1. CASE c # <<>>
      <4>1. arrived' = <<c>>
        BY <1>1, <1>7, <3>1
      <4>2. <<c>> # <<>> /\ <<c>>[1] = c
        OBVIOUS
      <4> QED
        BY <4>1, <4>2 DEF First
    <3>2. CASE c = <<>>
      <4>1. arrived' = Tail(arrived)
        BY <1>1, <3>2
      <4>2. Tail(arrived) = <<>>
        BY <1>2, <1>7, TailOfOne
      <4> QED
        BY <3>2, <4>1, <4>2 DEF First
    <3> QED
      BY <3>1, <3>2
  <2>4. PICK d \in Seq(Bytes), e \in Seq(Bytes) : d = b /\ e = c
    BY <1>5
  <2>5. TcpAt(s, u, d \o e, x)
    BY <1>6, <1>7, <2>2, <2>4 DEF NetInv, TcpFlow
  <2>6. TcpAt(s, u, e, x \o d)
    BY <2>5, TcpRead
  <2>7. read' = x \o d /\ pc' = "recv"
    BY <1>1, <1>6, <2>1, <2>4
  <2>8. TcpAt(scene, unsent, First(arrived), read)'
    BY <1>1, <1>6, <2>3, <2>4, <2>6, <2>7
  <2>9. TcpFlow'
    <3>1. Ended'
      BY <1>1, <1>7, <2>7 DEF NetInv, TcpFlow, Ended
    <3> QED
      BY <2>8, <3>1 DEF TcpFlow
  <2> QED
    BY <1>1, <1>7, <2>9 DEF NetInv, IsTcp
<1>8. CASE ~IsTcp
  <2> DEFINE k == Len(s.items) - Len(u) - Len(q)
  <2>1. UdpFlow
    BY <1>8 DEF NetInv
  <2>2. /\ k \in Nat /\ k + 1 \in 1 .. Len(s.items)
        /\ piece = s.items[k + 1]
        /\ UdpAt(s, u, Tail(q), x \o Piece(s, k + 1))
    <3>1. q # <<>> /\ UdpAt(s, u, q, x)
      BY <1>1, <1>6, <2>1 DEF UdpFlow
    <3> QED
      BY <1>6, <3>1, UdpRead DEF piece
  <2>3. Piece(s, k + 1) = b
    <3>1. s.link # "tcp"
      BY <1>6, <1>8 DEF IsTcp
    <3>2. SubSeq(piece, 1, Len(piece)) = piece
      BY <1>3, SubSeqFull
    <3> HIDE DEF k
    <3> QED
      BY <2>2, <3>1, <3>2 DEF Piece
  <2>4. arrived' = Tail(q)
    BY <1>1, <1>6, <1>8
  <2>5. read' = x \o b
    <3>1. CASE n = 0
      <4>1. b = <<>>
        BY <1>5, <3>1
      <4> HIDE DEF b
      <4>2. x \o <<>> = x
        BY ConcatEmptySeq
      <4> QED
        BY <1>1, <1>6, <3>1, <4>1, <4>2
    <3>2. CASE n # 0
      BY <1>1, <1>6, <3>2
    <3> QED
      BY <3>1, <3>2
  <2> HIDE DEF n, b, c, k
  <2>6. UdpAt(scene, unsent, arrived, read)'
    BY <1>1, <1>6, <2>2, <2>3, <2>4, <2>5
  <2> QED
    BY <1>1, <1>8, <2>6 DEF NetInv, UdpFlow, IsTcp
<1> QED
  BY <1>7, <1>8

(* No step loses or moves a byte but those above.                          *)
LEMMA NetStep ==
  ASSUME IInv, NetInv, [Next]_vars PROVE NetInv'
<1>1. CASE SendBytes
  BY <1>1, NetSendBytes
<1>2. CASE SendDatagram
  BY <1>2, NetSendDatagram
<1>3. CASE RecvData
  BY <1>3, NetRecv
<1>4. CASE CloseClient \/ Abort \/ Reset
  <2>1. UNCHANGED <<scene, unsent, arrived, read>>
    BY <1>4 DEF CloseClient, Abort, Reset, requests
  <2>2. Ended => Ended'
    BY <1>4 DEF CloseClient, Abort, Reset, Ended, Gone
  <2> QED
    BY <2>1, <2>2, NetQuiet
<1>5. CASE RecvEnd
  <2>1. UNCHANGED <<scene, unsent, arrived, read>>
    BY <1>5 DEF RecvEnd, network, requests
  <2>2. Ended => Ended'
    BY <1>5 DEF RecvEnd, network, Ended
  <2> QED
    BY <2>1, <2>2, NetQuiet
<1>6. CASE ProcessData
  <2>1. UNCHANGED <<scene, unsent, arrived, read>>
    BY <1>6 DEF ProcessData, network
  <2>2. Ended => Ended'
    BY <1>6 DEF ProcessData, network, Ended
  <2> QED
    BY <2>1, <2>2, NetQuiet
<1>7. CASE WorkerProcess \/ SentResponseCache
  <2>1. UNCHANGED <<scene, network, read, pc>>
    BY <1>7 DEF WorkerProcess, SentResponseCache, requests
  <2>2. Ended => Ended'
    BY <2>1 DEF network, Ended
  <2> QED
    BY <2>1, <2>2, NetQuiet DEF network
<1>8. CASE OutputNotify
  <2>1. /\ UNCHANGED <<scene, network, read>>
        /\ \/ pc' = pc
           \/ pc' = "closed" /\ reset = "abort"
           \/ pc' = "dead" /\ reset = "pipe"
    BY <1>8 DEF OutputNotify, SendFails, requests
  <2>2. Ended => Ended'
    BY <2>1 DEF network, Ended
  <2> QED
    BY <2>1, <2>2, NetQuiet DEF network
<1>9. CASE UNCHANGED vars
  <2>1. UNCHANGED <<scene, network, read, pc>>
    BY <1>9 DEF vars, network
  <2>2. Ended => Ended'
    BY <2>1 DEF network, Ended
  <2> QED
    BY <2>1, <2>2, NetQuiet DEF network
<1> QED
  BY <1>1, <1>2, <1>3, <1>4, <1>5, <1>6, <1>7, <1>8, <1>9 DEF Next

(* With the socket empty, what was read and what is unsent is all there is.*)
LEMMA AllThere ==
  ASSUME NEW s \in Scenarios, s.link = "tcp", NEW u \in Seq(Seq(Bytes)),
         NEW x \in Seq(Bytes), TcpAt(s, u, <<>>, x)
  PROVE  x \o FlattenSeq(u) = FlattenSeq(s.items)
<1> DEFINE N == Len(s.items)
           k == N - Len(u)
           T == Seq(Bytes)
           U(i) == FlattenSeq(SubSeq(u, 1, i))
           Right(i) == U(i) \in Seq(Bytes) /\ x \o U(i) = Stream(s, k + i)
           S == {i \in Nat : i + 1 <= Len(u) => Right(i + 1)}
<1>1. /\ N \in Nat /\ Len(u) \in Nat /\ Len(u) <= N /\ k \in Nat
      /\ \A i \in 1 .. Len(u) : u[i] \in T /\ (i > 1 => u[i] = s.items[k + i])
  <2>1. N \in Nat /\ Len(u) \in Nat /\ Len(u) <= N
    BY StreamType DEF TcpAt
  <2>2. k \in Nat
    BY <2>1
  <2>3. DOMAIN u = 1 .. Len(u)
    OBVIOUS
  <2>4. \A i \in 1 .. Len(u) : i > 1 => u[i] = s.items[k + i]
    BY <2>3 DEF TcpAt
  <2>5. \A i \in 1 .. Len(u) : u[i] \in T
    OBVIOUS
  <2> QED
    BY <2>1, <2>2, <2>4, <2>5
<1>2. FlattenSeq(s.items) = Stream(s, N)
  <2> DEFINE P == [i \in 1 .. N |-> Piece(s, i)]
  <2>1. s.items \in Seq(T)
    BY ConnectionAssumption
  <2>2. \A i \in 1 .. N : Piece(s, i) = s.items[i] /\ s.items[i] \in T
    BY <2>1, PieceType
  <2> HIDE DEF T
  <2> HIDE DEF N
  <2>3. P \in Seq(T) /\ Len(P) = N
    BY <1>1, <2>2
  <2>4. \A i \in 1 .. N : P[i] = s.items[i]
    BY <2>2
  <2> HIDE DEF P
  <2>5. P = s.items
    BY <2>1, <2>3, <2>4, SeqEqual DEF N
  <2> QED
    BY <2>5 DEF Stream, P
<1>3. <<>> \in T /\ FlattenSeq(<<>>) = <<>> /\ x \o <<>> = x
  BY ConcatEmptySeq DEF FlattenSeq
<1>4. CASE u = <<>>
  <2>1. (x \o <<>>) \o <<>> = Stream(s, N - 0 + 0)
    BY <1>4 DEF TcpAt, First
  <2>2. N - 0 + 0 = N
    BY <1>1
  <2> QED
    BY <1>2, <1>3, <1>4, <2>1, <2>2
<1>5. CASE u # <<>>
  <2>1. 0 \in S
    <3>1. 1 \in 1 .. Len(u) /\ u[1] \in T /\ 0 + 1 = 1
      BY <1>1, <1>5
    <3>2. SubSeq(u, 1, 1) = Append(<<>>, u[1])
      <4>1. u \in Seq(T) /\ 1 \in 1 .. 1 /\ 1 - 1 = 0 /\ SubSeq(u, 1, 0) = <<>>
        OBVIOUS
      <4> HIDE DEF T
      <4> QED
        BY <3>1, <4>1, PartGrows
    <3>3. FlattenSeq(Append(<<>>, u[1])) = FlattenSeq(<<>>) \o u[1]
      <4>1. <<>> \in Seq(Seq(Bytes)) /\ u[1] \in Seq(Bytes)
        BY <3>1
      <4> QED
        BY <4>1, FlattenAppend
    <3>4. <<>> \o u[1] = u[1]
      BY <3>1, ConcatEmptySeq
    <3>5. (x \o <<>>) \o u[1] = Stream(s, k + 1)
      BY <1>5 DEF TcpAt, First
    <3>6. U(1) = u[1]
      BY <1>3, <3>2, <3>3, <3>4
    <3>7. Right(1)
      BY <1>3, <3>1, <3>5, <3>6
    <3> HIDE DEF Right
    <3> QED
      BY <3>1, <3>7
  <2>2. ASSUME NEW i \in S PROVE i + 1 \in S
    <3> DEFINE e == i + 1
               d == u[e + 1]
    <3>1. i \in Nat /\ (e <= Len(u) => Right(e))
      OBVIOUS
    <3> HIDE DEF Right
    <3> SUFFICES ASSUME e + 1 <= Len(u) PROVE Right(e + 1)
      BY <3>1
    <3>2. /\ e \in Nat /\ e <= Len(u) /\ e + 1 \in 1 .. Len(u) /\ e + 1 > 1
          /\ (k + (e + 1)) - 1 = k + e /\ k + (e + 1) \in 1 .. N
      <4>1. PICK l \in Nat, m \in Nat : l = Len(u) /\ m = N
        BY <1>1
      <4>2. k = m - l /\ l <= m /\ e + 1 <= l
        BY <1>1, <4>1
      <4> HIDE DEF k, N
      <4> QED
        BY <3>1, <4>1, <4>2
    <3>3. U(e) \in Seq(Bytes) /\ x \o U(e) = Stream(s, k + e)
      BY <3>1, <3>2 DEF Right
    <3>4. d \in Seq(Bytes) /\ d = s.items[k + (e + 1)]
      BY <1>1, <3>2
    <3> HIDE DEF e
    <3>5. Stream(s, k + (e + 1)) = Stream(s, k + e) \o d
      <4>1. Piece(s, k + (e + 1)) = s.items[k + (e + 1)]
        BY <3>2, PieceType
      <4> HIDE DEF k, d
      <4> QED
        BY <3>2, <3>4, <4>1, StreamGrows
    <3>6. /\ SubSeq(u, 1, e) \in Seq(Seq(Bytes))
          /\ SubSeq(u, 1, e + 1) = Append(SubSeq(u, 1, e), d)
      <4>1. u \in Seq(T)
        OBVIOUS
      <4>2. 1 \in 1 .. Len(u) /\ e + 1 \in 1 .. Len(u) /\ (e + 1) - 1 = e
        BY <1>1, <3>2
      <4> HIDE DEF T
      <4>3. /\ SubSeq(u, 1, (e + 1) - 1) \in Seq(T)
            /\ SubSeq(u, 1, e + 1) = Append(SubSeq(u, 1, (e + 1) - 1), u[e + 1])
        BY <4>1, <4>2, PartGrows
      <4> QED
        BY <4>2, <4>3 DEF T
    <3> HIDE DEF d
    <3>7. U(e + 1) = U(e) \o d
      <4>1. FlattenSeq(Append(SubSeq(u, 1, e), d)) = FlattenSeq(SubSeq(u, 1, e)) \o d
        BY <3>4, <3>6, FlattenAppend
      <4> QED
        BY <3>6, <4>1
    <3> HIDE DEF U
    <3>8. (x \o U(e)) \o d = x \o (U(e) \o d)
      BY <3>3, <3>4, Regroup
    <3>9. U(e) \o d \in Seq(Bytes)
      BY <3>3, <3>4, Joined
    <3> QED
      BY <3>3, <3>5, <3>7, <3>8, <3>9 DEF Right
  <2>3. S = Nat
    <3>1. S \in SUBSET Nat
      OBVIOUS
    <3> HIDE DEF S
    <3> QED
      BY <2>1, <2>2, <3>1, Induction
  <2>4. Right(Len(u))
    <3> DEFINE i == Len(u) - 1
    <3>1. i \in Nat /\ i + 1 = Len(u) /\ i + 1 <= Len(u)
      BY <1>1, <1>5
    <3>2. \A j \in Nat : j + 1 <= Len(u) => Right(j + 1)
      BY <2>3, Zenon
    <3> HIDE DEF i, Right
    <3> QED
      BY <3>1, <3>2
  <2>5. SubSeq(u, 1, Len(u)) = u /\ k + Len(u) = N
    BY <1>1
  <2> QED
    BY <1>2, <2>4, <2>5
<1> QED
  BY <1>4, <1>5

(* The object of a TCP client ends only with the client: after a reset, or *)
(* after its close and the last of its bytes; and the proxy is killed only *)
(* by what it writes after a close.                                        *)
THEOREM EndsRight == Spec => []EndsOnlyWithPeer
<1>1. IInv /\ NetInv /\ [Next]_vars => NetInv'
  BY NetStep
<1>2. IInv /\ NetInv => EndsOnlyWithPeer
  <2> SUFFICES ASSUME IInv, NetInv, IsTcp PROVE EndsOnlyWithPeer
    BY DEF EndsOnlyWithPeer
  <2>1. TcpAt(scene, unsent, First(arrived), read) /\ Ended
    BY DEF NetInv, TcpFlow
  <2>2. ASSUME pc = "closed", reset # "abort"
        PROVE  fin /\ read \o FlattenSeq(unsent) = FlattenSeq(scene.items)
    <3>1. fin /\ arrived = <<>>
      BY <2>1, <2>2 DEF Ended
    <3>2. First(<<>>) = <<>>
      BY DEF First
    <3>3. TcpAt(scene, unsent, <<>>, read)
      BY <2>1, <3>1, <3>2
    <3>4. /\ scene \in Scenarios /\ scene.link = "tcp"
          /\ unsent \in Seq(Seq(Bytes)) /\ read \in Seq(Bytes)
      BY DEF IInv, TypeOK, IsTcp
    <3> QED
      BY <3>1, <3>3, <3>4, AllThere
  <2> QED
    BY <2>1, <2>2 DEF EndsOnlyWithPeer, Ended
<1> QED
  BY <1>1, <1>2, NetInit, InvAlways, PTL DEF Spec

-----------------------------------------------------------------------------
(* Requests, as they were sent.                                            *)

LEMMA IntOfPrefix ==
  ASSUME NEW u \in Seq(Bytes), NEW b \in Seq(Bytes),
         Len(u) >= HeaderLen, Len(b) >= HeaderLen,
         \A j \in 1 .. HeaderLen : u[j] = b[j]
  PROVE  IntAt(u) = IntAt(b)
<1> DEFINE x == SubSeq(u, 1, HeaderLen)
           y == SubSeq(b, 1, HeaderLen)
<1>1. /\ x \in Seq(Bytes) /\ Len(x) = HeaderLen
      /\ \A j \in 1 .. HeaderLen : x[j] = u[j]
  BY ConstantTypes
<1>2. /\ y \in Seq(Bytes) /\ Len(y) = HeaderLen
      /\ \A j \in 1 .. HeaderLen : y[j] = b[j]
  BY ConstantTypes
<1> HIDE DEF x, y
<1>3. x = y
  BY <1>1, <1>2, SeqEqual
<1> QED
  BY <1>3 DEF IntAt, x, y

(* u: the bytes in the cache; b: the item they begin with.                 *)
LEMMA PackageOf ==
  ASSUME NEW u \in Seq(Bytes), Len(u) <= MaxBytes,
         NEW b \in Seq(Bytes), Len(b) >= HeaderLen,
         \A j \in 1 .. HeaderLen : j <= Len(u) => u[j] = b[j]
  PROVE  /\ Negative(b) => ~(HasPackage(u) > 0)
         /\ Framed(b) /\ HasPackage(u) > 0 => HasPackage(u) = Len(b)
         /\ Framed(b) /\ Len(u) >= Len(b) => HasPackage(u) > 0
<1> DEFINE v == IntAt(u)
           w == ToSize(v)
<1>1. /\ Len(u) \in Nat /\ Len(b) \in Nat /\ HeaderLen \in Nat \ {0}
      /\ MaxBytes \in Nat /\ IntMax \in Nat /\ MaxBytes <= IntMax
  BY ConstantTypes
<1>2. v \in Ints /\ v \in Int /\ w \in Int /\ (v >= 0 => w = v) /\ (v < 0 => w > IntMax)
  <2>1. v \in Ints
    BY IntAtType
  <2>2. Ints \subseteq Int
    BY <1>1 DEF Ints
  <2> HIDE DEF v
  <2> QED
    BY <2>1, <2>2, ToSizeRight
<1>3. HasPackage(u) = IF Len(u) < HeaderLen THEN 0
                      ELSE IF w > Len(u) - HeaderLen THEN 0 ELSE HeaderLen + v
  BY DEF HasPackage
<1>4. CASE Len(u) < HeaderLen
  <2>1. HasPackage(u) = 0
    BY <1>3, <1>4
  <2>2. ~(Len(u) >= Len(b))
    BY <1>1, <1>4
  <2> QED
    BY <2>1, <2>2
<1>5. CASE ~(Len(u) < HeaderLen)
  <2>1. v = IntAt(b)
    <3>1. Len(u) >= HeaderLen /\ \A j \in 1 .. HeaderLen : u[j] = b[j]
      BY <1>1, <1>5
    <3> QED
      BY <3>1, IntOfPrefix
  <2>2. Framed(b) => v = Len(b) - HeaderLen
    BY <2>1 DEF Framed
  <2>3. Negative(b) => v < 0
    BY <2>1 DEF Negative
  <2> HIDE DEF v, w
  <2> DEFINE n == HasPackage(u)
  <2>4. n = IF w > Len(u) - HeaderLen THEN 0 ELSE HeaderLen + v
    BY <1>3, <1>5
  <2> HIDE DEF n
  <2>5. ASSUME Negative(b) PROVE ~(n > 0)
    BY <1>1, <1>2, <2>3, <2>4, <2>5
  <2>6. ASSUME Framed(b), n > 0 PROVE n = Len(b)
    BY <1>1, <2>2, <2>4, <2>6
  <2>7. ASSUME Framed(b), Len(u) >= Len(b) PROVE n > 0
    BY <1>1, <1>2, <2>2, <2>4, <2>7
  <2> QED
    BY <2>5, <2>6, <2>7 DEF n
<1> QED
  BY <1>4, <1>5

(* A beginning stays one.                                                  *)
LEMMA PrefixGrows ==
  ASSUME NEW a \in Seq(Bytes), NEW c \in Seq(Bytes), NEW m \in Seq(Bytes)
  PROVE  /\ IsPrefix(a, a)
         /\ IsPrefix(a, c) => IsPrefix(a, c \o m)
<1>1. IsPrefix(a, a)
  <2>1. Len(a) \in Nat
    OBVIOUS
  <2> QED
    BY <2>1 DEF IsPrefix
<1>2. ASSUME IsPrefix(a, c) PROVE IsPrefix(a, c \o m)
  <2> DEFINE d == c \o m
             n == Len(a)
  <2>1. n \in Nat /\ n <= Len(c) /\ SubSeq(a, 1, n) = SubSeq(c, 1, n)
    BY <1>2 DEF IsPrefix
  <2>2. /\ d \in Seq(Bytes) /\ Len(d) >= Len(c) /\ Len(c) \in Nat
        /\ \A i \in 1 .. Len(c) : d[i] = c[i]
    OBVIOUS
  <2> HIDE DEF d, n
  <2>3. /\ SubSeq(d, 1, n) \in Seq(Bytes) /\ Len(SubSeq(d, 1, n)) = n
        /\ \A i \in 1 .. n : SubSeq(d, 1, n)[i] = d[i]
    BY <2>1, <2>2
  <2>4. /\ SubSeq(c, 1, n) \in Seq(Bytes) /\ Len(SubSeq(c, 1, n)) = n
        /\ \A i \in 1 .. n : SubSeq(c, 1, n)[i] = c[i]
    BY <2>1, <2>2
  <2>5. SubSeq(d, 1, n) = SubSeq(c, 1, n)
    <3> DEFINE x == SubSeq(d, 1, n)
               y == SubSeq(c, 1, n)
    <3> HIDE DEF x, y
    <3>1. x \in Seq(Bytes) /\ y \in Seq(Bytes) /\ Len(x) = n /\ Len(y) = n
      BY <2>3, <2>4 DEF x, y
    <3>2. \A i \in 1 .. n : x[i] = y[i]
      BY <2>1, <2>2, <2>3, <2>4 DEF x, y
    <3>3. x = y
      BY <3>1, <3>2, SeqEqual
    <3> QED
      BY <3>3 DEF x, y
  <2>6. n <= Len(d)
    BY <2>1, <2>2
  <2> QED
    BY <2>1, <2>5, <2>6 DEF IsPrefix, d, n
<1> QED
  BY <1>1, <1>2

(* The properties, of a scenario s, of which k messages were cut off, the  *)
(* bytes c, when x was read.                                               *)
ItemsIn(s, n) == FlattenSeq(SubSeq(s.items, 1, n))
GoodIn(s, n) ==
  /\ n <= Len(s.items)
  /\ \A i \in 1 .. n : /\ Framed(s.items[i])
                       /\ s.link = "tcp" \/ Len(s.items[i]) <= ReadSize
WholeIn(s, k, c) ==
  /\ \A n \in 0 .. k : GoodIn(s, n) => IsPrefix(ItemsIn(s, n), c)
  /\ GoodIn(s, k) => c = ItemsIn(s, k)
  /\ \A i \in DOMAIN s.items : GoodIn(s, i - 1) /\ Negative(s.items[i]) => k < i
HeldIn(s, k, x) ==
  \A n \in DOMAIN s.items :
    GoodIn(s, n) /\ Len(x) >= Len(ItemsIn(s, n)) => k >= n

LEMMA GoodItems ==
  ASSUME NEW s \in Scenarios, NEW n \in Nat, GoodIn(s, n)
  PROVE  /\ n \in 0 .. Len(s.items)
         /\ ItemsIn(s, n) = Stream(s, n)
         /\ ItemsIn(s, n) \in Seq(Bytes)
         /\ \A i \in 1 .. n : GoodIn(s, i - 1) /\ Framed(s.items[i])
         /\ \A i \in 1 .. n : Piece(s, i) = s.items[i]
<1> DEFINE N == Len(s.items)
           T == Seq(Bytes)
           P == [i \in 1 .. n |-> Piece(s, i)]
           Q == SubSeq(s.items, 1, n)
<1>1. s.items \in Seq(T) /\ N \in Nat /\ n \in 0 .. N
  <2>1. s.items \in Seq(T) /\ N \in Nat
    BY ConnectionAssumption, StreamType
  <2> QED
    BY <2>1 DEF GoodIn
<1>2. \A i \in 1 .. n : i \in 1 .. N
  BY <1>1
<1>3. ASSUME NEW i \in 1 .. n
      PROVE  Piece(s, i) = s.items[i] /\ s.items[i] \in T
  BY <1>2, PieceType DEF GoodIn
<1> HIDE DEF T
<1>4. Q \in Seq(T) /\ Len(Q) = n /\ \A i \in 1 .. n : Q[i] = s.items[i]
  BY <1>1
<1>5. P \in Seq(T) /\ Len(P) = n /\ \A i \in 1 .. n : P[i] = s.items[i]
  BY <1>3
<1> HIDE DEF P, Q
<1>6. P = Q
  BY <1>4, <1>5, SeqEqual
<1>7. ItemsIn(s, n) = Stream(s, n)
  BY <1>6 DEF ItemsIn, Stream, P, Q
<1>8. ASSUME NEW i \in 1 .. n PROVE GoodIn(s, i - 1) /\ Framed(s.items[i])
  <2>1. i - 1 <= N /\ \A j \in 1 .. i - 1 : j \in 1 .. n
    BY <1>1
  <2> QED
    BY <2>1 DEF GoodIn
<1> QED
  BY <1>1, <1>3, <1>7, <1>8, StreamType

(* x is a beginning of what the clients sent.                              *)
Begins(s, x) ==
  \E k \in 0 .. Len(s.items) : \E z \in Seq(Bytes) : x \o z = Stream(s, k)

(* What comes after the messages that were cut off is the next item.       *)
LEMMA NextItem ==
  ASSUME NEW s \in Scenarios,
         NEW c \in Seq(Bytes), NEW u \in Seq(Bytes), Begins(s, c \o u),
         NEW k \in Nat, GoodIn(s, k), c = ItemsIn(s, k), k + 1 \in 1 .. Len(s.items)
  PROVE  \A j \in 1 .. Len(Piece(s, k + 1)) :
           j <= Len(u) => u[j] = s.items[k + 1][j]
<1> SUFFICES ASSUME NEW j \in 1 .. Len(Piece(s, k + 1)), j <= Len(u)
             PROVE  u[j] = s.items[k + 1][j]
  OBVIOUS
<1> DEFINE p == Piece(s, k + 1)
           x == c \o u
<1>1. c = Stream(s, k) /\ (k + 1) - 1 = k
  BY GoodItems
<1>2. p \in Seq(Bytes) /\ p[j] = s.items[k + 1][j]
  BY PieceType
<1>3. j \in Nat /\ j >= 1
  <2> HIDE DEF p
  <2> QED
    BY <1>2 DEF p
<1>4. \A i \in 1 .. Len(c) + Len(u) :
        x[i] = IF i <= Len(c) THEN c[i] ELSE u[i - Len(c)]
  BY Joined
<1> DEFINE l == Len(c) + j
<1>5. l \in 1 .. Len(c) + Len(u) /\ ~(l <= Len(c)) /\ l - Len(c) = j /\ l <= Len(x)
  <2>1. Len(c) \in Nat /\ Len(u) \in Nat /\ Len(x) = Len(c) + Len(u)
    BY Joined
  <2>2. j <= Len(u)
    OBVIOUS
  <2>3. PICK v \in Nat, w \in Nat : v = Len(c) /\ w = Len(u)
    BY <2>1, Zenon
  <2>4. Len(x) = v + w /\ j <= w
    BY <2>1, <2>2, <2>3, Zenon
  <2>5. v + j \in 1 .. v + w /\ ~(v + j <= v) /\ (v + j) - v = j /\ v + j <= v + w
    BY <1>3, <2>4
  <2> QED
    BY <2>3, <2>4, <2>5, Zenon
<1>6. x[l] = p[j]
  <2>1. Len(Stream(s, (k + 1) - 1)) + j <= Len(x)
    BY <1>1, <1>5
  <2>2. PICK i \in 0 .. Len(s.items), z \in Seq(Bytes) : x \o z = Stream(s, i)
    BY DEF Begins
  <2>3. x \in Seq(Bytes)
    BY Joined
  <2> HIDE DEF x
  <2>4. x[Len(Stream(s, (k + 1) - 1)) + j] = Piece(s, k + 1)[j]
    BY <2>1, <2>2, <2>3, ReadAgrees
  <2> QED
    BY <1>1, <2>4
<1> HIDE DEF l, p, x
<1>7. x[l] = u[j]
  BY <1>4, <1>5
<1> QED
  BY <1>2, <1>6, <1>7 DEF p

(* A message that is cut off is the next request.                          *)
LEMMA WholeStep ==
  ASSUME NEW s \in Scenarios,
         NEW c \in Seq(Bytes), NEW u \in Seq(Bytes), Begins(s, c \o u),
         Len(u) <= MaxBytes, NEW k \in Nat, WholeIn(s, k, c), HasPackage(u) > 0
  PROVE  WholeIn(s, k + 1, c \o SubSeq(u, 1, HasPackage(u)))
<1> DEFINE N == Len(s.items)
           n == HasPackage(u)
           m == SubSeq(u, 1, n)
           b == s.items[k + 1]
<1>1. N \in Nat /\ DOMAIN s.items = 1 .. N
  <2>1. s.items \in Seq(Seq(Bytes)) /\ N \in Nat
    BY ConnectionAssumption, StreamType
  <2> QED
    BY <2>1
<1>2. n > 0 /\ n \in 1 .. Len(u) /\ n <= Len(u) /\ Len(u) \in Nat
  <2>1. n \in 1 .. Len(u) /\ Len(u) \in Nat
    BY PackageRight
  <2> HIDE DEF n
  <2> QED
    BY <2>1
<1> HIDE DEF n
<1>3. m \in Seq(Bytes) /\ Len(m) = n /\ \A j \in 1 .. n : m[j] = u[j]
  BY <1>2
<1>4. ASSUME GoodIn(s, k), k + 1 \in 1 .. N, Len(b) >= HeaderLen
      PROVE  /\ Negative(b) => FALSE
             /\ GoodIn(s, k + 1) => b = m
  <2>1. c = ItemsIn(s, k)
    BY <1>4 DEF WholeIn
  <2>2. \A j \in 1 .. Len(Piece(s, k + 1)) : j <= Len(u) => u[j] = b[j]
    BY <1>4, <2>1, NextItem
  <2>3. /\ b \in Seq(Bytes) /\ Len(Piece(s, k + 1)) >= HeaderLen
        /\ HeaderLen \in Nat /\ Len(Piece(s, k + 1)) \in Nat
    <3>1. b \in Seq(Bytes) /\ Len(Piece(s, k + 1)) >= HeaderLen
      BY <1>4, PieceType
    <3>2. Piece(s, k + 1) \in Seq(Bytes)
      BY <1>4, PieceType
    <3> QED
      BY <3>1, <3>2, ConstantTypes
  <2>4. GoodIn(s, k + 1) => Framed(b) /\ Piece(s, k + 1) = b
    <3>1. k + 1 \in Nat /\ k + 1 \in 1 .. k + 1
      OBVIOUS
    <3> QED
      BY <3>1, GoodItems
  <2> HIDE DEF b
  <2>5. \A j \in 1 .. HeaderLen : j <= Len(u) => u[j] = b[j]
    BY <2>2, <2>3
  <2>7. /\ Negative(b) => ~(n > 0)
        /\ Framed(b) /\ n > 0 => n = Len(b)
    BY <1>4, <2>3, <2>5, PackageOf DEF n
  <2>8. ASSUME GoodIn(s, k + 1) PROVE b = m
    <3>1. n = Len(b) /\ Piece(s, k + 1) = b
      BY <1>2, <2>4, <2>7, <2>8
    <3>2. ASSUME NEW j \in 1 .. n PROVE b[j] = m[j]
      <4>1. j \in 1 .. Len(Piece(s, k + 1)) /\ j <= Len(u)
        BY <1>2, <3>1
      <4> QED
        BY <1>3, <2>2, <4>1
    <3> HIDE DEF m
    <3> QED
      BY <1>3, <2>3, <3>1, <3>2, SeqEqual
  <2> QED
    BY <1>2, <2>7, <2>8
<1> HIDE DEF m
<1>5. ASSUME GoodIn(s, k + 1)
      PROVE  c \o m = ItemsIn(s, k + 1) /\ ItemsIn(s, k + 1) \in Seq(Bytes)
  <2>1. /\ k + 1 \in 0 .. N /\ k + 1 \in 1 .. N /\ (k + 1) - 1 = k
        /\ k + 1 \in 1 .. k + 1 /\ k + 1 \in Nat
    BY <1>1, <1>5 DEF GoodIn
  <2>2. /\ GoodIn(s, k) /\ Framed(b) /\ Piece(s, k + 1) = b
        /\ ItemsIn(s, k + 1) = Stream(s, k + 1) /\ ItemsIn(s, k + 1) \in Seq(Bytes)
    BY <1>5, <2>1, GoodItems
  <2>3. b = m
    BY <1>4, <1>5, <2>1, <2>2 DEF Framed
  <2>4. c = Stream(s, k)
    BY <2>2, GoodItems DEF WholeIn
  <2>5. Stream(s, k + 1) = Stream(s, k) \o Piece(s, k + 1)
    BY <2>1, StreamGrows
  <2> QED
    BY <2>2, <2>3, <2>4, <2>5
<1>6. ASSUME NEW i \in 0 .. k + 1, GoodIn(s, i)
      PROVE  IsPrefix(ItemsIn(s, i), c \o m)
  <2>1. CASE i = k + 1
    BY <1>3, <1>5, <1>6, <2>1, PrefixGrows
  <2>2. CASE i # k + 1
    <3>1. i \in 0 .. k /\ i \in Nat
      BY <2>2
    <3>2. IsPrefix(ItemsIn(s, i), c)
      BY <1>6, <3>1 DEF WholeIn
    <3> QED
      BY <1>3, <1>6, <3>1, <3>2, GoodItems, PrefixGrows
  <2> QED
    BY <2>1, <2>2
<1>7. ASSUME NEW i \in DOMAIN s.items, GoodIn(s, i - 1), Negative(s.items[i])
      PROVE  k + 1 < i
  <2>1. k < i /\ i \in 1 .. N
    BY <1>1, <1>7 DEF WholeIn
  <2>2. ASSUME i = k + 1 PROVE FALSE
    <3>1. i - 1 = k
      BY <2>2
    <3>2. GoodIn(s, k) /\ Negative(b) /\ k + 1 \in 1 .. N
      BY <1>7, <2>1, <2>2, <3>1
    <3> QED
      BY <1>4, <3>2 DEF Negative
  <2>3. \A v \in Int : k < v /\ v # k + 1 => k + 1 < v
    OBVIOUS
  <2>4. i \in Int
    BY <1>1, <2>1
  <2> QED
    BY <2>1, <2>2, <2>3, <2>4
<1> QED
  BY <1>5, <1>6, <1>7 DEF WholeIn, m, n

(* When no message is found, every request that was read was cut off.      *)
LEMMA HeldStep ==
  ASSUME NEW s \in Scenarios,
         NEW c \in Seq(Bytes), NEW u \in Seq(Bytes), Begins(s, c \o u),
         Len(u) <= MaxBytes, NEW k \in Nat, WholeIn(s, k, c), ~(HasPackage(u) > 0)
  PROVE  HeldIn(s, k, c \o u)
<1> DEFINE N == Len(s.items)
           x == c \o u
           b == s.items[k + 1]
<1>1. N \in Nat /\ DOMAIN s.items = 1 .. N
  <2>1. s.items \in Seq(Seq(Bytes)) /\ N \in Nat
    BY ConnectionAssumption, StreamType
  <2> QED
    BY <2>1
<1>2. SUFFICES ASSUME NEW n \in 1 .. N, GoodIn(s, n),
                      Len(x) >= Len(ItemsIn(s, n)), ~(k >= n)
               PROVE  FALSE
  BY <1>1 DEF HeldIn
<1>3. /\ k + 1 \in 1 .. n /\ k + 1 \in 1 .. N /\ k + 1 \in 0 .. N /\ k \in 0 .. N
      /\ n \in k + 1 .. N /\ n \in Nat /\ (k + 1) - 1 = k
  BY <1>1, <1>2
<1>4. /\ GoodIn(s, k) /\ Framed(b) /\ Piece(s, k + 1) = b
      /\ ItemsIn(s, n) = Stream(s, n)
  BY <1>2, <1>3, GoodItems
<1>5. c = ItemsIn(s, k) /\ c = Stream(s, k)
  BY <1>3, <1>4, GoodItems DEF WholeIn
<1>6. b \in Seq(Bytes) /\ Stream(s, k + 1) = c \o b
  <2>1. b \in Seq(Bytes)
    BY <1>3, PieceType
  <2>2. Stream(s, k + 1) = Stream(s, (k + 1) - 1) \o Piece(s, k + 1)
    BY <1>3, StreamGrows
  <2> HIDE DEF b
  <2> QED
    BY <1>3, <1>4, <1>5, <2>1, <2>2
<1>7. Len(c \o b) <= Len(Stream(s, n)) /\ Len(Stream(s, n)) <= Len(x)
  BY <1>2, <1>3, <1>4, <1>6, StreamLengths
<1>8. Len(u) >= Len(b)
  <2>1. /\ Len(c \o b) = Len(c) + Len(b) /\ Len(x) = Len(c) + Len(u)
        /\ Len(c) \in Nat /\ Len(b) \in Nat /\ Len(u) \in Nat
    BY <1>6, Joined
  <2>2. Len(Stream(s, n)) \in Nat
    <3>1. Stream(s, n) \in Seq(Bytes)
      BY <1>3, <1>1, StreamType
    <3> QED
      BY <3>1
  <2> HIDE DEF b, x
  <2> QED
    BY <1>7, <2>1, <2>2
<1>9. Len(b) >= HeaderLen /\ \A j \in 1 .. HeaderLen : j <= Len(u) => u[j] = b[j]
  <2>1. \A j \in 1 .. Len(Piece(s, k + 1)) : j <= Len(u) => u[j] = b[j]
    BY <1>3, <1>4, <1>5, NextItem
  <2>2. Len(b) >= HeaderLen
    BY <1>4 DEF Framed
  <2> HIDE DEF b
  <2>3. Len(b) \in Nat /\ HeaderLen \in Nat
    BY <1>6, ConstantTypes
  <2>4. \A j \in 1 .. Len(b) : j <= Len(u) => u[j] = b[j]
    BY <1>4, <2>1
  <2>5. 1 .. HeaderLen \subseteq 1 .. Len(b)
    BY <2>2, <2>3
  <2> QED
    BY <2>2, <2>4, <2>5
<1> HIDE DEF b
<1> QED
  BY <1>4, <1>6, <1>8, <1>9, PackageOf

(* What was read was cut off or is in the cache.                           *)
Conserved == cut \o Readable(wCache) = read

LEMMA StreamTypes ==
  ASSUME IInv
  PROVE  /\ scene \in Scenarios /\ count \in Nat
         /\ read \in Seq(Bytes) /\ cut \in Seq(Bytes)
         /\ Readable(wCache) \in Seq(Bytes) /\ Len(Readable(wCache)) <= MaxBytes
         /\ Len(Readable(wCache)) = wCache.w - wCache.r
<1>1. IsCache(wCache) /\ InsideCache(wCache) /\ wCache.w <= MaxBytes
  BY DEF IInv, TypeOK, CachesInside, Bounded
<1>2. wCache.w \in Nat /\ wCache.r \in Nat
  BY <1>1 DEF IsCache
<1>3. Readable(wCache) \in Seq(Bytes) /\ Len(Readable(wCache)) = wCache.w - wCache.r
  BY <1>1, ReadableType
<1>4. wCache.w - wCache.r <= MaxBytes
  BY <1>1, <1>2, ConstantTypes
<1> QED
  BY <1>3, <1>4 DEF IInv, TypeOK

LEMMA ConservedStep ==
  ASSUME IInv, Conserved, [Next]_vars PROVE Conserved'
<1>1. /\ IInv'
      /\ RequestStream!Next \/ UNCHANGED <<read, Readable(wCache), cut>>
  BY StepRight
<1>2. read' \in Seq(Bytes)
  BY <1>1 DEF IInv, TypeOK
<1>3. PICK x \in Seq(Bytes), c \in Seq(Bytes), u \in Seq(Bytes) :
        x = read /\ c = cut /\ u = Readable(wCache)
  BY StreamTypes
<1>4. c \o u = x
  BY <1>3 DEF Conserved
<1>5. CASE RequestStream!Put
  <2> DEFINE new == SubSeq(read', Len(x) + 1, Len(read'))
  <2>1. read' = x \o new /\ Readable(wCache)' = u \o new /\ cut' = c
    BY <1>3, <1>5 DEF RequestStream!Put
  <2>2. new \in Seq(Bytes)
    <3>1. Len(x) \in Nat
      OBVIOUS
    <3> QED
      BY <1>2, <3>1
  <2> HIDE DEF new
  <2>3. (c \o u) \o new = c \o (u \o new)
    BY <2>2, Regroup
  <2> QED
    BY <1>4, <2>1, <2>3 DEF Conserved
<1>6. CASE RequestStream!Take
  <2>1. PICK n \in 0 .. Len(u) : /\ cut' = c \o SubSeq(u, 1, n)
                                 /\ Readable(wCache)' = SubSeq(u, n + 1, Len(u))
                                 /\ read' = x
    BY <1>3, <1>6 DEF RequestStream!Take
  <2> DEFINE m == SubSeq(u, 1, n)
             r == SubSeq(u, n + 1, Len(u))
  <2>2. m \in Seq(Bytes) /\ r \in Seq(Bytes) /\ m \o r = u
    BY Split
  <2>3. cut' = c \o m /\ Readable(wCache)' = r
    BY <2>1
  <2> HIDE DEF m, r
  <2>4. (c \o m) \o r = c \o (m \o r)
    <3>1. \A y \in Seq(Bytes), z \in Seq(Bytes) : (c \o y) \o z = c \o (y \o z)
      BY Regroup
    <3> QED
      BY <2>2, <3>1
  <2> QED
    BY <1>4, <2>1, <2>2, <2>3, <2>4 DEF Conserved
<1>7. CASE UNCHANGED <<read, Readable(wCache), cut>>
  BY <1>7 DEF Conserved
<1> QED
  BY <1>1, <1>5, <1>6, <1>7 DEF RequestStream!Next

(* What was read is a beginning of what the clients send.                  *)
LEMMA BeginsRead ==
  ASSUME IInv, NetInv PROVE Begins(scene, read)
<1>1. PICK s \in Scenarios, v \in Seq(Seq(Bytes)), q \in Seq(Seq(Bytes)), x \in Seq(Bytes) :
        s = scene /\ v = unsent /\ q = arrived /\ x = read
  BY DEF IInv, TypeOK
<1> DEFINE N == Len(s.items)
<1>2. N \in Nat /\ Len(v) \in Nat /\ Len(q) \in Nat
  BY StreamType
<1>3. CASE IsTcp
  <2> DEFINE a == First(q)
             f == First(v)
             k == N - Len(v) + IF v = <<>> THEN 0 ELSE 1
  <2>1. TcpAt(s, v, a, x)
    BY <1>1, <1>3 DEF NetInv, TcpFlow
  <2>2. a \in Seq(Bytes) /\ f \in Seq(Bytes)
    BY FirstType
  <2>3. Len(v) <= N /\ (x \o a) \o f = Stream(s, k)
    BY <2>1 DEF TcpAt
  <2>4. k \in 0 .. N
    <3>1. CASE v = <<>>
      BY <1>2, <2>3, <3>1
    <3>2. CASE v # <<>>
      <4>1. Len(v) # 0
        BY <3>2, EmptySeq
      <4> QED
        BY <1>2, <2>3, <3>2, <4>1
    <3> QED
      BY <3>1, <3>2
  <2> HIDE DEF a, f, k
  <2>5. x \o (a \o f) = Stream(s, k) /\ a \o f \in Seq(Bytes)
    <3>1. (x \o a) \o f = x \o (a \o f)
      BY <2>2, Regroup
    <3>2. a \o f \in Seq(Bytes)
      BY <2>2, Joined
    <3> QED
      BY <2>3, <3>1, <3>2
  <2>6. Begins(s, x)
    BY <2>4, <2>5 DEF Begins
  <2> QED
    BY <1>1, <2>6
<1>4. CASE ~IsTcp
  <2> DEFINE k == N - Len(v) - Len(q)
  <2>1. UdpAt(s, v, q, x)
    BY <1>1, <1>4 DEF NetInv, UdpFlow
  <2>2. Len(v) + Len(q) <= N /\ x = Stream(s, k)
    BY <2>1 DEF UdpAt
  <2>3. k \in 0 .. N
    BY <1>2, <2>2
  <2>4. x \o <<>> = x /\ <<>> \in Seq(Bytes)
    BY ConcatEmptySeq
  <2> HIDE DEF k
  <2>5. Begins(s, x)
    BY <2>2, <2>3, <2>4 DEF Begins
  <2> QED
    BY <1>1, <2>5
<1> QED
  BY <1>3, <1>4

(* Requests are cut off whole, and none is held back.                      *)
Kept ==
  IF scene.plugin = "udp" THEN cut = read ELSE HeldIn(scene, count, read)
RequestInv ==
  /\ Conserved
  /\ scene.plugin = "example" => WholeIn(scene, count, cut)
  /\ pc = "idle" => Kept

LEMMA NothingYet ==
  ASSUME NEW s \in Scenarios
  PROVE  WholeIn(s, 0, <<>>) /\ HeldIn(s, 0, <<>>)
<1> DEFINE N == Len(s.items)
<1>1. N \in Nat /\ DOMAIN s.items = 1 .. N
  <2>1. s.items \in Seq(Seq(Bytes)) /\ N \in Nat
    BY ConnectionAssumption, StreamType
  <2> QED
    BY <2>1
<1>2. <<>> \in Seq(Bytes) /\ Len(<<>>) = 0
  OBVIOUS
<1>3. GoodIn(s, 0) => ItemsIn(s, 0) = <<>>
  BY GoodItems, StreamType
<1>4. WholeIn(s, 0, <<>>)
  <2>1. ASSUME NEW n \in 0 .. 0, GoodIn(s, n) PROVE IsPrefix(ItemsIn(s, n), <<>>)
    <3>1. n = 0
      OBVIOUS
    <3>2. ItemsIn(s, n) = <<>>
      BY <1>3, <2>1, <3>1
    <3> QED
      BY <1>2, <3>2, PrefixGrows
  <2>2. \A i \in DOMAIN s.items : 0 < i
    BY <1>1
  <2> QED
    BY <1>3, <2>1, <2>2 DEF WholeIn
<1>5. ASSUME NEW n \in 1 .. N, GoodIn(s, n), Len(<<>>) >= Len(ItemsIn(s, n))
      PROVE  FALSE
  <2> DEFINE b == s.items[1]
  <2>1. /\ n \in Nat /\ 1 \in 1 .. n /\ 1 \in 1 .. N /\ 1 \in 0 .. N /\ n \in 1 .. N
        /\ n \in 0 .. N /\ 1 - 1 = 0
    BY <1>1, <1>5
  <2>2. Framed(b) /\ Piece(s, 1) = b /\ ItemsIn(s, n) = Stream(s, n)
    BY <1>5, <2>1, GoodItems
  <2>3. b \in Seq(Bytes)
    BY <2>1, PieceType
  <2>4. Stream(s, 1) = Stream(s, 1 - 1) \o Piece(s, 1)
    BY <2>1, StreamGrows
  <2>5. Len(Stream(s, 1)) <= Len(Stream(s, n))
    BY <2>1, StreamLengths
  <2>6. Len(b) >= HeaderLen
    BY <2>2 DEF Framed
  <2> HIDE DEF b
  <2>7. <<>> \o b = b
    BY <2>3, ConcatEmptySeq
  <2>8. Stream(s, 1) = b
    BY <2>1, <2>2, <2>4, <2>7, StreamType
  <2>9. Len(b) \in Nat /\ HeaderLen \in Nat \ {0}
    BY <2>3, ConstantTypes
  <2>10. Stream(s, n) \in Seq(Bytes)
    BY <2>1, StreamType
  <2>11. Len(Stream(s, n)) \in Nat
    BY <2>10
  <2> QED
    BY <1>2, <1>5, <2>2, <2>5, <2>6, <2>8, <2>9, <2>11
<1>6. HeldIn(s, 0, <<>>)
  BY <1>1, <1>5 DEF HeldIn
<1> QED
  BY <1>4, <1>6

LEMMA RequestInit == Init => RequestInv
<1> SUFFICES ASSUME Init PROVE RequestInv
  OBVIOUS
<1>1. scene \in Scenarios /\ count = 0 /\ read = <<>> /\ cut = <<>>
  BY DEF Init
<1>2. Readable(wCache) = <<>>
  BY NewCacheRight DEF Init
<1>3. <<>> \o <<>> = <<>>
  BY ConcatEmptySeq
<1>4. Conserved
  BY <1>1, <1>2, <1>3 DEF Conserved
<1>5. WholeIn(scene, count, cut) /\ Kept
  BY <1>1, NothingYet DEF Kept
<1> QED
  BY <1>4, <1>5 DEF RequestInv

(* A turn of processData's loop.                                           *)
LEMMA RequestProcess ==
  ASSUME IInv, NetInv, RequestInv, ProcessData
  PROVE  /\ scene.plugin = "example" => WholeIn(scene, count, cut)'
         /\ (pc = "idle" => Kept)'
<1>1. PICK s \in Scenarios, k \in Nat, c \in Seq(Bytes), u \in Seq(Bytes) :
        s = scene /\ k = count /\ c = cut /\ u = Readable(wCache)
  BY StreamTypes
<1>2. Len(u) <= MaxBytes /\ Len(u) = wCache.w - wCache.r
  BY <1>1, StreamTypes
<1>3. read = c \o u /\ Begins(s, c \o u)
  BY <1>1, BeginsRead DEF RequestInv, Conserved
<1>4. s.plugin \in {"example", "udp"}
  BY ConnectionAssumption
<1> DEFINE n == HandleInput(wCache)
<1>5. /\ pc = "process" /\ scene' = s /\ read' = read
      /\ IF n > 0
         THEN cut' = c \o SubSeq(u, 1, n) /\ count' = k + 1 /\ pc' = pc
         ELSE cut' = c /\ count' = k /\ pc' = "idle"
  BY <1>1 DEF ProcessData
<1>6. /\ s.plugin = "example" => n = HasPackage(u)
      /\ s.plugin = "udp" => n = wCache.w - wCache.r
  BY <1>1 DEF HandleInput
<1>7. s.plugin = "example" => WholeIn(s, k, c)
  BY <1>1 DEF RequestInv
<1> HIDE DEF n
<1>8. CASE n > 0
  <2>1. s.plugin = "example" => WholeIn(s, k + 1, c \o SubSeq(u, 1, HasPackage(u)))
    BY <1>2, <1>3, <1>6, <1>7, <1>8, WholeStep
  <2>2. scene.plugin = "example" => WholeIn(scene, count, cut)'
    BY <1>1, <1>5, <1>6, <1>8, <2>1
  <2> QED
    BY <1>5, <1>8, <2>2
<1>9. CASE ~(n > 0)
  <2>1. cut' = c /\ count' = k
    BY <1>5, <1>9
  <2>2. scene.plugin = "example" => WholeIn(scene, count, cut)'
    BY <1>1, <1>5, <1>7, <2>1
  <2>3. s.plugin = "example" => HeldIn(s, k, c \o u)
    BY <1>2, <1>3, <1>6, <1>7, <1>9, HeldStep
  <2>4. s.plugin = "udp" => c = c \o u
    <3> SUFFICES ASSUME s.plugin = "udp" PROVE c = c \o u
      OBVIOUS
    <3>1. Len(u) = 0
      <4>1. Len(u) \in Nat /\ Len(u) = n
        BY <1>2, <1>6
      <4> QED
        BY <1>9, <4>1
    <3>2. u = <<>>
      BY <3>1, EmptySeq
    <3>3. c \o <<>> = c
      BY ConcatEmptySeq
    <3> QED
      BY <3>2, <3>3
  <2>5. Kept'
    BY <1>3, <1>4, <1>5, <2>1, <2>3, <2>4 DEF Kept
  <2> QED
    BY <2>2, <2>5
<1> QED
  BY <1>8, <1>9

LEMMA RequestStep ==
  ASSUME IInv, NetInv, RequestInv, [Next]_vars PROVE RequestInv'
<1>1. Conserved'
  BY ConservedStep DEF RequestInv
<1>2. CASE ProcessData
  <2>1. scene' = scene
    BY <1>2 DEF ProcessData
  <2> QED
    BY <1>1, <1>2, <2>1, RequestProcess DEF RequestInv
<1>3. CASE RecvData
  <2>1. UNCHANGED <<scene, count, cut>> /\ pc' # "idle"
    BY <1>3 DEF RecvData
  <2> QED
    BY <1>1, <2>1 DEF RequestInv
<1>4. CASE ~ProcessData /\ ~RecvData
  <2>1. UNCHANGED <<scene, count, cut, read>> /\ (pc' = "idle" => pc = "idle")
    <3>1. CASE SendBytes \/ SendDatagram \/ CloseClient \/ Abort \/ Reset
      BY <3>1 DEF SendBytes, SendDatagram, CloseClient, Abort, Reset, requests
    <3>2. CASE RecvEnd
      BY <3>2 DEF RecvEnd, requests
    <3>3. CASE WorkerProcess \/ SentResponseCache \/ OutputNotify
      BY <3>3 DEF WorkerProcess, SentResponseCache, OutputNotify, SendFails,
                  requests
    <3>4. CASE UNCHANGED vars
      BY <3>4 DEF vars
    <3> QED
      BY <1>4, <3>1, <3>2, <3>3, <3>4 DEF Next
  <2> QED
    BY <1>1, <2>1 DEF RequestInv, Kept
<1> QED
  BY <1>2, <1>3, <1>4

LEMMA RequestsAlways == Spec => []RequestInv
<1>1. IInv /\ NetInv /\ [Next]_vars => NetInv'
  BY NetStep
<1>2. IInv /\ NetInv /\ RequestInv /\ [Next]_vars => RequestInv'
  BY RequestStep
<1> QED
  BY <1>1, <1>2, NetInit, RequestInit, InvAlways, PTL DEF Spec

(* The example plug-in cuts the stream where the clients' requests end, up *)
(* to the first item that is none, however the reads cut it; an item with  *)
(* a negative length does not become a message.                            *)
THEOREM WholeRight == Spec => []RequestsWhole
<1>1. RequestInv => RequestsWhole
  BY DEF RequestInv, RequestsWhole, WholeIn, GoodIn, ItemsIn, Good, Items, IsTcp
<1> QED
  BY <1>1, RequestsAlways, PTL

(* When the object waits for its next event, every request that was read   *)
(* to its last byte has been cut off, so that none waits for an event that *)
(* does not come.                                                          *)
THEOREM HeldRight == Spec => []NothingHeldBack
<1>1. RequestInv => NothingHeldBack
  BY DEF RequestInv, NothingHeldBack, Kept, HeldIn, GoodIn, ItemsIn, Good, Items,
         IsTcp
<1> QED
  BY <1>1, RequestsAlways, PTL

-----------------------------------------------------------------------------
(* What the datagrams between two positions hold.                          *)
Part(s, a, b) == FlattenSeq(SubSeq(s.items, a, b))
Together(s, m) ==
  \E a \in 1 .. Len(s.items) : \E b \in a .. Len(s.items) : m = Part(s, a, b)

LEMMA EncodedItems ==
  ASSUME NEW s \in Scenarios, s.msgs # <<>>
  PROVE  /\ s.items \in Seq(Seq(Bytes)) /\ Encode(s.items, s.msgs)
         /\ s.link = "udp" => \A i \in 1 .. Len(s.items) : Piece(s, i) = s.items[i]
<1>1. s.items \in Seq(Seq(Bytes)) /\ Encoded(s)
  <2>1. s.items \in Seq(Seq(Bytes))
    BY ConnectionAssumption
  <2>2. s.msgs # <<>> => Encoded(s)
    BY MessageAssumption, Zenon
  <2> QED
    BY <2>1, <2>2
<1>2. DOMAIN s.items = 1 .. Len(s.items)
  BY <1>1
<1>3. Encode(s.items, s.msgs)
  BY <1>1, <1>2, Zenon DEF Encoded, Encode, Parsed, FoldOf
<1>4. ASSUME NEW i \in 1 .. Len(s.items) PROVE Len(s.items[i]) <= ReadSize
  BY <1>1, <1>2 DEF Encoded
<1> QED
  BY <1>1, <1>3, <1>4, PieceType

(* The stream goes on with the datagrams behind a position.                *)
LEMMA StreamParts ==
  ASSUME NEW s \in Scenarios, s.link = "udp", s.msgs # <<>>,
         NEW j \in 0 .. Len(s.items), NEW k \in j .. Len(s.items)
  PROVE  /\ Part(s, j + 1, k) \in Seq(Bytes)
         /\ Stream(s, k) = Stream(s, j) \o Part(s, j + 1, k)
<1> DEFINE N == Len(s.items)
           Right(i) == /\ Part(s, j + 1, i) \in Seq(Bytes)
                       /\ Stream(s, i) = Stream(s, j) \o Part(s, j + 1, i)
           S == {i \in Nat : j + i <= N => Right(j + i)}
<1>1. /\ N \in Nat /\ j \in Nat /\ k \in Nat /\ j <= k /\ k <= N
      /\ \A i \in 0 .. N : Stream(s, i) \in Seq(Bytes)
  BY StreamType
<1>2. s.items \in Seq(Seq(Bytes)) /\ \A i \in 1 .. N : Piece(s, i) = s.items[i]
  BY EncodedItems
<1>3. 0 \in S
  <2>1. SubSeq(s.items, j + 1, j) = <<>>
    BY <1>1, <1>2
  <2>2. FlattenSeq(<<>>) = <<>>
    BY DEF FlattenSeq
  <2>3. Part(s, j + 1, j) = <<>>
    BY <2>1, <2>2 DEF Part
  <2>4. <<>> \in Seq(Bytes) /\ Stream(s, j) \o <<>> = Stream(s, j)
    BY <1>1, ConcatEmptySeq
  <2>5. j + 0 = j
    BY <1>1
  <2> QED
    BY <2>3, <2>4, <2>5
<1>4. ASSUME NEW i \in S PROVE i + 1 \in S
  <2> DEFINE e == j + i
             d == s.items[e + 1]
             a == Stream(s, j)
             p == Part(s, j + 1, e)
  <2>1. i \in Nat /\ (e <= N => Right(e))
    OBVIOUS
  <2> HIDE DEF Right
  <2> SUFFICES ASSUME e + 1 <= N PROVE Right(e + 1)
    <3>1. j + (i + 1) = e + 1
      BY <1>1, <2>1
    <3> QED
      BY <2>1, <3>1
  <2>2. /\ e \in Nat /\ e + 1 \in 1 .. N /\ (e + 1) - 1 = e /\ e <= N
        /\ j + 1 \in 1 .. N /\ e + 1 \in j + 1 .. N
    BY <1>1, <2>1
  <2> HIDE DEF e
  <2>3. Stream(s, e + 1) = Stream(s, e) \o d
    BY <1>2, <2>2, StreamGrows
  <2>4. a \in Seq(Bytes) /\ d \in Seq(Bytes)
    <3>1. a \in Seq(Bytes)
      BY <1>1
    <3>2. d \in Seq(Bytes)
      BY <2>2, PieceType
    <3> QED
      BY <3>1, <3>2
  <2>5. p \in Seq(Bytes) /\ Stream(s, e) = a \o p
    BY <2>1, <2>2 DEF Right
  <2>6. /\ SubSeq(s.items, j + 1, e) \in Seq(Seq(Bytes))
        /\ SubSeq(s.items, j + 1, e + 1) = Append(SubSeq(s.items, j + 1, e), d)
    <3> DEFINE Z == Seq(Bytes)
    <3>1. s.items \in Seq(Z)
      BY <1>2
    <3> HIDE DEF Z
    <3>2. /\ SubSeq(s.items, j + 1, (e + 1) - 1) \in Seq(Z)
          /\ SubSeq(s.items, j + 1, e + 1)
               = Append(SubSeq(s.items, j + 1, (e + 1) - 1), s.items[e + 1])
      BY <2>2, <3>1, PartGrows
    <3> QED
      BY <2>2, <3>2 DEF Z
  <2> HIDE DEF d
  <2>7. Part(s, j + 1, e + 1) = p \o d
    <3>1. FlattenSeq(Append(SubSeq(s.items, j + 1, e), d))
            = FlattenSeq(SubSeq(s.items, j + 1, e)) \o d
      BY <2>4, <2>6, FlattenAppend
    <3> QED
      BY <2>6, <3>1 DEF Part
  <2> HIDE DEF a, p
  <2>8. (a \o p) \o d = a \o (p \o d)
    BY <2>4, <2>5, Regroup
  <2>9. p \o d \in Seq(Bytes)
    BY <2>4, <2>5, Joined
  <2> QED
    BY <2>3, <2>5, <2>7, <2>8, <2>9 DEF Right, a
<1>5. S = Nat
  <2>1. S \in SUBSET Nat
    OBVIOUS
  <2> HIDE DEF S
  <2> QED
    BY <1>3, <1>4, <2>1, Induction
<1>6. \A i \in Nat : j + i <= N => Right(j + i)
  BY <1>5, Zenon
<1>7. Right(k)
  <2> DEFINE i == k - j
  <2>1. i \in Nat /\ j + i = k
    BY <1>1
  <2> HIDE DEF i, Right
  <2>2. j + i <= N => Right(j + i)
    BY <1>6, <2>1
  <2> QED
    BY <1>1, <2>1, <2>2
<1> QED
  BY <1>7

(* What follows the same beginning in the same sequence is the same.       *)
LEMMA Cancelled ==
  ASSUME NEW c \in Seq(Bytes), NEW u \in Seq(Bytes), NEW v \in Seq(Bytes),
         c \o u = c \o v
  PROVE  u = v
<1> DEFINE x == c \o u
           y == c \o v
           n == Len(c)
<1>1. n \in Nat /\ Len(u) \in Nat /\ Len(v) \in Nat
  OBVIOUS
<1>2. Len(x) = n + Len(u) /\ \A i \in 1 .. Len(u) : x[n + i] = u[i]
  OBVIOUS
<1>3. Len(y) = n + Len(v) /\ \A i \in 1 .. Len(v) : y[n + i] = v[i]
  OBVIOUS
<1>4. x = y
  OBVIOUS
<1> HIDE DEF x, y, n
<1>5. Len(u) = Len(v)
  BY <1>1, <1>2, <1>3, <1>4
<1>6. \A i \in 1 .. Len(u) : u[i] = v[i]
  BY <1>2, <1>3, <1>4, <1>5
<1> QED
  BY <1>5, <1>6, SeqEqual

(* What was handed on of the stream of datagrams ends with one of them, and*)
(* what is queued for the worker is some of them.                          *)
Messages(s) == s.plugin = "udp" /\ s.link = "udp" /\ s.msgs # <<>>
CutIn(s, c) == \E j \in 0 .. Len(s.items) : c = Stream(s, j)
QueuedIn(s, q) == \A i \in DOMAIN q : Together(s, q[i])
MessageInv == Messages(scene) => CutIn(scene, cut) /\ QueuedIn(scene, toWorker)

(* What lies between an end of a datagram and a later one.                 *)
LEMMA TogetherCut ==
  ASSUME NEW s \in Scenarios, Messages(s),
         NEW c \in Seq(Bytes), NEW u \in Seq(Bytes), u # <<>>,
         CutIn(s, c), CutIn(s, c \o u)
  PROVE  Together(s, u)
<1> DEFINE N == Len(s.items)
<1>1. s.link = "udp" /\ s.msgs # <<>>
  BY DEF Messages
<1>2. N \in Nat /\ \A i \in 0 .. N : Stream(s, i) \in Seq(Bytes)
  BY StreamType
<1>3. PICK j \in 0 .. N : c = Stream(s, j)
  BY DEF CutIn
<1>4. PICK k \in 0 .. N : c \o u = Stream(s, k)
  BY DEF CutIn
<1> HIDE DEF N
<1>5. j < k
  <2> SUFFICES ASSUME ~(j < k) PROVE FALSE
    OBVIOUS
  <2>1. j \in k .. N
    BY <1>2
  <2>2. Len(Stream(s, k)) <= Len(Stream(s, j))
    BY <2>1, StreamLengths DEF N
  <2>3. Len(c \o u) = Len(c) + Len(u) /\ Len(c) \in Nat /\ Len(u) \in Nat
    BY Joined
  <2>4. Len(u) # 0
    BY EmptySeq
  <2> QED
    BY <1>3, <1>4, <2>2, <2>3, <2>4
<1>6. k \in j .. N /\ j + 1 \in 1 .. N /\ k \in j + 1 .. N
  BY <1>2, <1>5
<1>7. Part(s, j + 1, k) \in Seq(Bytes) /\ c \o u = c \o Part(s, j + 1, k)
  BY <1>1, <1>3, <1>4, <1>6, StreamParts DEF N
<1>8. u = Part(s, j + 1, k)
  <2> DEFINE v == Part(s, j + 1, k)
  <2>1. v \in Seq(Bytes)
    BY <1>7
  <2>2. c \o u = c \o v
    BY <1>7
  <2> HIDE DEF v
  <2>3. u = v
    BY <2>1, <2>2, Cancelled
  <2> QED
    BY <2>3 DEF v
<1> QED
  BY <1>6, <1>8 DEF Together, N

LEMMA MessageProcess ==
  ASSUME IInv, NetInv, RequestInv, MessageInv, ProcessData PROVE MessageInv'
<1>1. PICK s \in Scenarios, c \in Seq(Bytes), u \in Seq(Bytes), q \in Seq(Seq(Bytes)) :
        s = scene /\ c = cut /\ u = Readable(wCache) /\ q = toWorker
  BY StreamTypes DEF IInv, TypeOK
<1>2. Len(u) = wCache.w - wCache.r
  BY <1>1, StreamTypes
<1>3. scene' = s
  BY <1>1 DEF ProcessData
<1> SUFFICES ASSUME Messages(s) PROVE CutIn(s, cut') /\ QueuedIn(s, toWorker')
  BY <1>3 DEF MessageInv
<1>4. CutIn(s, c) /\ QueuedIn(s, q)
  BY <1>1 DEF MessageInv
<1>5. s.plugin = "udp" /\ s.link = "udp"
  BY DEF Messages
<1>6. CutIn(s, c \o u)
  <2>1. c \o u = read
    BY <1>1 DEF RequestInv, Conserved
  <2>2. UdpAt(s, unsent, arrived, read)
    BY <1>1, <1>5 DEF NetInv, UdpFlow, IsTcp
  <2>3. /\ Len(s.items) \in Nat /\ Len(unsent) \in Nat /\ Len(arrived) \in Nat
    <3>1. unsent \in Seq(Seq(Bytes)) /\ arrived \in Seq(Seq(Bytes))
      BY DEF IInv, TypeOK
    <3> QED
      BY <3>1, StreamType
  <2> DEFINE j == Len(s.items) - Len(unsent) - Len(arrived)
  <2>4. j \in 0 .. Len(s.items) /\ read = Stream(s, j)
    BY <2>2, <2>3 DEF UdpAt
  <2> HIDE DEF j
  <2> QED
    BY <2>1, <2>4 DEF CutIn
<1> DEFINE n == HandleInput(wCache)
<1>7. IF n > 0
      THEN /\ toWorker' \in {Append(q, SubSeq(u, 1, n)), q}
           /\ cut' = c \o SubSeq(u, 1, n)
      ELSE toWorker' = q /\ cut' = c
  BY <1>1 DEF ProcessData
<1>8. n = Len(u) /\ Len(u) \in Nat
  BY <1>1, <1>2, <1>5 DEF HandleInput
<1> HIDE DEF n
<1>9. CASE n > 0
  <2>1. SubSeq(u, 1, n) = u
    BY <1>8, SubSeqFull
  <2>2. toWorker' \in {Append(q, u), q} /\ cut' = c \o u
    BY <1>7, <1>9, <2>1
  <2>3. u # <<>>
    BY <1>8, <1>9
  <2>4. Together(s, u)
    BY <1>4, <1>6, <2>3, TogetherCut
  <2>5. QueuedIn(s, Append(q, u))
    BY <1>4, <2>4, AppendElements DEF QueuedIn
  <2> QED
    BY <1>4, <1>6, <2>2, <2>5
<1>10. CASE ~(n > 0)
  BY <1>4, <1>7, <1>10
<1> QED
  BY <1>9, <1>10

LEMMA MessageStep ==
  ASSUME IInv, NetInv, RequestInv, MessageInv, [Next]_vars PROVE MessageInv'
<1>1. CASE ProcessData
  BY <1>1, MessageProcess
<1>2. CASE WorkerProcess
  <2>1. PICK q \in Seq(Seq(Bytes)) : q = toWorker
    BY DEF IInv, TypeOK
  <2>2. q # <<>> /\ toWorker' = Tail(q) /\ UNCHANGED <<scene, cut>>
    BY <1>2, <2>1 DEF WorkerProcess, requests
  <2>3. \A i \in DOMAIN Tail(q) : i + 1 \in DOMAIN q /\ Tail(q)[i] = q[i + 1]
    BY <2>2, TailElements
  <2>4. ASSUME NEW s, QueuedIn(s, q) PROVE QueuedIn(s, Tail(q))
    BY <2>3, <2>4 DEF QueuedIn
  <2> QED
    BY <2>1, <2>2, <2>4 DEF MessageInv
<1>3. CASE ~ProcessData /\ ~WorkerProcess
  <2>1. UNCHANGED <<scene, cut, toWorker>>
    <3>1. CASE SendBytes \/ SendDatagram \/ CloseClient \/ Abort \/ Reset
      BY <3>1 DEF SendBytes, SendDatagram, CloseClient, Abort, Reset, requests
    <3>2. CASE RecvData \/ RecvEnd
      BY <3>2 DEF RecvData, RecvEnd, requests
    <3>3. CASE SentResponseCache \/ OutputNotify
      BY <3>3 DEF SentResponseCache, OutputNotify, requests
    <3>4. CASE UNCHANGED vars
      BY <3>4 DEF vars
    <3> QED
      BY <1>3, <3>1, <3>2, <3>3, <3>4 DEF Next
  <2> QED
    BY <2>1 DEF MessageInv
<1> QED
  BY <1>1, <1>2, <1>3

LEMMA MessageInit == Init => MessageInv
<1> SUFFICES ASSUME Init PROVE MessageInv
  OBVIOUS
<1>1. scene \in Scenarios /\ cut = <<>> /\ toWorker = <<>>
  BY DEF Init
<1>2. CutIn(scene, <<>>)
  <2>1. Len(scene.items) \in Nat /\ Stream(scene, 0) = <<>>
    BY <1>1, StreamType
  <2>2. 0 \in 0 .. Len(scene.items)
    BY <2>1
  <2> QED
    BY <2>1, <2>2 DEF CutIn
<1>3. QueuedIn(scene, <<>>)
  BY DEF QueuedIn
<1> QED
  BY <1>1, <1>2, <1>3 DEF MessageInv

(* Some datagrams parsed as one message.                                   *)
LEMMA TogetherMerged ==
  ASSUME NEW s \in Scenarios, s.msgs # <<>>, NEW a \in 1 .. Len(s.items),
         NEW b \in a .. Len(s.items)
  PROVE  LET m == FoldLeft(MergeFrom, NewMsg, SubSeq(s.msgs, a, b))
         IN  ParseFromArray(Part(s, a, b)) = [msg |-> m, ok |-> IsInitialized(m)]
<1> DEFINE p == Parsed(Part(s, a, b))
           m == FoldLeft(MergeFrom, NewMsg, SubSeq(s.msgs, a, b))
<1>1. s.items \in Seq(Seq(Bytes)) /\ Encode(s.items, s.msgs)
  BY EncodedItems
<1>2. p.at = "tag" /\ p.msg = FoldOf("merge", NewMsg, SubSeq(s.msgs, a, b))
  BY <1>1, DatagramsParse DEF Part
<1>3. p.msg = m
  BY <1>2 DEF FoldOf
<1>4. ParseFromArray(Part(s, a, b))
        = [msg |-> p.msg, ok |-> p.at = "tag" /\ IsInitialized(p.msg)]
  BY DEF ParseFromArray, Parsed, FoldOf
<1> HIDE DEF p, m
<1>5. ParseFromArray(Part(s, a, b)) = [msg |-> m, ok |-> IsInitialized(m)]
  <2>1. (p.at = "tag" /\ IsInitialized(m)) = IsInitialized(m)
    <3>1. IsInitialized(m) \in BOOLEAN
      BY DEF IsInitialized
    <3> QED
      BY <1>2, <3>1
  <2> QED
    BY <1>3, <1>4, <2>1
<1> QED
  BY <1>5 DEF m

(* However many datagrams were read at an event, and whatever was queued   *)
(* before, the worker gets whole datagrams that follow each other, and     *)
(* parses them as the merge of their messages.                             *)
THEOREM MergedRight == Spec => []DatagramsMerged
<1>0. IInv => scene.link \in {"tcp", "udp"}
  <2>1. IInv => scene \in Scenarios
    BY DEF IInv, TypeOK
  <2> QED
    BY <2>1, ConnectionAssumption
<1>1. IInv /\ MessageInv => DatagramsMerged
  <2> SUFFICES ASSUME IInv, MessageInv, Messages(scene),
                      NEW i \in DOMAIN toWorker
               PROVE  \E a \in DOMAIN scene.items : \E b \in a .. Len(scene.items) :
                        /\ toWorker[i] = FlattenSeq(SubSeq(scene.items, a, b))
                        /\ ParseFromArray(toWorker[i]) =
                             [msg |-> Merged(a, b), ok |-> IsInitialized(Merged(a, b))]
    BY <1>0 DEF DatagramsMerged, IsTcp, Messages
  <2>1. scene \in Scenarios /\ scene.msgs # <<>>
    BY DEF IInv, TypeOK, Messages
  <2>2. Together(scene, toWorker[i])
    BY DEF MessageInv, QueuedIn
  <2>3. PICK a \in 1 .. Len(scene.items) : \E b \in a .. Len(scene.items) :
          toWorker[i] = Part(scene, a, b)
    BY <2>2 DEF Together
  <2>4. PICK b \in a .. Len(scene.items) : toWorker[i] = Part(scene, a, b)
    BY <2>3
  <2>5. ParseFromArray(Part(scene, a, b))
          = [msg |-> Merged(a, b), ok |-> IsInitialized(Merged(a, b))]
    BY <2>1, TogetherMerged DEF Merged
  <2>6. a \in DOMAIN scene.items
    <3>1. scene.items \in Seq(Seq(Bytes))
      BY <2>1, ConnectionAssumption
    <3> QED
      BY <3>1
  <2> QED
    BY <2>4, <2>5, <2>6 DEF Part
<1>2. IInv /\ NetInv /\ [Next]_vars => NetInv'
  BY NetStep
<1>3. IInv /\ NetInv /\ RequestInv /\ MessageInv /\ [Next]_vars => MessageInv'
  BY MessageStep
<1> QED
  BY <1>1, <1>2, <1>3, NetInit, MessageInit, InvAlways, RequestsAlways, PTL DEF Spec
=============================================================================

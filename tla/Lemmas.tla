------------------------------- MODULE Lemmas -------------------------------
(***************************************************************************)
(* What the proofs share: arithmetic modulo a positive number, as the      *)
(* indices and the counters of the ring use it, induction, and sequences   *)
(* put end to end.                                                         *)
(***************************************************************************)
EXTENDS Integers, Sequences, SequencesExt, WellFoundedInduction, TLAPS

-----------------------------------------------------------------------------
(* Remainders.                                                             *)

(* A remainder lies below its modulus and completes a multiple of it.      *)
LEMMA ModDef ==
  ASSUME NEW B \in Nat \ {0}, NEW a \in Int
  PROVE  /\ a % B \in 0 .. B - 1
         /\ a \div B \in Int
         /\ a = B * (a \div B) + (a % B)
  BY SMT

(* A number below the modulus is its own remainder.                        *)
LEMMA ModBelow ==
  ASSUME NEW B \in Nat \ {0}, NEW a \in 0 .. B - 1
  PROVE  a % B = a
  BY SMT

(* Moving a position of a ring forward by at most one turn wraps at most   *)
(* once: the quotient grows by zero or one.                                *)
LEMMA ModShift ==
  ASSUME NEW B \in Nat \ {0}, NEW a \in Int, NEW d \in 0 .. B
  PROVE  (a + d) % B = IF (a % B) + d < B THEN (a % B) + d ELSE (a % B) + d - B
<1> DEFINE q == a \div B
           r == a % B
           p == (a + d) \div B
           s == (a + d) % B
           e == p - q
<1>1. /\ r \in 0 .. B - 1 /\ q \in Int /\ a = B * q + r
      /\ s \in 0 .. B - 1 /\ p \in Int /\ a + d = B * p + s
  <2>1. a + d \in Int
    OBVIOUS
  <2> HIDE DEF q, r, p, s
  <2>2. r \in 0 .. B - 1 /\ q \in Int /\ a = B * q + r
    BY ModDef DEF q, r
  <2>3. s \in 0 .. B - 1 /\ p \in Int /\ a + d = B * p + s
    BY <2>1, ModDef DEF p, s
  <2> QED
    BY <2>2, <2>3
<1> HIDE DEF q, r, p, s
<1>2. e \in Int /\ B * e = r + d - s
  BY <1>1, SMT
<1> HIDE DEF e
<1>3. \A k \in Nat : k >= 1 => B * k >= B
  BY SMT
<1>4. e # -1 /\ ~(e < -1)
  <2>1. SUFFICES ASSUME -e >= 1 PROVE FALSE
    BY <1>2, SMT
  <2>2. B * (-e) >= B
    BY <1>2, <1>3, <2>1, SMT
  <2>3. B * (-e) = -(B * e)
    BY <1>2, SMT
  <2> QED
    BY <1>1, <1>2, <2>2, <2>3, SMT
<1>5. ~(e >= 2)
  <2>1. SUFFICES ASSUME e - 1 >= 1 PROVE FALSE
    BY <1>2, SMT
  <2>2. B * (e - 1) >= B
    BY <1>2, <1>3, <2>1, SMT
  <2>3. B * (e - 1) = B * e - B
    BY <1>2, SMT
  <2> QED
    BY <1>1, <1>2, <2>2, <2>3, SMT
<1>6. e = 0 \/ e = 1
  BY <1>2, <1>4, <1>5, SMT
<1>7. s = r + d \/ s = r + d - B
  BY <1>1, <1>2, <1>6, SMT
<1> QED
  BY <1>1, <1>7, SMT DEF s, r

(* Two positions less than one turn apart are different cells.             *)
LEMMA ModWindow ==
  ASSUME NEW B \in Nat \ {0}, NEW a \in Int, NEW b \in Int,
         a < b, b - a < B
  PROVE  a % B # b % B
<1> DEFINE d == b - a
<1>1. d \in 1 .. B - 1 /\ d \in 0 .. B /\ b = a + d
  BY SMT
<1> HIDE DEF d
<1>2. (a + d) % B = IF (a % B) + d < B THEN (a % B) + d ELSE (a % B) + d - B
  BY <1>1, ModShift
<1>3. a % B \in 0 .. B - 1
  BY ModDef
<1> QED
  BY <1>1, <1>2, <1>3, SMT

-----------------------------------------------------------------------------
(* Induction, for a set of numbers.                                        *)
LEMMA LeastOf ==
  ASSUME NEW T \in SUBSET Nat, T # {}
  PROVE  \E x \in T : \A y \in T : x <= y
<1> DEFINE R == OpToRel(<, Nat)
<1>1. IsWellFoundedOn(R, Nat)
  BY NatLessThanWellFounded
<1>2. \A x, y \in T : y < x => <<y, x>> \in R
  BY DEF OpToRel
<1> HIDE DEF R
<1>3. PICK x \in T : \A y \in T : <<y, x>> \notin R
  BY <1>1, WFMin
<1>4. \A y \in T : ~(y < x)
  BY <1>2, <1>3
<1>5. \A a, b \in Nat : ~(b < a) => a <= b
  OBVIOUS
<1> QED
  BY <1>4, <1>5

LEMMA Induction ==
  ASSUME NEW S \in SUBSET Nat, 0 \in S, \A n \in S : n + 1 \in S
  PROVE  S = Nat
<1> DEFINE T == Nat \ S
<1> SUFFICES ASSUME T # {} PROVE FALSE
  OBVIOUS
<1>1. T \in SUBSET Nat
  OBVIOUS
<1> HIDE DEF T
<1>2. PICK x \in T : \A y \in T : x <= y
  BY <1>1, LeastOf
<1>3. x \in Nat /\ x # 0 /\ x \notin S
  BY DEF T
<1>4. x - 1 \in Nat /\ x - 1 \notin T
  BY <1>2, <1>3
<1> QED
  BY <1>3, <1>4 DEF T

-----------------------------------------------------------------------------
(* Sequences put end to end.                                               *)
Once(p) == \A i, j \in DOMAIN p : p[i] = p[j] => i = j

LEMMA Concatenated ==
  ASSUME NEW T, NEW p \in Seq(T), NEW r \in Seq(T)
  PROVE  /\ p \o r \in Seq(T) /\ ToSet(p \o r) = ToSet(p) \cup ToSet(r)
         /\ Once(p) /\ Once(r) /\ ToSet(p) \cap ToSet(r) = {} => Once(p \o r)
<1> DEFINE q == p \o r
           n == Len(p)
<1>1. /\ q \in Seq(T) /\ n \in Nat /\ Len(r) \in Nat
      /\ DOMAIN p = 1 .. n /\ DOMAIN r = 1 .. Len(r)
      /\ DOMAIN q = 1 .. n + Len(r)
  OBVIOUS
<1>2. \A i \in DOMAIN p : i \in DOMAIN q /\ q[i] = p[i]
  BY <1>1
<1>3. \A i \in DOMAIN r : n + i \in DOMAIN q /\ q[n + i] = r[i]
  BY <1>1
<1>4. \A i \in DOMAIN q : i \notin DOMAIN p => i - n \in DOMAIN r /\ q[i] = r[i - n]
  BY <1>1
<1> HIDE DEF q
<1>5. ToSet(p) \cup ToSet(r) \subseteq ToSet(q)
  BY <1>2, <1>3 DEF ToSet
<1>6. ToSet(q) \subseteq ToSet(p) \cup ToSet(r)
  <2> SUFFICES ASSUME NEW i \in DOMAIN q PROVE q[i] \in ToSet(p) \cup ToSet(r)
    BY DEF ToSet
  <2> QED
    BY <1>2, <1>4 DEF ToSet
<1>7. ASSUME Once(p), Once(r), ToSet(p) \cap ToSet(r) = {} PROVE Once(q)
  <2> SUFFICES ASSUME NEW i \in DOMAIN q, NEW j \in DOMAIN q, q[i] = q[j]
               PROVE  i = j
    BY DEF Once
  <2>1. CASE i \in DOMAIN p /\ j \in DOMAIN p
    BY <1>2, <1>7, <2>1 DEF Once
  <2>2. CASE i \notin DOMAIN p /\ j \notin DOMAIN p
    <3>1. i - n = j - n
      BY <1>4, <1>7, <2>2 DEF Once
    <3> QED
      BY <1>1, <3>1
  <2>3. \A a \in DOMAIN p : \A b \in DOMAIN r : p[a] # r[b]
    BY <1>7 DEF ToSet
  <2> QED
    BY <1>2, <1>4, <2>1, <2>2, <2>3
<1> QED
  BY <1>1, <1>5, <1>6, <1>7 DEF q

LEMMA Flattening ==
  ASSUME NEW T, NEW s \in Seq(Seq(T)), s # <<>>
  PROVE  \E f : /\ FlattenSeq(s) = f[Len(s)] /\ f[1] = s[1]
                /\ \A i \in 1 .. Len(s) : i # 1 => f[i] = f[i - 1] \o s[i]
<1> DEFINE N == Len(s)
           Next1(f, i) == IF i = 1 THEN s[i] ELSE f[i-1] \o s[i]
           Sums(f, n) == f = [i \in 1 .. n |-> Next1(f, i)]
           S == {n \in Nat : \E f : Sums(f, n)}
<1>1. N \in Nat /\ N # 0 /\ 1 \in 1 .. N
  OBVIOUS
<1>2. \A n, f : Sums(f, n) => \A i \in 1 .. n : f[i] = Next1(f, i)
  <2> SUFFICES ASSUME NEW n, NEW f, Sums(f, n), NEW i \in 1 .. n
               PROVE  f[i] = Next1(f, i)
    OBVIOUS
  <2> DEFINE g == [j \in 1 .. n |-> Next1(f, j)]
  <2>1. g[i] = Next1(f, i)
    BY Zenon
  <2>2. f = g
    BY Zenon
  <2> HIDE DEF g, Next1
  <2> QED
    BY <2>1, <2>2
<1>3. 0 \in S
  <2> DEFINE f == [i \in 1 .. 0 |-> s[i]]
  <2>1. Sums(f, 0)
    OBVIOUS
  <2> QED
    BY <2>1
<1>4. ASSUME NEW n \in S PROVE n + 1 \in S
  <2>1. n \in Nat /\ \E f : Sums(f, n)
    OBVIOUS
  <2>2. PICK f : Sums(f, n)
    BY <2>1
  <2> DEFINE h == [i \in 1 .. n + 1 |-> Next1(f, i)]
  <2>3. \A i \in 1 .. n + 1 : h[i] = Next1(f, i)
    OBVIOUS
  <2>4. \A i \in 1 .. n : f[i] = Next1(f, i)
    BY <1>2, <2>2, Zenon
  <2>5. \A i \in 1 .. n : h[i] = f[i]
    <3>1. \A i \in 1 .. n : i \in 1 .. n + 1
      BY <2>1
    <3> HIDE DEF h, Next1
    <3> QED
      BY <2>3, <2>4, <3>1
  <2>6. \A i \in 1 .. n + 1 : i # 1 => i - 1 \in 1 .. n
    BY <2>1
  <2> HIDE DEF h
  <2>7. \A i \in 1 .. n + 1 : Next1(f, i) = Next1(h, i)
    BY <2>5, <2>6
  <2> HIDE DEF Next1
  <2>8. h = [i \in 1 .. n + 1 |-> Next1(h, i)]
    BY <2>7, Zenon DEF h
  <2>9. n + 1 \in Nat
    BY <2>1
  <2>10. Sums(h, n + 1)
    BY <2>8, Zenon
  <2> HIDE DEF Sums
  <2> QED
    BY <2>9, <2>10
<1>5. S = Nat
  <2>1. S \in SUBSET Nat
    OBVIOUS
  <2> HIDE DEF S
  <2> QED
    BY <1>3, <1>4, <2>1, Induction
<1>6. \E f : Sums(f, N)
  BY <1>1, <1>5
<1> DEFINE f == CHOOSE f : Sums(f, N)
<1>7. Sums(f, N)
  BY <1>6
<1>8. FlattenSeq(s) = f[N]
  BY <1>1 DEF FlattenSeq
<1> HIDE DEF f
<1>9. \A i \in 1 .. N : f[i] = Next1(f, i)
  BY <1>2, <1>7
<1>10. f[1] = s[1] /\ \A i \in 1 .. N : i # 1 => f[i] = f[i - 1] \o s[i]
  BY <1>1, <1>9
<1> QED
  BY <1>8, <1>10

LEMMA Flattened ==
  ASSUME NEW T, NEW s \in Seq(Seq(T))
  PROVE  /\ FlattenSeq(s) \in Seq(T)
         /\ \A x : x \in ToSet(FlattenSeq(s)) <=> \E i \in DOMAIN s : x \in ToSet(s[i])
         /\ /\ \A i \in DOMAIN s : Once(s[i])
            /\ \A i, j \in DOMAIN s : i # j => ToSet(s[i]) \cap ToSet(s[j]) = {}
            => Once(FlattenSeq(s))
<1>1. CASE s = <<>>
  BY <1>1 DEF FlattenSeq, ToSet, Once
<1>2. CASE s # <<>>
  <2> DEFINE N == Len(s)
  <2>1. PICK f : /\ FlattenSeq(s) = f[N] /\ f[1] = s[1]
                 /\ \A i \in 1 .. N : i # 1 => f[i] = f[i - 1] \o s[i]
    BY <1>2, Flattening
  <2>2. N \in Nat /\ N # 0 /\ DOMAIN s = 1 .. N /\ \A i \in 1 .. N : s[i] \in Seq(T)
    BY <1>2
  <2> DEFINE Apart == \A i, j \in 1 .. N : i # j => ToSet(s[i]) \cap ToSet(s[j]) = {}
             Whole(i) ==
               /\ f[i] \in Seq(T)
               /\ \A x : x \in ToSet(f[i]) <=> \E j \in 1 .. i : x \in ToSet(s[j])
               /\ (\A j \in 1 .. N : Once(s[j])) /\ Apart => Once(f[i])
             S == {n \in Nat : n + 1 \in 1 .. N => Whole(n + 1)}
  <2> HIDE DEF N
  <2>3. 0 \in S
    <3>1. Whole(1)
      <4>1. 1 \in 1 .. N /\ 1 .. 1 = {1}
        BY <2>2
      <4> QED
        BY <2>1, <2>2, <4>1
    <3>2. 0 + 1 = 1 /\ 0 \in Nat
      OBVIOUS
    <3> HIDE DEF Whole
    <3> QED
      BY <3>1, <3>2
  <2>4. ASSUME NEW n \in S PROVE n + 1 \in S
    <3>1. n \in Nat /\ n + 1 \in Nat
      OBVIOUS
    <3> SUFFICES ASSUME n + 2 \in 1 .. N PROVE Whole(n + 2)
      <4>1. (n + 1) + 1 = n + 2
        BY <3>1
      <4> HIDE DEF Whole
      <4> QED
        BY <3>1, <4>1
    <3>2. n + 1 \in 1 .. N /\ n + 2 # 1 /\ (n + 2) - 1 = n + 1
      BY <2>2, <3>1, SMTT(20)
    <3>3. Whole(n + 1)
      <4> HIDE DEF Whole
      <4> QED
        BY <3>2
    <3> DEFINE p == f[n + 1]
               r == s[n + 2]
    <3>4. f[n + 2] = p \o r /\ p \in Seq(T) /\ r \in Seq(T)
      BY <2>1, <2>2, <3>2, <3>3
    <3>5. \A j : j \in 1 .. n + 2 <=> j \in 1 .. n + 1 \/ j = n + 2
      BY <3>1
    <3>6. \A x : x \in ToSet(p) <=> \E j \in 1 .. n + 1 : x \in ToSet(s[j])
      BY <3>3
    <3>7. (\A j \in 1 .. N : Once(s[j])) /\ Apart => Once(p)
      BY <3>3
    <3>8. Apart => ToSet(p) \cap ToSet(r) = {}
      <4>1. \A j \in 1 .. n + 1 : j \in 1 .. N /\ j # n + 2
        BY <2>2, <3>1, <3>2
      <4> SUFFICES ASSUME Apart, NEW x \in ToSet(p), x \in ToSet(r) PROVE FALSE
        OBVIOUS
      <4>2. PICK j \in 1 .. n + 1 : x \in ToSet(s[j])
        BY <3>6
      <4>3. ToSet(s[j]) \cap ToSet(s[n + 2]) = {}
        BY <4>1
      <4> QED
        BY <4>2, <4>3
    <3>9. (\A j \in 1 .. N : Once(s[j])) => Once(r)
      OBVIOUS
    <3> HIDE DEF p, r, Apart
    <3>10. /\ p \o r \in Seq(T) /\ ToSet(p \o r) = ToSet(p) \cup ToSet(r)
           /\ Once(p) /\ Once(r) /\ ToSet(p) \cap ToSet(r) = {} => Once(p \o r)
      BY <3>4, Concatenated
    <3>11. \A x : x \in ToSet(p \o r) <=> \E j \in 1 .. n + 2 : x \in ToSet(s[j])
      BY <3>5, <3>6, <3>10 DEF r
    <3> QED
      BY <3>4, <3>7, <3>8, <3>9, <3>10, <3>11
  <2>5. S = Nat
    <3>1. S \in SUBSET Nat
      OBVIOUS
    <3> HIDE DEF S
    <3> QED
      BY <2>3, <2>4, <3>1, Induction
  <2>6. Whole(N)
    <3>1. N - 1 \in Nat /\ (N - 1) + 1 = N /\ N \in 1 .. N
      BY <2>2
    <3> HIDE DEF Whole
    <3> QED
      BY <2>5, <3>1
  <2> QED
    BY <2>1, <2>2, <2>6 DEF N
<1> QED
  BY <1>1, <1>2

(* What is put behind the others comes out behind them.                    *)
LEMMA FlattenAppend ==
  ASSUME NEW T, NEW s \in Seq(Seq(T)), NEW e \in Seq(T)
  PROVE  FlattenSeq(Append(s, e)) = FlattenSeq(s) \o e
<1> DEFINE t == Append(s, e)
           N == Len(s)
<1>1. /\ t \in Seq(Seq(T)) /\ Len(t) = N + 1 /\ t # <<>> /\ N \in Nat
      /\ t[N + 1] = e /\ \A i \in 1 .. N : t[i] = s[i]
  <2> DEFINE S == Seq(T)
  <2>1. e \in S /\ s \in Seq(S)
    OBVIOUS
  <2> HIDE DEF S
  <2>2. t \in Seq(S) /\ t # <<>> /\ N \in Nat
    BY <2>1, SMTT(20)
  <2>3. Len(t) = N + 1 /\ t[N + 1] = e
    BY <2>1
  <2>4. \A i \in 1 .. N : t[i] = s[i]
    BY <2>1
  <2> QED
    BY <2>2, <2>3, <2>4 DEF S
<1> HIDE DEF t
<1>2. PICK g : /\ FlattenSeq(t) = g[Len(t)] /\ g[1] = t[1]
               /\ \A i \in 1 .. Len(t) : i # 1 => g[i] = g[i - 1] \o t[i]
  BY <1>1, Flattening
<1>3. CASE s = <<>>
  <2>1. N = 0 /\ FlattenSeq(s) = <<>>
    BY <1>3 DEF FlattenSeq
  <2>2. FlattenSeq(t) = e
    BY <1>1, <1>2, <2>1
  <2> QED
    BY <2>1, <2>2 DEF t
<1>4. CASE s # <<>>
  <2>1. PICK f : /\ FlattenSeq(s) = f[N] /\ f[1] = s[1]
                 /\ \A i \in 1 .. N : i # 1 => f[i] = f[i - 1] \o s[i]
    BY <1>4, Flattening
  <2> DEFINE S == {n \in Nat : n + 1 \in 1 .. N => f[n + 1] = g[n + 1]}
  <2> HIDE DEF N
  <2>2. 0 \in S
    <3>1. 1 \in 1 .. N => f[1] = g[1]
      BY <1>1, <1>2, <2>1
    <3> QED
      BY <3>1
  <2>3. ASSUME NEW n \in S PROVE n + 1 \in S
    <3>1. n \in Nat /\ (n + 1 \in 1 .. N => f[n + 1] = g[n + 1])
      OBVIOUS
    <3> SUFFICES ASSUME n + 2 \in 1 .. N PROVE f[n + 2] = g[n + 2]
      BY <3>1
    <3>2. /\ n + 1 \in 1 .. N /\ n + 2 # 1 /\ (n + 2) - 1 = n + 1
          /\ n + 2 \in 1 .. N + 1
      BY <1>1, <3>1
    <3>3. f[n + 2] = f[n + 1] \o s[n + 2]
      BY <2>1, <3>2
    <3>4. g[n + 2] = g[n + 1] \o t[n + 2]
      BY <1>1, <1>2, <3>2
    <3> QED
      BY <1>1, <3>1, <3>2, <3>3, <3>4
  <2>4. S = Nat
    <3>1. S \in SUBSET Nat
      OBVIOUS
    <3> HIDE DEF S
    <3> QED
      BY <2>2, <2>3, <3>1, Induction
  <2>5. N \in 1 .. N
    BY <1>1, <1>4 DEF N
  <2>6. f[N] = g[N]
    <3>1. N - 1 \in Nat /\ (N - 1) + 1 = N
      BY <1>1, <2>5
    <3> QED
      BY <2>4, <2>5, <3>1
  <2>7. N + 1 \in 1 .. Len(t) /\ N + 1 # 1 /\ (N + 1) - 1 = N
    BY <1>1, <2>5
  <2>8. g[N + 1] = g[N] \o e
    BY <1>1, <1>2, <2>7
  <2> QED
    BY <1>1, <1>2, <2>1, <2>6, <2>8 DEF t
<1> QED
  BY <1>3, <1>4

(* A sequence that has the elements of one and then those of another.      *)
LEMMA IsConcat ==
  ASSUME NEW S, NEW x \in Seq(S), NEW u \in Seq(S), NEW s \in Seq(S),
         Len(x) = Len(u) + Len(s),
         \A i \in 1 .. Len(u) : x[i] = u[i],
         \A i \in 1 .. Len(s) : x[Len(u) + i] = s[i]
  PROVE  x = u \o s
<1> DEFINE y == u \o s
<1>1. y \in Seq(S) /\ Len(y) = Len(u) + Len(s)
  OBVIOUS
<1>2. ASSUME NEW i \in 1 .. Len(x)
      PROVE  x[i] = y[i]
  <2>1. CASE i <= Len(u)
    BY <2>1
  <2>2. CASE i > Len(u)
    <3>1. i - Len(u) \in 1 .. Len(s) /\ Len(u) + (i - Len(u)) = i
      BY <2>2
    <3>2. y[i] = s[i - Len(u)]
      BY <2>2, <3>1
    <3> QED
      BY <3>1, <3>2
  <2> QED
    BY <2>1, <2>2
<1> QED
  BY <1>1, <1>2

(* An element put behind two sequences is put behind the second one.       *)
Later(u, v, c) == Append(u \o v, c) = u \o Append(v, c)
LEMMA AppendAfter ==
  ASSUME NEW S, NEW u \in Seq(S), NEW v \in Seq(S), NEW c \in S
  PROVE  Later(u, v, c)
<1> DEFINE w == u \o v
           p == Append(w, c)
           r == Append(v, c)
           n == Len(u)
           k == Len(v)
<1>1. n \in Nat /\ k \in Nat
  OBVIOUS
<1>2. /\ w \in Seq(S) /\ Len(w) = n + k
      /\ \A i \in 1 .. n : w[i] = u[i]
      /\ \A i \in 1 .. k : w[n + i] = v[i]
  OBVIOUS
<1>3. /\ r \in Seq(S) /\ Len(r) = k + 1 /\ r[k + 1] = c
      /\ \A i \in 1 .. k : r[i] = v[i]
  OBVIOUS
<1> HIDE DEF w, r
<1>4. /\ p \in Seq(S) /\ Len(p) = Len(w) + 1 /\ p[Len(w) + 1] = c
      /\ \A i \in 1 .. Len(w) : p[i] = w[i]
  BY <1>2
<1> HIDE DEF p, n, k
<1>5. Len(p) = n + (k + 1) /\ p[n + (k + 1)] = c
  BY <1>1, <1>2, <1>4
<1>6. \A i \in 1 .. n : p[i] = u[i]
  BY <1>1, <1>2, <1>4
<1>7. \A i \in 1 .. k + 1 : p[n + i] = r[i]
  <2> SUFFICES ASSUME NEW i \in 1 .. k + 1 PROVE p[n + i] = r[i]
    OBVIOUS
  <2>1. CASE i = k + 1
    BY <1>3, <1>5, <2>1
  <2>2. CASE i # k + 1
    <3>1. i \in 1 .. k /\ n + i \in 1 .. n + k
      BY <1>1, <2>2
    <3> QED
      BY <1>2, <1>3, <1>4, <3>1
  <2> QED
    BY <2>1, <2>2
<1>8. Len(p) = Len(u) + Len(r)
  BY <1>3, <1>5 DEF n
<1>9. p = u \o r
  <2>1. p \in Seq(S)
    BY <1>4
  <2>2. r \in Seq(S)
    BY <1>3
  <2>3. \A i \in 1 .. Len(u) : p[i] = u[i]
    BY <1>6 DEF n
  <2>4. \A i \in 1 .. Len(r) : p[Len(u) + i] = r[i]
    BY <1>3, <1>7 DEF n
  <2> QED
    BY <1>8, <2>1, <2>2, <2>3, <2>4, IsConcat
<1> QED
  BY <1>9 DEF Later, p, w, r
=============================================================================

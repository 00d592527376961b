--------------------------- MODULE DemoMsgProofs ---------------------------
(***************************************************************************)
(* What the parser of DemoMsg makes of several messages that follow each   *)
(* other without a border: the merge of what it makes of each alone.       *)
(***************************************************************************)
EXTENDS DemoMsg, Lemmas, SequenceTheorems

-----------------------------------------------------------------------------
(* The folds with ParseStep and with MergeFrom.                            *)
Step(what, v, x) == IF what = "parse" THEN ParseStep(v, x) ELSE MergeFrom(v, x)
FoldOf(what, v, s) ==
  IF what = "parse" THEN FoldLeft(ParseStep, v, s) ELSE FoldLeft(MergeFrom, v, s)

(* The value of a fold at each set of positions.                           *)
Values(what, v, s, n, f) ==
  f = [T \in SUBSET (1 .. n) |->
         IF T = {} THEN v ELSE Step(what, f[T \ {Max(T)}], s[Max(T)])]

(* A fold is one of the functions that have those values.                  *)
LEMMA FoldOfValues ==
  ASSUME NEW what, NEW v, NEW s, NEW n, DOMAIN s = 1 .. n,
         \E f : Values(what, v, s, n, f)
  PROVE  \E f : Values(what, v, s, n, f) /\ FoldOf(what, v, s) = f[1 .. n]
<1>1. CASE what = "parse"
  <2> DEFINE P(f) == f = [T \in SUBSET (DOMAIN s) |->
         IF T = {} THEN v ELSE ParseStep(f[T \ {Max(T)}], s[Max(T)])]
  <2>1. \A f : Values(what, v, s, n, f) => P(f)
    BY <1>1 DEF Values, Step
  <2>2. \A f : P(f) => Values(what, v, s, n, f)
    BY <1>1 DEF Values, Step
  <2>3. FoldOf(what, v, s) = (CHOOSE f : P(f))[DOMAIN s]
    BY <1>1, Zenon DEF FoldOf, FoldLeft, MapThenFoldSet
  <2> HIDE DEF P
  <2> QED
    BY <2>1, <2>2, <2>3
<1>2. CASE what # "parse"
  <2> DEFINE P(f) == f = [T \in SUBSET (DOMAIN s) |->
         IF T = {} THEN v ELSE MergeFrom(f[T \ {Max(T)}], s[Max(T)])]
  <2>1. \A f : Values(what, v, s, n, f) => P(f)
    BY <1>2 DEF Values, Step
  <2>2. \A f : P(f) => Values(what, v, s, n, f)
    BY <1>2 DEF Values, Step
  <2>3. FoldOf(what, v, s) = (CHOOSE f : P(f))[DOMAIN s]
    BY <1>2, Zenon DEF FoldOf, FoldLeft, MapThenFoldSet
  <2> HIDE DEF P
  <2> QED
    BY <2>1, <2>2, <2>3
<1> QED
  BY <1>1, <1>2

(* The largest of some of the first n numbers.                             *)
LEMMA Largest ==
  ASSUME NEW n \in Nat
  PROVE  \A T \in SUBSET (1 .. n) : T # {} => Max(T) \in T /\ \A y \in T : Max(T) >= y
<1> DEFINE Has(T) == \E x \in T : \A y \in T : x >= y
           S == {k \in Nat : \A T \in SUBSET (1 .. k) : T # {} => Has(T)}
<1>1. 0 \in S
  <2>1. \A T \in SUBSET (1 .. 0) : T = {}
    OBVIOUS
  <2> HIDE DEF Has
  <2> QED
    BY <2>1
<1>2. ASSUME NEW k \in S PROVE k + 1 \in S
  <2>1. k \in Nat /\ \A T \in SUBSET (1 .. k) : T # {} => Has(T)
    OBVIOUS
  <2>2. ASSUME NEW T \in SUBSET (1 .. k + 1), T # {} PROVE Has(T)
    <3>1. CASE k + 1 \in T
      BY <2>1, <3>1
    <3>2. CASE k + 1 \notin T
      <4>1. T \in SUBSET (1 .. k)
        BY <2>1, <3>2
      <4> QED
        BY <2>1, <2>2, <4>1
    <3> QED
      BY <3>1, <3>2
  <2> QED
    BY <2>1, <2>2
<1>3. S = Nat
  <2>1. S \in SUBSET Nat
    OBVIOUS
  <2> HIDE DEF S
  <2> QED
    BY <1>1, <1>2, <2>1, Induction
<1> SUFFICES ASSUME NEW T \in SUBSET (1 .. n), T # {}
             PROVE  Max(T) \in T /\ \A y \in T : Max(T) >= y
  OBVIOUS
<1>4. Has(T)
  BY <1>3
<1> QED
  BY <1>4 DEF Max

(* There is such a function, whatever is folded.                           *)
LEMMA ValuesExist ==
  ASSUME NEW what, NEW v, NEW s, NEW n \in Nat
  PROVE  \E f : Values(what, v, s, n, f)
<1> DEFINE S == {k \in Nat : \E f : Values(what, v, s, k, f)}
           At(f, T) == IF T = {} THEN v ELSE Step(what, f[T \ {Max(T)}], s[Max(T)])
<1>1. 0 \in S
  <2> DEFINE f == [T \in SUBSET (1 .. 0) |-> v]
  <2>1. \A T \in SUBSET (1 .. 0) : T = {}
    OBVIOUS
  <2>2. \A T \in SUBSET (1 .. 0) : At(f, T) = v
    BY <2>1
  <2>3. f = [T \in SUBSET (1 .. 0) |-> At(f, T)]
    <3> HIDE DEF At
    <3> QED
      BY <2>2
  <2> HIDE DEF f
  <2>4. Values(what, v, s, 0, f)
    BY <2>3, Zenon DEF Values
  <2> QED
    BY <2>4
<1>2. ASSUME NEW k \in S PROVE k + 1 \in S
  <2>1. k \in Nat /\ k + 1 \in Nat
    OBVIOUS
  <2>2. PICK f : Values(what, v, s, k, f)
    OBVIOUS
  <2> DEFINE D == SUBSET (1 .. k)
             E == SUBSET (1 .. k + 1)
             Below(T) == T \ {Max(T)}
             g == [T \in E |-> IF T \in D THEN f[T] ELSE At(f, T)]
  <2>3. D \subseteq E
    BY <2>1
  <2>4. \A T \in E : T # {} => Below(T) \in D
    <3> SUFFICES ASSUME NEW T \in E, T # {} PROVE Below(T) \in D
      OBVIOUS
    <3>1. Max(T) \in T /\ \A y \in T : Max(T) >= y
      BY <2>1, Largest
    <3>2. ASSUME NEW y \in T, y # Max(T) PROVE y \in 1 .. k
      <4> DEFINE m == Max(T)
      <4>1. y \in 1 .. k + 1 /\ m \in 1 .. k + 1 /\ m >= y /\ y # m
        BY <3>1, <3>2
      <4> HIDE DEF m
      <4> QED
        BY <2>1, <4>1
    <3> QED
      BY <3>2
  <2>5. \A T \in D : f[T] = At(f, T)
    <3>1. f = [T \in D |-> At(f, T)]
      BY <2>2, Zenon DEF Values
    <3> HIDE DEF At, D
    <3> QED
      BY <3>1
  <2>6. \A T \in E : g[T] = At(f, T)
    <3> HIDE DEF At, D, E
    <3> QED
      BY <2>5
  <2>7. \A T \in D : g[T] = f[T]
    <3> HIDE DEF At, D, E, g
    <3> QED
      BY <2>3, <2>5, <2>6
  <2>8. \A T \in E : At(f, T) = At(g, T)
    <3> HIDE DEF D, E, g
    <3> QED
      BY <2>4, <2>7
  <2>9. g = [T \in E |-> At(g, T)]
    <3>1. \A T \in E : (IF T \in D THEN f[T] ELSE At(f, T)) = At(g, T)
      <4> HIDE DEF At, D, E, g
      <4> QED
        BY <2>5, <2>8
    <3>2. g = [T \in E |-> IF T \in D THEN f[T] ELSE At(f, T)]
      OBVIOUS
    <3> HIDE DEF At, D, E, g
    <3> QED
      BY <3>1, <3>2
  <2>10. Values(what, v, s, k + 1, g)
    <3> HIDE DEF g
    <3> QED
      BY <2>9, Zenon DEF Values
  <2> QED
    BY <2>1, <2>10
<1>3. S = Nat
  <2>1. S \in SUBSET Nat
    OBVIOUS
  <2> HIDE DEF S
  <2> QED
    BY <1>1, <1>2, <2>1, Induction
<1> QED
  BY <1>3

(* A fold of a sequence, as the values it passes through.                  *)
LEMMA Unfolded ==
  ASSUME NEW what, NEW v, NEW X, NEW s \in Seq(X)
  PROVE  \E h : /\ h[0] = v /\ h[Len(s)] = FoldOf(what, v, s)
               /\ \A i \in 1 .. Len(s) : h[i] = Step(what, h[i - 1], s[i])
<1> DEFINE n == Len(s)
<1>1. n \in Nat /\ DOMAIN s = 1 .. n
  OBVIOUS
<1> HIDE DEF n
<1>2. PICK f : Values(what, v, s, n, f) /\ FoldOf(what, v, s) = f[1 .. n]
  <2>1. \E f : Values(what, v, s, n, f)
    BY <1>1, ValuesExist
  <2> QED
    BY <1>1, <2>1, FoldOfValues
<1> DEFINE At(T) == IF T = {} THEN v ELSE Step(what, f[T \ {Max(T)}], s[Max(T)])
           h == [i \in 0 .. n |-> f[1 .. i]]
<1>3. \A T \in SUBSET (1 .. n) : f[T] = At(T)
  <2>1. f = [T \in SUBSET (1 .. n) |-> At(T)]
    BY <1>2, Zenon DEF Values
  <2> HIDE DEF At
  <2> QED
    BY <2>1
<1>4. ASSUME NEW i \in 1 .. n PROVE f[1 .. i] = Step(what, f[1 .. i - 1], s[i])
  <2> DEFINE T == 1 .. i
  <2>1. T # {} /\ T \in SUBSET (1 .. n) /\ i \in Nat /\ i \in T
    BY <1>1
  <2>2. Max(T) = i
    <3>1. Max(T) \in T /\ \A y \in T : Max(T) >= y
      BY <1>1, <2>1, Largest
    <3> QED
      BY <2>1, <3>1
  <2>3. T \ {i} = 1 .. i - 1
    BY <2>1
  <2> HIDE DEF T
  <2> QED
    BY <1>3, <2>1, <2>2, <2>3 DEF T
<1>5. f[1 .. 0] = v
  <2>1. 1 .. 0 = {} /\ {} \in SUBSET (1 .. n)
    OBVIOUS
  <2> QED
    BY <1>3, <2>1
<1>6. /\ h[0] = v /\ h[n] = FoldOf(what, v, s)
      /\ \A i \in 1 .. n : h[i] = Step(what, h[i - 1], s[i])
  <2>1. 0 \in 0 .. n /\ n \in 0 .. n /\ \A i \in 1 .. n : i \in 0 .. n /\ i - 1 \in 0 .. n
    BY <1>1
  <2> QED
    BY <1>2, <1>4, <1>5, <2>1
<1> HIDE DEF h
<1> QED
  BY <1>6 DEF n

(* A fold goes on where that of the beginning ended.                       *)
LEMMA FoldConcat ==
  ASSUME NEW what, NEW v, NEW X, NEW s \in Seq(X), NEW t \in Seq(X)
  PROVE  FoldOf(what, v, s \o t) = FoldOf(what, FoldOf(what, v, s), t)
<1> DEFINE u == s \o t
           w == FoldOf(what, v, s)
           n == Len(s)
           m == Len(t)
<1>1. /\ u \in Seq(X) /\ Len(u) = n + m /\ n \in Nat /\ m \in Nat
      /\ \A i \in 1 .. n : u[i] = s[i]
      /\ \A i \in 1 .. m : u[n + i] = t[i]
  OBVIOUS
<1> HIDE DEF u, w
<1>2. PICK h : /\ h[0] = v /\ h[Len(u)] = FoldOf(what, v, u)
               /\ \A i \in 1 .. Len(u) : h[i] = Step(what, h[i - 1], u[i])
  <2>1. u \in Seq(X)
    BY <1>1
  <2> QED
    BY <2>1, Unfolded
<1>3. PICK f : /\ f[0] = v /\ f[n] = FoldOf(what, v, s)
               /\ \A i \in 1 .. n : f[i] = Step(what, f[i - 1], s[i])
  BY Unfolded
<1>4. PICK g : /\ g[0] = w /\ g[m] = FoldOf(what, w, t)
               /\ \A i \in 1 .. m : g[i] = Step(what, g[i - 1], t[i])
  BY Unfolded, SMTT(20)
<1> HIDE DEF n, m
<1>5. h[n] = f[n]
  <2> DEFINE S == {i \in Nat : i <= n => h[i] = f[i]}
  <2>1. 0 \in S
    BY <1>2, <1>3
  <2>2. ASSUME NEW i \in S PROVE i + 1 \in S
    <3>1. i \in Nat /\ (i <= n => h[i] = f[i])
      OBVIOUS
    <3> SUFFICES ASSUME i + 1 <= n PROVE h[i + 1] = f[i + 1]
      BY <3>1
    <3>2. /\ i + 1 \in 1 .. n /\ i + 1 \in 1 .. Len(u) /\ (i + 1) - 1 = i /\ i <= n
      BY <1>1, <3>1
    <3>3. h[i + 1] = Step(what, h[i], u[i + 1])
      BY <1>2, <3>2
    <3>4. f[i + 1] = Step(what, f[i], s[i + 1])
      BY <1>3, <3>2
    <3> QED
      BY <1>1, <3>1, <3>2, <3>3, <3>4
  <2>3. S = Nat
    <3>1. S \in SUBSET Nat
      OBVIOUS
    <3> HIDE DEF S
    <3> QED
      BY <2>1, <2>2, <3>1, Induction
  <2> QED
    BY <1>1, <2>3
<1>6. h[n + m] = g[m]
  <2> DEFINE S == {i \in Nat : i <= m => h[n + i] = g[i]}
  <2>1. 0 \in S
    <3>1. n + 0 = n
      BY <1>1
    <3>2. h[n] = g[0]
      BY <1>3, <1>4, <1>5 DEF w
    <3> QED
      BY <3>1, <3>2
  <2>2. ASSUME NEW i \in S PROVE i + 1 \in S
    <3>1. i \in Nat /\ (i <= m => h[n + i] = g[i])
      OBVIOUS
    <3> SUFFICES ASSUME i + 1 <= m PROVE h[n + (i + 1)] = g[i + 1]
      BY <3>1
    <3>2. /\ i + 1 \in 1 .. m /\ n + (i + 1) \in 1 .. Len(u) /\ (i + 1) - 1 = i
          /\ (n + (i + 1)) - 1 = n + i /\ i <= m
      BY <1>1, <3>1
    <3>3. h[n + (i + 1)] = Step(what, h[n + i], u[n + (i + 1)])
      BY <1>2, <3>2
    <3>4. g[i + 1] = Step(what, g[i], t[i + 1])
      BY <1>4, <3>2
    <3> QED
      BY <1>1, <3>1, <3>2, <3>3, <3>4
  <2>3. S = Nat
    <3>1. S \in SUBSET Nat
      OBVIOUS
    <3> HIDE DEF S
    <3> QED
      BY <2>1, <2>2, <3>1, Induction
  <2>4. \A i \in Nat : i <= m => h[n + i] = g[i]
    BY <2>3, Zenon
  <2>5. m <= m
    BY <1>1
  <2> QED
    BY <1>1, <2>4, <2>5
<1> QED
  BY <1>1, <1>2, <1>4, <1>6 DEF u, w

(* The fold of one element, and of none.                                   *)
LEMMA FoldOne ==
  ASSUME NEW what, NEW v, NEW X, NEW x \in X
  PROVE  FoldOf(what, v, <<>>) = v /\ FoldOf(what, v, <<x>>) = Step(what, v, x)
<1>1. FoldOf(what, v, <<>>) = v
  <2> DEFINE e == <<>>
  <2>1. e \in Seq(X)
    OBVIOUS
  <2>2. Len(e) = 0
    OBVIOUS
  <2> HIDE DEF e
  <2>3. PICK h : /\ h[0] = v /\ h[Len(e)] = FoldOf(what, v, e)
                 /\ \A i \in 1 .. Len(e) : h[i] = Step(what, h[i - 1], e[i])
    BY <2>1, Unfolded
  <2> QED
    BY <2>2, <2>3 DEF e
<1>2. FoldOf(what, v, <<x>>) = Step(what, v, x)
  <2> DEFINE s == <<x>>
  <2>1. s \in Seq(X)
    OBVIOUS
  <2>2. Len(s) = 1 /\ s[1] = x /\ 1 - 1 = 0 /\ 1 \in 1 .. 1
    OBVIOUS
  <2> HIDE DEF s
  <2>3. PICK h : /\ h[0] = v /\ h[Len(s)] = FoldOf(what, v, s)
                 /\ \A i \in 1 .. Len(s) : h[i] = Step(what, h[i - 1], s[i])
    BY <2>1, Unfolded
  <2>4. h[1] = Step(what, h[1 - 1], s[1])
    BY <2>2, <2>3
  <2> QED
    BY <2>2, <2>3, <2>4 DEF s
<1> QED
  BY <1>1, <1>2

-----------------------------------------------------------------------------
(* The parser's state, field by field.                                     *)
Msg(h, t, s, u) == [has |-> h, type |-> t, str |-> s, unknown |-> u]
Parser(m, at, f, l, o) ==
  [msg |-> m, at |-> at, field |-> f, left |-> l, open |-> o]

LEMMA ParserFields ==
  ASSUME NEW m, NEW at, NEW f, NEW l, NEW o
  PROVE  LET p == Parser(m, at, f, l, o)
         IN  p.msg = m /\ p.at = at /\ p.field = f /\ p.left = l /\ p.open = o
BY DEF Parser

LEMMA ParserWith ==
  ASSUME NEW m, NEW at, NEW f, NEW l, NEW o, NEW x
  PROVE  LET p == Parser(m, at, f, l, o)
         IN  /\ [p EXCEPT !.msg = x] = Parser(x, at, f, l, o)
             /\ [p EXCEPT !.at = x] = Parser(m, x, f, l, o)
             /\ [p EXCEPT !.field = x] = Parser(m, at, x, l, o)
             /\ [p EXCEPT !.left = x] = Parser(m, at, f, x, o)
             /\ [p EXCEPT !.open = x] = Parser(m, at, f, l, x)
<1>1. [Parser(m, at, f, l, o) EXCEPT !.msg = x] = Parser(x, at, f, l, o)
  BY DEF Parser
<1>2. [Parser(m, at, f, l, o) EXCEPT !.at = x] = Parser(m, x, f, l, o)
  BY DEF Parser
<1>3. [Parser(m, at, f, l, o) EXCEPT !.field = x] = Parser(m, at, x, l, o)
  BY DEF Parser
<1>4. [Parser(m, at, f, l, o) EXCEPT !.left = x] = Parser(m, at, f, x, o)
  BY DEF Parser
<1>5. [Parser(m, at, f, l, o) EXCEPT !.open = x] = Parser(m, at, f, l, x)
  BY DEF Parser
<1> QED
  BY <1>1, <1>2, <1>3, <1>4, <1>5

(* Updates of two fields, and of a field of a field, one at a time.        *)
LEMMA Separately ==
  ASSUME NEW p, NEW x, NEW y, NEW z
  PROVE  /\ [p EXCEPT !.has = x, !.type = y] = [[p EXCEPT !.has = x] EXCEPT !.type = y]
         /\ [p EXCEPT !.at = x, !.field = y] = [[p EXCEPT !.at = x] EXCEPT !.field = y]
         /\ [p EXCEPT !.at = x, !.left = y] = [[p EXCEPT !.at = x] EXCEPT !.left = y]
         /\ [p EXCEPT !.at = x, !.open = y] = [[p EXCEPT !.at = x] EXCEPT !.open = y]
         /\ [p EXCEPT !.at = x, !.field = y, !.open = z]
              = [[[p EXCEPT !.at = x] EXCEPT !.field = y] EXCEPT !.open = z]
OBVIOUS

LEMMA Inside ==
  ASSUME NEW p, NEW x
  PROVE  /\ [p EXCEPT !.msg.has = x] = [p EXCEPT !.msg = [p.msg EXCEPT !.has = x]]
         /\ [p EXCEPT !.msg.unknown = x] = [p EXCEPT !.msg = [p.msg EXCEPT !.unknown = x]]
         /\ \A f : [p EXCEPT !.msg.str[f] = x] =
                     [p EXCEPT !.msg = [p.msg EXCEPT !.str = [p.msg.str EXCEPT ![f] = x]]]
OBVIOUS

(* The steps of the parser, field by field.                                *)
LEMMA SkippedIs ==
  ASSUME NEW h, NEW t, NEW s, NEW u, NEW at, NEW f, NEW l, NEW o, NEW c
  PROVE  Skipped(Parser(Msg(h, t, s, u), at, f, l, o), c)
           = Parser(Msg(h, t, s, Append(u, c)), at, f, l, o)
<1> DEFINE m == Msg(h, t, s, u)
           p == Parser(m, at, f, l, o)
           n == Msg(h, t, s, Append(u, c))
<1>1. m.unknown = u /\ [m EXCEPT !.unknown = Append(u, c)] = n
  <2>1. m.unknown = u
    BY DEF Msg
  <2>2. [m EXCEPT !.unknown = Append(u, c)] = n
    <3>1. \A z : [m EXCEPT !.unknown = z] = Msg(h, t, s, z)
      BY DEF Msg
    <3> QED
      BY <3>1, Zenon
  <2> QED
    BY <2>1, <2>2
<1> HIDE DEF m, n
<1>2. p.msg = m
  BY ParserFields
<1>3. [p EXCEPT !.msg = n] = Parser(n, at, f, l, o)
  BY DEF Parser
<1> HIDE DEF p
<1>4. [p EXCEPT !.msg.unknown = Append(u, c)] = [p EXCEPT !.msg = n]
  BY <1>1, <1>2, Inside
<1>5. Skipped(p, c) = [p EXCEPT !.msg.unknown = Append(u, c)]
  BY <1>1, <1>2 DEF Skipped
<1> QED
  BY <1>3, <1>4, <1>5 DEF p, m, n

AfterNum(h, t, s, u, f, l, o, c) ==
  IF f = 0 THEN Parser(Msg(h, t, s, Append(u, c)), Between(o), f, l, o)
  ELSE Parser(Msg(h \cup {MsgType}, c[2], s, u), Between(o), f, l, o)

LEMMA ReadNumIs ==
  ASSUME NEW h, NEW t, NEW s, NEW u, NEW at, NEW f, NEW l, NEW o, NEW c
  PROVE  ReadNum(Parser(Msg(h, t, s, u), at, f, l, o), c) = AfterNum(h, t, s, u, f, l, o, c)
<1> DEFINE m == Msg(h, t, s, u)
           p == Parser(m, at, f, l, o)
           n == Parser(m, Between(o), f, l, o)
           w == Msg(h \cup {MsgType}, c[2], s, u)
           k == Parser(Msg(h, t, s, Append(u, c)), Between(o), f, l, o)
<1>1. [p EXCEPT !.at = Between(o)] = n /\ p.field = f /\ p.open = o
  BY ParserFields, ParserWith
<1>2. Skipped(n, c) = k
  BY SkippedIs
<1>3. SetType(m, c[2]) = w
  <2>1. m.has = h /\ [m EXCEPT !.has = h \cup {MsgType}] = Msg(h \cup {MsgType}, t, s, u)
    <3>1. m.has = h
      BY DEF Msg
    <3>2. [m EXCEPT !.has = h \cup {MsgType}] = Msg(h \cup {MsgType}, t, s, u)
      BY DEF Msg
    <3> QED
      BY <3>1, <3>2
  <2>2. [Msg(h \cup {MsgType}, t, s, u) EXCEPT !.type = c[2]] = w
    BY DEF Msg
  <2> HIDE DEF m, w
  <2> QED
    BY <2>1, <2>2, Separately DEF SetType
<1>4. n.msg = m /\ [n EXCEPT !.msg = w] = Parser(w, Between(o), f, l, o)
  <2>1. n.msg = m
    BY DEF Parser
  <2>2. [n EXCEPT !.msg = w] = Parser(w, Between(o), f, l, o)
    BY DEF Parser
  <2> QED
    BY <2>1, <2>2
<1> HIDE DEF m, n, p, w, k
<1> QED
  BY <1>1, <1>2, <1>3, <1>4 DEF ReadNum, AfterNum, m, p, w, k

AfterLength(h, t, s, u, f, o, c) ==
  LET to == IF c[2] = 0 THEN Between(o) ELSE "chars"
  IN  IF f = 0 THEN Parser(Msg(h, t, s, Append(u, c)), to, f, c[2], o)
      ELSE Parser(Msg(h, t, [s EXCEPT ![f] = <<>>], u), to, f, c[2], o)

LEMMA ReadLengthIs ==
  ASSUME NEW h, NEW t, NEW s, NEW u, NEW at, NEW f, NEW l, NEW o, NEW c
  PROVE  ReadLength(Parser(Msg(h, t, s, u), at, f, l, o), c) = AfterLength(h, t, s, u, f, o, c)
<1> DEFINE m == Msg(h, t, s, u)
           p == Parser(m, at, f, l, o)
           to == IF c[2] = 0 THEN Between(o) ELSE "chars"
           n == Parser(m, to, f, c[2], o)
           w == Msg(h, t, [s EXCEPT ![f] = <<>>], u)
           k == Parser(Msg(h, t, s, Append(u, c)), to, f, c[2], o)
           d == c[2]
<1>a. p.open = o
  BY ParserFields
<1>0. ReadLength(p, c) =
        IF p.field = 0 THEN Skipped([p EXCEPT !.at = to, !.left = d], c)
        ELSE [[p EXCEPT !.at = to, !.left = d] EXCEPT !.msg.str[p.field] = <<>>]
  <2> HIDE DEF p
  <2> QED
    BY <1>a DEF ReadLength
<1> HIDE DEF to, d
<1>1. [p EXCEPT !.at = to, !.left = d] = n /\ p.field = f
  <2>1. [p EXCEPT !.at = to] = Parser(m, to, f, l, o) /\ p.field = f
    BY ParserFields, ParserWith
  <2>2. [Parser(m, to, f, l, o) EXCEPT !.left = d] = n
    BY DEF Parser, d
  <2> HIDE DEF p, n
  <2> QED
    BY <2>1, <2>2, Separately
<1>2. Skipped(n, c) = k
  BY SkippedIs DEF d
<1>3. m.str = s /\ [m EXCEPT !.str = [s EXCEPT ![f] = <<>>]] = w
  <2>1. m.str = s
    BY DEF Msg
  <2>2. [m EXCEPT !.str = [s EXCEPT ![f] = <<>>]] = w
    BY DEF Msg
  <2> QED
    BY <2>1, <2>2
<1> HIDE DEF m, w, k
<1>4. n.msg = m /\ [n EXCEPT !.msg = w] = Parser(w, to, f, d, o)
  <2>1. n.msg = m
    BY DEF Parser
  <2>2. [n EXCEPT !.msg = w] = Parser(w, to, f, d, o)
    BY DEF Parser, d
  <2> QED
    BY <2>1, <2>2
<1> HIDE DEF n
<1>5. [n EXCEPT !.msg.str[f] = <<>>] = Parser(w, to, f, d, o)
  BY <1>3, <1>4, Inside
<1> HIDE DEF p
<1> QED
  BY <1>0, <1>1, <1>2, <1>5 DEF AfterLength, m, p, w, k, to, d

AfterChar(h, t, s, u, f, l, o, c) ==
  LET to == IF l = 1 THEN Between(o) ELSE "chars"
  IN  IF f = 0 THEN Parser(Msg(h, t, s, Append(u, c)), to, f, l - 1, o)
      ELSE Parser(Msg(h, t, [s EXCEPT ![f] = Append(s[f], c[2])], u), to, f, l - 1, o)

LEMMA ReadCharIs ==
  ASSUME NEW h, NEW t, NEW s, NEW u, NEW at, NEW f, NEW l, NEW o, NEW c
  PROVE  ReadChar(Parser(Msg(h, t, s, u), at, f, l, o), c) = AfterChar(h, t, s, u, f, l, o, c)
<1> DEFINE m == Msg(h, t, s, u)
           p == Parser(m, at, f, l, o)
           to == IF l = 1 THEN Between(o) ELSE "chars"
           d == l - 1
           n == Parser(m, to, f, d, o)
           x == Append(s[f], c[2])
           w == Msg(h, t, [s EXCEPT ![f] = x], u)
           k == Parser(Msg(h, t, s, Append(u, c)), to, f, d, o)
           q == [p EXCEPT !.at = to, !.left = d]
<1>0. p.left = l /\ p.field = f /\ p.open = o
  BY ParserFields
<1>1. q = n
  <2> HIDE DEF to, d
  <2>1. [p EXCEPT !.at = to] = Parser(m, to, f, l, o)
    BY DEF Parser
  <2>2. [Parser(m, to, f, l, o) EXCEPT !.left = d] = n
    BY DEF Parser
  <2> HIDE DEF p, n
  <2> QED
    BY <2>1, <2>2, Separately
<1>2. ReadChar(p, c) =
        IF f = 0 THEN Skipped(q, c)
        ELSE [q EXCEPT !.msg.str[f] = Append(q.msg.str[f], c[2])]
  <2> HIDE DEF p
  <2> QED
    BY <1>0 DEF ReadChar
<1> HIDE DEF to, d
<1>3. Skipped(n, c) = k
  BY SkippedIs
<1>4. m.str = s /\ [m EXCEPT !.str = [s EXCEPT ![f] = x]] = w
  <2>1. m.str = s
    BY DEF Msg
  <2>2. [m EXCEPT !.str = [s EXCEPT ![f] = x]] = w
    <3>1. \A z : [m EXCEPT !.str = z] = Msg(h, t, z, u)
      BY DEF Msg
    <3> QED
      BY <3>1, Zenon
  <2> QED
    BY <2>1, <2>2
<1> HIDE DEF m, w, k, x
<1>5. n.msg = m /\ [n EXCEPT !.msg = w] = Parser(w, to, f, d, o)
  <2>1. n.msg = m
    BY DEF Parser
  <2>2. [n EXCEPT !.msg = w] = Parser(w, to, f, d, o)
    BY DEF Parser
  <2> QED
    BY <2>1, <2>2
<1> HIDE DEF n, q
<1>6. [n EXCEPT !.msg.str[f] = x] = Parser(w, to, f, d, o)
  BY <1>4, <1>5, Inside
<1>7. Append(n.msg.str[f], c[2]) = x
  BY <1>4, <1>5 DEF x
<1> HIDE DEF p
<1> QED
  BY <1>1, <1>2, <1>3, <1>6, <1>7 DEF AfterChar, m, p, w, k, to, d, x

(* A field that is skipped.                                                *)
Opened(o, c) == IF c[3] = StartGroup THEN Append(o, c[2]) ELSE o
AfterSkip(h, t, s, u, f, l, o, c) ==
  IF Refused(c) THEN Parser(Msg(h, t, s, u), "over", f, l, o)
  ELSE Parser(Msg(h, t, s, Append(u, c)), Place(c[3]), 0, l, Opened(o, c))

LEMMA SkipFieldIs ==
  ASSUME NEW h, NEW t, NEW s, NEW u, NEW at, NEW f, NEW l, NEW o, NEW c
  PROVE  SkipField(Parser(Msg(h, t, s, u), at, f, l, o), c)
           = AfterSkip(h, t, s, u, f, l, o, c)
<1> DEFINE m == Msg(h, t, s, u)
           p == Parser(m, at, f, l, o)
           to == Place(c[3])
           g == Opened(o, c)
           q == [p EXCEPT !.at = to, !.field = 0, !.open = g]
           n == Parser(m, to, 0, l, g)
           k == Parser(Msg(h, t, s, Append(u, c)), to, 0, l, g)
<1>1. p.open = o /\ [p EXCEPT !.at = "over"] = Parser(m, "over", f, l, o)
  BY ParserFields, ParserWith
<1>2. SkipField(p, c) = IF Refused(c) THEN [p EXCEPT !.at = "over"] ELSE Skipped(q, c)
  <2> HIDE DEF p
  <2> QED
    BY <1>1 DEF SkipField, Opened
<1> HIDE DEF to, g
<1>3. q = n
  <2>1. [p EXCEPT !.at = to] = Parser(m, to, f, l, o)
    BY ParserWith
  <2>2. [Parser(m, to, f, l, o) EXCEPT !.field = 0] = Parser(m, to, 0, l, o)
    BY DEF Parser
  <2>3. [Parser(m, to, 0, l, o) EXCEPT !.open = g] = n
    BY ParserWith
  <2> HIDE DEF p, n
  <2> QED
    BY <2>1, <2>2, <2>3, Separately
<1>4. Skipped(n, c) = k
  BY SkippedIs
<1> HIDE DEF m, n, p, q, k
<1> QED
  BY <1>1, <1>2, <1>3, <1>4 DEF AfterSkip, m, p, k, to, g

(* A field that is known.                                                  *)
Known(c) == c[2] \in Fields /\ WireOf(c[2]) = c[3]
AfterKnown(h, t, s, u, l, o, c) ==
  IF c[2] \in Strings THEN Parser(Msg(h \cup {c[2]}, t, s, u), Place(c[3]), c[2], l, o)
  ELSE Parser(Msg(h, t, s, u), Place(c[3]), c[2], l, o)

LEMMA ReadTagIs ==
  ASSUME NEW h, NEW t, NEW s, NEW u, NEW at, NEW f, NEW l, NEW o, NEW c
  PROVE  LET p == Parser(Msg(h, t, s, u), at, f, l, o)
         IN  ReadTag(p, c) = IF Known(c) THEN AfterKnown(h, t, s, u, l, o, c)
                             ELSE SkipField(p, c)
<1> DEFINE m == Msg(h, t, s, u)
           p == Parser(m, at, f, l, o)
           y == c[2]
           to == Place(c[3])
           q == [p EXCEPT !.at = to, !.field = y]
           n == Parser(m, to, y, l, o)
           w == Msg(h \cup {y}, t, s, u)
<1>1. ReadTag(p, c) =
        IF ~Known(c) THEN SkipField(p, c)
        ELSE IF y \in Strings THEN [q EXCEPT !.msg.has = q.msg.has \cup {y}]
        ELSE q
  <2> HIDE DEF p
  <2> QED
    BY DEF ReadTag, Known
<1> HIDE DEF to, y
<1>2. q = n
  <2>1. [p EXCEPT !.at = to] = Parser(m, to, f, l, o)
    BY ParserWith
  <2>2. [Parser(m, to, f, l, o) EXCEPT !.field = y] = n
    BY ParserWith
  <2> HIDE DEF p, n
  <2> QED
    BY <2>1, <2>2, Separately
<1>3. m.has = h /\ [m EXCEPT !.has = h \cup {y}] = w
  <2>1. m.has = h
    BY DEF Msg
  <2>2. [m EXCEPT !.has = h \cup {y}] = w
    BY DEF Msg
  <2> QED
    BY <2>1, <2>2
<1> HIDE DEF m, w
<1>4. n.msg = m /\ [n EXCEPT !.msg = w] = Parser(w, to, y, l, o)
  BY ParserFields, ParserWith
<1> HIDE DEF n, q, p
<1>5. [n EXCEPT !.msg.has = h \cup {y}] = Parser(w, to, y, l, o)
  BY <1>3, <1>4, Inside
<1>6. n.msg.has = h
  BY <1>3, <1>4
<1>7. ReadTag(p, c) =
        IF ~Known(c) THEN SkipField(p, c)
        ELSE IF y \in Strings THEN Parser(w, to, y, l, o)
        ELSE n
  BY <1>1, <1>2, <1>5, <1>6
<1> QED
  BY <1>7 DEF AfterKnown, m, p, w, n, to, y

(* The end of a group.                                                     *)
Closes(p, c) == c[3] = EndGroup /\ c[2] = Last(p.open)
Closed(p, c) ==
  Skipped([p EXCEPT !.at = Between(Front(p.open)), !.open = Front(p.open)], c)

LEMMA ClosedIs ==
  ASSUME NEW h, NEW t, NEW s, NEW u, NEW at, NEW f, NEW l, NEW o, NEW c
  PROVE  LET p == Parser(Msg(h, t, s, u), at, f, l, o)
         IN  Closed(p, c) = Parser(Msg(h, t, s, Append(u, c)),
                                   Between(Front(o)), f, l, Front(o))
<1> DEFINE m == Msg(h, t, s, u)
           p == Parser(m, at, f, l, o)
           g == Front(o)
           to == Between(g)
           q == [p EXCEPT !.at = to, !.open = g]
           n == Parser(m, to, f, l, g)
           k == Parser(Msg(h, t, s, Append(u, c)), to, f, l, g)
<1>1. p.open = o
  BY ParserFields
<1>2. Closed(p, c) = Skipped(q, c)
  <2> HIDE DEF p
  <2> QED
    BY <1>1 DEF Closed
<1> HIDE DEF to, g
<1>3. q = n
  <2>1. [p EXCEPT !.at = to] = Parser(m, to, f, l, o)
    BY ParserWith
  <2>2. [Parser(m, to, f, l, o) EXCEPT !.open = g] = n
    BY DEF Parser
  <2> HIDE DEF p, n
  <2> QED
    BY <2>1, <2>2, Separately
<1>4. Skipped(n, c) = k
  BY SkippedIs
<1> HIDE DEF m, n, p, q, k
<1> QED
  BY <1>2, <1>3, <1>4 DEF m, p, k, to, g

-----------------------------------------------------------------------------
(* Two parsers over the same cells, one that began with nothing and one    *)
(* that began with the message m: whatever the first one has read replaces *)
(* what m has.                                                             *)
Ats == {"tag", "group", "num", "length", "chars", "over"}
Fit(at, o) == at \in Ats /\ (at = "tag" => o = <<>>)
IsTexts(s) == s = [i \in Strings |-> s[i]]
IsMsg(X, m) ==
  /\ m = Msg(m.has, m.type, m.str, m.unknown)
  /\ IsTexts(m.str)
  /\ m.unknown \in Seq(X)
IsParser(X, p) ==
  /\ p = Parser(p.msg, p.at, p.field, p.left, p.open)
  /\ IsMsg(X, p.msg)
  /\ Fit(p.at, p.open)
Alike(X, m, a, b) ==
  /\ IsParser(X, a) /\ IsParser(X, b)
  /\ b.at = a.at /\ b.open = a.open
  /\ a.at \in {"num", "length", "chars"} => b.field = a.field
  /\ a.at = "chars" => b.left = a.left
  /\ a.at \in {"length", "chars"} /\ a.field # 0 => a.field \in Strings \cap a.msg.has
  /\ b.msg.has = m.has \cup a.msg.has
  /\ b.msg.type = IF MsgType \in a.msg.has THEN a.msg.type ELSE m.type
  /\ \A i \in Strings :
       \/ a.at = "length" /\ a.field = i
       \/ b.msg.str[i] = IF i \in a.msg.has THEN a.msg.str[i] ELSE m.str[i]
  /\ b.msg.unknown = m.unknown \o a.msg.unknown

(* The shape of a parser, and what each of its fields holds.               *)
Has(X, p, h, t, s, u, at, f, l, o) ==
  /\ IsParser(X, p)
  /\ p.at = at /\ p.field = f /\ p.left = l /\ p.open = o
  /\ p.msg.has = h /\ p.msg.type = t /\ p.msg.str = s /\ p.msg.unknown = u

(* A parser that is put together has its parts.                            *)
LEMMA PartsOf ==
  ASSUME NEW X, NEW h, NEW t, NEW s, NEW u, NEW at, NEW f, NEW l, NEW o,
         IsTexts(s), u \in Seq(X), Fit(at, o)
  PROVE  Has(X, Parser(Msg(h, t, s, u), at, f, l, o), h, t, s, u, at, f, l, o)
<1> DEFINE m == Msg(h, t, s, u)
           p == Parser(m, at, f, l, o)
<1>1. m.has = h /\ m.type = t /\ m.str = s /\ m.unknown = u
  BY DEF Msg
<1>2. p.msg = m /\ p.at = at /\ p.field = f /\ p.left = l /\ p.open = o
  BY DEF Parser
<1>3. IsMsg(X, m)
  <2>1. m = Msg(m.has, m.type, m.str, m.unknown)
    <3>1. m = Msg(h, t, s, u)
      OBVIOUS
    <3> HIDE DEF m
    <3> QED
      BY <1>1, <3>1
  <2> HIDE DEF m
  <2> QED
    BY <1>1, <2>1 DEF IsMsg
<1>4. p = Parser(p.msg, p.at, p.field, p.left, p.open)
  <2>1. p = Parser(m, at, f, l, o)
    OBVIOUS
  <2> HIDE DEF m
  <2> QED
    BY <1>2, <2>1
<1> HIDE DEF m, p
<1>5. IsParser(X, p)
  BY <1>2, <1>3, <1>4 DEF IsParser
<1>6. Has(X, p, h, t, s, u, at, f, l, o)
  BY <1>1, <1>2, <1>5 DEF Has
<1> QED
  BY <1>6 DEF p, m

(* The parts of a parser.                                                  *)
LEMMA PartsFrom ==
  ASSUME NEW X, NEW p, IsParser(X, p)
  PROVE  /\ p = Parser(Msg(p.msg.has, p.msg.type, p.msg.str, p.msg.unknown),
                       p.at, p.field, p.left, p.open)
         /\ IsTexts(p.msg.str)
         /\ p.msg.unknown \in Seq(X)
         /\ Fit(p.at, p.open)
<1>1. p = Parser(p.msg, p.at, p.field, p.left, p.open) /\ Fit(p.at, p.open)
  BY DEF IsParser
<1>2. /\ p.msg = Msg(p.msg.has, p.msg.type, p.msg.str, p.msg.unknown)
      /\ IsTexts(p.msg.str)
      /\ p.msg.unknown \in Seq(X)
  BY DEF IsParser, IsMsg
<1> QED
  BY <1>1, <1>2

(* The place between two fields fits what is open.                         *)
LEMMA BetweenFits ==
  ASSUME NEW o
  PROVE  Fit(Between(o), o)
BY DEF Fit, Between, Ats

(* A number.                                                               *)
AfterANum(X, p, c, q) ==
  /\ IsParser(X, q) /\ q.at = Between(p.open) /\ q.open = p.open
  /\ q.msg.str = p.msg.str
  /\ q.msg.has = IF p.field = 0 THEN p.msg.has ELSE p.msg.has \cup {MsgType}
  /\ q.msg.type = IF p.field = 0 THEN p.msg.type ELSE c[2]
  /\ q.msg.unknown = IF p.field = 0 THEN Append(p.msg.unknown, c) ELSE p.msg.unknown

LEMMA NumStep ==
  ASSUME NEW X, NEW p, IsParser(X, p), p.at = "num", NEW c \in X
  PROVE  AfterANum(X, p, c, ParseStep(p, c))
<1> DEFINE q == ParseStep(p, c)
           h == p.msg.has
           t == p.msg.type
           s == p.msg.str
           u == p.msg.unknown
           f == p.field
           l == p.left
           o == p.open
           v == Append(u, c)
           g == h \cup {MsgType}
           d == c[2]
           to == Between(o)
<1>1. p = Parser(Msg(h, t, s, u), p.at, f, l, o)
  BY PartsFrom
<1>2. IsTexts(s) /\ u \in Seq(X) /\ v \in Seq(X) /\ Fit(to, o)
  BY PartsFrom, BetweenFits
<1>3. q = ReadNum(p, c)
  BY DEF ParseStep
<1> HIDE DEF q, h, t, s, u, f, l, o
<1>4. q = IF f = 0 THEN Parser(Msg(h, t, s, v), to, f, l, o)
          ELSE Parser(Msg(g, d, s, u), to, f, l, o)
  <2>1. ReadNum(Parser(Msg(h, t, s, u), p.at, f, l, o), c) = AfterNum(h, t, s, u, f, l, o, c)
    BY ReadNumIs
  <2> QED
    BY <1>1, <1>3, <2>1 DEF AfterNum
<1> HIDE DEF v, g, d, to
<1>5. CASE f = 0
  <2>1. q = Parser(Msg(h, t, s, v), to, f, l, o)
    BY <1>4, <1>5
  <2>2. Has(X, q, h, t, s, v, to, f, l, o)
    <3>1. Has(X, Parser(Msg(h, t, s, v), to, f, l, o), h, t, s, v, to, f, l, o)
      BY <1>2, PartsOf
    <3> QED
      BY <2>1, <3>1
  <2> QED
    BY <1>5, <2>2 DEF AfterANum, Has, q, h, t, s, u, f, o, v, to
<1>6. CASE f # 0
  <2>1. q = Parser(Msg(g, d, s, u), to, f, l, o)
    BY <1>4, <1>6
  <2>2. Has(X, q, g, d, s, u, to, f, l, o)
    <3>1. Has(X, Parser(Msg(g, d, s, u), to, f, l, o), g, d, s, u, to, f, l, o)
      BY <1>2, PartsOf
    <3> QED
      BY <2>1, <3>1
  <2> QED
    BY <1>6, <2>2 DEF AfterANum, Has, q, h, t, s, u, f, o, g, d, to
<1> QED
  BY <1>5, <1>6

(* A length.                                                               *)
LEMMA LengthStep ==
  ASSUME NEW X, NEW p, IsParser(X, p), p.at = "length", NEW c \in X,
         p.field # 0 => p.field \in Strings
  PROVE  LET q == ParseStep(p, c)
         IN  /\ IsParser(X, q) /\ q.at = IF c[2] = 0 THEN Between(p.open) ELSE "chars"
             /\ q.open = p.open /\ q.field = p.field /\ q.left = c[2]
             /\ q.msg.has = p.msg.has /\ q.msg.type = p.msg.type
             /\ \A i \in Strings :
                  q.msg.str[i] = IF i = p.field THEN <<>> ELSE p.msg.str[i]
             /\ q.msg.unknown = IF p.field = 0 THEN Append(p.msg.unknown, c)
                                ELSE p.msg.unknown
<1> DEFINE q == ParseStep(p, c)
           h == p.msg.has
           t == p.msg.type
           s == p.msg.str
           u == p.msg.unknown
           f == p.field
           l == p.left
           o == p.open
           v == Append(u, c)
           r == [s EXCEPT ![f] = <<>>]
           d == c[2]
           to == IF c[2] = 0 THEN Between(o) ELSE "chars"
<1>1. p = Parser(Msg(h, t, s, u), p.at, f, l, o)
  BY PartsFrom
<1>2. IsTexts(s) /\ u \in Seq(X) /\ v \in Seq(X)
  BY PartsFrom
<1>3. Fit(to, o)
  <2>1. Fit("chars", o)
    BY DEF Fit, Ats
  <2> QED
    BY <2>1, BetweenFits
<1>4. q = ReadLength(p, c)
  BY DEF ParseStep
<1>5. f # 0 => f \in Strings
  OBVIOUS
<1>6. 0 \notin Strings
  BY DEF Strings
<1> HIDE DEF q, h, t, s, u, f, l, o
<1>7. q = IF f = 0 THEN Parser(Msg(h, t, s, v), to, f, d, o)
          ELSE Parser(Msg(h, t, r, u), to, f, d, o)
  <2>1. ReadLength(Parser(Msg(h, t, s, u), p.at, f, l, o), c) = AfterLength(h, t, s, u, f, o, c)
    BY ReadLengthIs
  <2> QED
    BY <1>1, <1>4, <2>1 DEF AfterLength
<1>8. /\ \A i \in Strings : f # 0 => r[i] = IF i = f THEN <<>> ELSE s[i]
      /\ IsTexts(r)
  BY <1>2 DEF IsTexts
<1> HIDE DEF v, r, d, to
<1>9. CASE f = 0
  <2>1. q = Parser(Msg(h, t, s, v), to, f, d, o)
    BY <1>7, <1>9
  <2>2. Has(X, q, h, t, s, v, to, f, d, o)
    <3>1. Has(X, Parser(Msg(h, t, s, v), to, f, d, o), h, t, s, v, to, f, d, o)
      BY <1>2, <1>3, PartsOf
    <3> QED
      BY <2>1, <3>1
  <2> QED
    BY <1>6, <1>9, <2>2 DEF Has, q, h, t, s, u, f, o, v, d, to
<1>10. CASE f # 0
  <2>1. q = Parser(Msg(h, t, r, u), to, f, d, o)
    BY <1>7, <1>10
  <2>2. Has(X, q, h, t, r, u, to, f, d, o)
    <3>1. Has(X, Parser(Msg(h, t, r, u), to, f, d, o), h, t, r, u, to, f, d, o)
      BY <1>2, <1>3, <1>8, PartsOf
    <3> QED
      BY <2>1, <3>1
  <2>3. \A i \in Strings : q.msg.str[i] = IF i = f THEN <<>> ELSE s[i]
    BY <1>8, <1>10, <2>2 DEF Has
  <2> QED
    BY <1>10, <2>2, <2>3 DEF Has, q, h, t, s, u, f, o, d, to
<1> QED
  BY <1>9, <1>10

(* A character.                                                            *)
LEMMA CharStep ==
  ASSUME NEW X, NEW p, IsParser(X, p), p.at = "chars", NEW c \in X,
         p.field # 0 => p.field \in Strings
  PROVE  LET q == ParseStep(p, c)
         IN  /\ IsParser(X, q) /\ q.at = IF p.left = 1 THEN Between(p.open) ELSE "chars"
             /\ q.open = p.open /\ q.field = p.field /\ q.left = p.left - 1
             /\ q.msg.has = p.msg.has /\ q.msg.type = p.msg.type
             /\ \A i \in Strings :
                  q.msg.str[i] = IF i = p.field THEN Append(p.msg.str[i], c[2])
                                 ELSE p.msg.str[i]
             /\ q.msg.unknown = IF p.field = 0 THEN Append(p.msg.unknown, c)
                                ELSE p.msg.unknown
<1> DEFINE q == ParseStep(p, c)
           h == p.msg.has
           t == p.msg.type
           s == p.msg.str
           u == p.msg.unknown
           f == p.field
           l == p.left
           o == p.open
           v == Append(u, c)
           x == Append(s[f], c[2])
           r == [s EXCEPT ![f] = x]
           d == l - 1
           to == IF l = 1 THEN Between(o) ELSE "chars"
<1>1. p = Parser(Msg(h, t, s, u), p.at, f, l, o)
  BY PartsFrom
<1>2. IsTexts(s) /\ u \in Seq(X) /\ v \in Seq(X)
  BY PartsFrom
<1>3. Fit(to, o)
  <2>1. Fit("chars", o)
    BY DEF Fit, Ats
  <2> QED
    BY <2>1, BetweenFits
<1>4. q = ReadChar(p, c)
  BY DEF ParseStep
<1>5. f # 0 => f \in Strings
  OBVIOUS
<1>6. 0 \notin Strings
  BY DEF Strings
<1> HIDE DEF q, h, t, s, u, f, l, o
<1>7. q = IF f = 0 THEN Parser(Msg(h, t, s, v), to, f, d, o)
          ELSE Parser(Msg(h, t, r, u), to, f, d, o)
  <2>1. ReadChar(Parser(Msg(h, t, s, u), p.at, f, l, o), c) = AfterChar(h, t, s, u, f, l, o, c)
    BY ReadCharIs
  <2> QED
    BY <1>1, <1>4, <2>1 DEF AfterChar
<1> HIDE DEF x
<1>8. /\ \A i \in Strings : f # 0 => r[i] = IF i = f THEN x ELSE s[i]
      /\ IsTexts(r)
  BY <1>2 DEF IsTexts
<1> HIDE DEF v, r, d, to
<1>9. CASE f = 0
  <2>1. q = Parser(Msg(h, t, s, v), to, f, d, o)
    BY <1>7, <1>9
  <2>2. Has(X, q, h, t, s, v, to, f, d, o)
    <3>1. Has(X, Parser(Msg(h, t, s, v), to, f, d, o), h, t, s, v, to, f, d, o)
      BY <1>2, <1>3, PartsOf
    <3> QED
      BY <2>1, <3>1
  <2> QED
    BY <1>6, <1>9, <2>2 DEF Has, q, h, t, s, u, f, o, l, v, d, to
<1>10. CASE f # 0
  <2>1. q = Parser(Msg(h, t, r, u), to, f, d, o)
    BY <1>7, <1>10
  <2>2. Has(X, q, h, t, r, u, to, f, d, o)
    <3>1. Has(X, Parser(Msg(h, t, r, u), to, f, d, o), h, t, r, u, to, f, d, o)
      BY <1>2, <1>3, <1>8, PartsOf
    <3> QED
      BY <2>1, <3>1
  <2>3. \A i \in Strings : q.msg.str[i] = IF i = f THEN x ELSE s[i]
    BY <1>8, <1>10, <2>2 DEF Has
  <2>4. \A i \in Strings : q.msg.str[i] = IF i = f THEN Append(s[i], c[2]) ELSE s[i]
    BY <2>3 DEF x
  <2> QED
    BY <1>10, <2>2, <2>4 DEF Has, q, h, t, s, u, f, o, l, d, to
<1> QED
  BY <1>9, <1>10

(* What a tag is followed by.                                              *)
LEMMA Places ==
  ASSUME NEW c
  PROVE  /\ Place(c[3]) \in {"num", "length", "group", "over"}
         /\ ~Refused(c) => Place(c[3]) # "over"
         /\ Known(c) => Place(c[3]) = IF c[2] \in Strings THEN "length" ELSE "num"
<1>1. Place(c[3]) \in {"num", "length", "group", "over"}
  BY DEF Place
<1>2. ~Refused(c) => Place(c[3]) # "over"
  BY DEF Refused
<1>3. Known(c) => Place(c[3]) = IF c[2] \in Strings THEN "length" ELSE "num"
  BY DEF Place, Known, WireOf, Fields, Strings, MsgType, Varint, Delimited, Fixed32,
         Fixed64, StartGroup
<1> QED
  BY <1>1, <1>2, <1>3

(* A field that is skipped.                                                *)
AfterASkip(X, p, c, q) ==
  /\ IsParser(X, q)
  /\ q.at = IF Refused(c) THEN "over" ELSE Place(c[3])
  /\ ~Refused(c) => q.field = 0
  /\ q.open = IF Refused(c) THEN p.open ELSE Opened(p.open, c)
  /\ q.msg.has = p.msg.has /\ q.msg.type = p.msg.type /\ q.msg.str = p.msg.str
  /\ q.msg.unknown = IF Refused(c) THEN p.msg.unknown ELSE Append(p.msg.unknown, c)

LEMMA SkipStep ==
  ASSUME NEW X, NEW p, IsParser(X, p), NEW c \in X
  PROVE  AfterASkip(X, p, c, SkipField(p, c))
<1> DEFINE q == SkipField(p, c)
           h == p.msg.has
           t == p.msg.type
           s == p.msg.str
           u == p.msg.unknown
           f == p.field
           l == p.left
           o == p.open
           v == Append(u, c)
           g == Opened(o, c)
           to == Place(c[3])
<1>1. p = Parser(Msg(h, t, s, u), p.at, f, l, o)
  BY PartsFrom
<1>2. IsTexts(s) /\ u \in Seq(X) /\ v \in Seq(X)
  BY PartsFrom
<1>3. Fit(to, g) /\ Fit("over", o)
  BY Places DEF Fit, Ats
<1> HIDE DEF q, h, t, s, u, f, l, o
<1>4. q = IF Refused(c) THEN Parser(Msg(h, t, s, u), "over", f, l, o)
          ELSE Parser(Msg(h, t, s, v), to, 0, l, g)
  <2>1. SkipField(Parser(Msg(h, t, s, u), p.at, f, l, o), c) = AfterSkip(h, t, s, u, f, l, o, c)
    BY SkipFieldIs
  <2> QED
    BY <1>1, <2>1 DEF AfterSkip, q
<1> HIDE DEF v, g, to
<1>5. CASE Refused(c)
  <2>1. Has(X, Parser(Msg(h, t, s, u), "over", f, l, o), h, t, s, u, "over", f, l, o)
    BY <1>2, <1>3, PartsOf
  <2>2. Has(X, q, h, t, s, u, "over", f, l, o)
    BY <1>4, <1>5, <2>1
  <2> QED
    BY <1>5, <2>2 DEF AfterASkip, Has, q, h, t, s, u, o
<1>6. CASE ~Refused(c)
  <2>1. Has(X, Parser(Msg(h, t, s, v), to, 0, l, g), h, t, s, v, to, 0, l, g)
    BY <1>2, <1>3, PartsOf
  <2>2. Has(X, q, h, t, s, v, to, 0, l, g)
    BY <1>4, <1>6, <2>1
  <2> QED
    BY <1>6, <2>2 DEF AfterASkip, Has, q, h, t, s, u, o, v, g, to
<1> QED
  BY <1>5, <1>6

(* A field that is known.                                                  *)
AfterAKnown(X, p, c, q) ==
  /\ IsParser(X, q)
  /\ q.at = Place(c[3]) /\ q.field = c[2] /\ q.open = p.open
  /\ q.msg.has = IF c[2] \in Strings THEN p.msg.has \cup {c[2]} ELSE p.msg.has
  /\ q.msg.type = p.msg.type /\ q.msg.str = p.msg.str
  /\ q.msg.unknown = p.msg.unknown

LEMMA KnownStep ==
  ASSUME NEW X, NEW p, IsParser(X, p), NEW c \in X, Known(c)
  PROVE  AfterAKnown(X, p, c, ReadTag(p, c))
<1> DEFINE q == ReadTag(p, c)
           h == p.msg.has
           t == p.msg.type
           s == p.msg.str
           u == p.msg.unknown
           f == p.field
           l == p.left
           o == p.open
           d == c[2]
           g == h \cup {d}
           to == Place(c[3])
<1>1. p = Parser(Msg(h, t, s, u), p.at, f, l, o)
  BY PartsFrom
<1>2. IsTexts(s) /\ u \in Seq(X)
  BY PartsFrom
<1>3. Fit(to, o)
  BY Places DEF Fit, Ats
<1> HIDE DEF q, h, t, s, u, f, l, o
<1>4. q = IF d \in Strings THEN Parser(Msg(g, t, s, u), to, d, l, o)
          ELSE Parser(Msg(h, t, s, u), to, d, l, o)
  <2>1. ReadTag(Parser(Msg(h, t, s, u), p.at, f, l, o), c) = AfterKnown(h, t, s, u, l, o, c)
    BY ReadTagIs
  <2> QED
    BY <1>1, <2>1 DEF AfterKnown, q
<1> HIDE DEF d, g, to
<1>5. CASE d \in Strings
  <2>1. Has(X, Parser(Msg(g, t, s, u), to, d, l, o), g, t, s, u, to, d, l, o)
    BY <1>2, <1>3, PartsOf
  <2>2. Has(X, q, g, t, s, u, to, d, l, o)
    BY <1>4, <1>5, <2>1
  <2> QED
    BY <1>5, <2>2 DEF AfterAKnown, Has, q, h, t, s, u, o, g, d, to
<1>6. CASE d \notin Strings
  <2>1. Has(X, Parser(Msg(h, t, s, u), to, d, l, o), h, t, s, u, to, d, l, o)
    BY <1>2, <1>3, PartsOf
  <2>2. Has(X, q, h, t, s, u, to, d, l, o)
    BY <1>4, <1>6, <2>1
  <2> QED
    BY <1>6, <2>2 DEF AfterAKnown, Has, q, h, t, s, u, o, d, to
<1> QED
  BY <1>5, <1>6

(* The end of a group.                                                     *)
AfterAClose(X, p, c, q) ==
  /\ IsParser(X, q)
  /\ q.at = Between(Front(p.open)) /\ q.open = Front(p.open)
  /\ q.msg.has = p.msg.has /\ q.msg.type = p.msg.type /\ q.msg.str = p.msg.str
  /\ q.msg.unknown = Append(p.msg.unknown, c)

LEMMA CloseStep ==
  ASSUME NEW X, NEW p, IsParser(X, p), NEW c \in X
  PROVE  AfterAClose(X, p, c, Closed(p, c))
<1> DEFINE q == Closed(p, c)
           h == p.msg.has
           t == p.msg.type
           s == p.msg.str
           u == p.msg.unknown
           f == p.field
           l == p.left
           o == p.open
           v == Append(u, c)
           g == Front(o)
           to == Between(g)
<1>1. p = Parser(Msg(h, t, s, u), p.at, f, l, o)
  BY PartsFrom
<1>2. IsTexts(s) /\ u \in Seq(X) /\ v \in Seq(X)
  BY PartsFrom
<1>3. Fit(to, g)
  BY BetweenFits
<1> HIDE DEF q, h, t, s, u, f, l, o
<1>4. q = Parser(Msg(h, t, s, v), to, f, l, g)
  <2>1. Closed(Parser(Msg(h, t, s, u), p.at, f, l, o), c) = Parser(Msg(h, t, s, v), to, f, l, g)
    BY ClosedIs
  <2> QED
    BY <1>1, <2>1 DEF q
<1> HIDE DEF v, g, to
<1>5. Has(X, Parser(Msg(h, t, s, v), to, f, l, g), h, t, s, v, to, f, l, g)
  BY <1>2, <1>3, PartsOf
<1>6. Has(X, q, h, t, s, v, to, f, l, g)
  BY <1>4, <1>5
<1> QED
  BY <1>6 DEF AfterAClose, Has, q, h, t, s, u, o, v, g, to

-----------------------------------------------------------------------------
(* Two parsers that are alike stay so when both read the same number, the  *)
(* same length, the same character or the same tag.                        *)
LEMMA AlikeNum ==
  ASSUME NEW X, NEW m, NEW a, NEW b, NEW c \in X, m.unknown \in Seq(X),
         Alike(X, m, a, b), a.at = "num"
  PROVE  Alike(X, m, ParseStep(a, c), ParseStep(b, c))
<1> DEFINE p == ParseStep(a, c)
           q == ParseStep(b, c)
<1>1. /\ IsParser(X, a) /\ IsParser(X, b) /\ b.at = "num" /\ b.field = a.field
      /\ b.open = a.open
  BY DEF Alike
<1>2. /\ b.msg.has = m.has \cup a.msg.has
      /\ b.msg.type = IF MsgType \in a.msg.has THEN a.msg.type ELSE m.type
      /\ \A i \in Strings : b.msg.str[i] = IF i \in a.msg.has THEN a.msg.str[i] ELSE m.str[i]
      /\ b.msg.unknown = m.unknown \o a.msg.unknown
  BY DEF Alike
<1>3. /\ IsParser(X, p) /\ p.at = Between(a.open) /\ p.open = a.open
      /\ p.msg.str = a.msg.str
      /\ p.msg.has = IF a.field = 0 THEN a.msg.has ELSE a.msg.has \cup {MsgType}
      /\ p.msg.type = IF a.field = 0 THEN a.msg.type ELSE c[2]
      /\ p.msg.unknown = IF a.field = 0 THEN Append(a.msg.unknown, c)
                         ELSE a.msg.unknown
  <2>1. AfterANum(X, a, c, p)
    BY <1>1, NumStep
  <2> QED
    BY <2>1 DEF AfterANum
<1>4. /\ IsParser(X, q) /\ q.at = Between(a.open) /\ q.open = a.open
      /\ q.msg.str = b.msg.str
      /\ q.msg.has = IF a.field = 0 THEN b.msg.has ELSE b.msg.has \cup {MsgType}
      /\ q.msg.type = IF a.field = 0 THEN b.msg.type ELSE c[2]
      /\ q.msg.unknown = IF a.field = 0 THEN Append(b.msg.unknown, c)
                         ELSE b.msg.unknown
  <2>1. AfterANum(X, b, c, q)
    BY <1>1, NumStep
  <2> QED
    BY <1>1, <2>1 DEF AfterANum
<1>5. Append(m.unknown \o a.msg.unknown, c) = m.unknown \o Append(a.msg.unknown, c)
  <2> DEFINE u == m.unknown
             v == a.msg.unknown
  <2>1. u \in Seq(X)
    OBVIOUS
  <2>2. v \in Seq(X)
    BY <1>1, PartsFrom
  <2> HIDE DEF u, v
  <2>3. Later(u, v, c)
    BY <2>1, <2>2, AppendAfter
  <2> QED
    BY <2>3 DEF Later, u, v
<1> HIDE DEF p, q
<1>6. q.msg.has = m.has \cup p.msg.has
  BY <1>2, <1>3, <1>4
<1>7. q.msg.type = IF MsgType \in p.msg.has THEN p.msg.type ELSE m.type
  BY <1>2, <1>3, <1>4
<1>8. \A i \in Strings : q.msg.str[i] = IF i \in p.msg.has THEN p.msg.str[i] ELSE m.str[i]
  <2>1. MsgType \notin Strings
    BY DEF MsgType, Strings
  <2> QED
    BY <1>2, <1>3, <1>4, <2>1
<1>9. q.msg.unknown = m.unknown \o p.msg.unknown
  BY <1>2, <1>3, <1>4, <1>5
<1>10. p.at \in {"tag", "group"} /\ q.at = p.at /\ q.open = p.open
  BY <1>3, <1>4 DEF Between
<1>11. IsParser(X, p) /\ IsParser(X, q)
  BY <1>3, <1>4
<1> QED
  BY <1>6, <1>7, <1>8, <1>9, <1>10, <1>11 DEF Alike, p, q

LEMMA AlikeLength ==
  ASSUME NEW X, NEW m, NEW a, NEW b, NEW c \in X, m.unknown \in Seq(X),
         Alike(X, m, a, b), a.at = "length"
  PROVE  Alike(X, m, ParseStep(a, c), ParseStep(b, c))
<1> DEFINE p == ParseStep(a, c)
           q == ParseStep(b, c)
<1>1. /\ IsParser(X, a) /\ IsParser(X, b) /\ b.at = "length" /\ b.field = a.field
      /\ b.open = a.open
      /\ a.field # 0 => a.field \in Strings \cap a.msg.has
  BY DEF Alike
<1>2. /\ b.msg.has = m.has \cup a.msg.has
      /\ b.msg.type = IF MsgType \in a.msg.has THEN a.msg.type ELSE m.type
      /\ \A i \in Strings :
           \/ a.field = i
           \/ b.msg.str[i] = IF i \in a.msg.has THEN a.msg.str[i] ELSE m.str[i]
      /\ b.msg.unknown = m.unknown \o a.msg.unknown
  BY DEF Alike
<1>3. /\ IsParser(X, p) /\ p.at = IF c[2] = 0 THEN Between(a.open) ELSE "chars"
      /\ p.open = a.open /\ p.field = a.field /\ p.left = c[2]
      /\ p.msg.has = a.msg.has /\ p.msg.type = a.msg.type
      /\ \A i \in Strings : p.msg.str[i] = IF i = a.field THEN <<>> ELSE a.msg.str[i]
      /\ p.msg.unknown = IF a.field = 0 THEN Append(a.msg.unknown, c)
                         ELSE a.msg.unknown
  BY <1>1, LengthStep
<1>4. /\ IsParser(X, q) /\ q.at = IF c[2] = 0 THEN Between(a.open) ELSE "chars"
      /\ q.open = a.open /\ q.field = a.field /\ q.left = c[2]
      /\ q.msg.has = b.msg.has /\ q.msg.type = b.msg.type
      /\ \A i \in Strings : q.msg.str[i] = IF i = a.field THEN <<>> ELSE b.msg.str[i]
      /\ q.msg.unknown = IF a.field = 0 THEN Append(b.msg.unknown, c)
                         ELSE b.msg.unknown
  BY <1>1, LengthStep
<1>5. Append(m.unknown \o a.msg.unknown, c) = m.unknown \o Append(a.msg.unknown, c)
  <2> DEFINE u == m.unknown
             v == a.msg.unknown
  <2>1. u \in Seq(X)
    OBVIOUS
  <2>2. v \in Seq(X)
    BY <1>1, PartsFrom
  <2> HIDE DEF u, v
  <2>3. Later(u, v, c)
    BY <2>1, <2>2, AppendAfter
  <2> QED
    BY <2>3 DEF Later, u, v
<1> HIDE DEF p, q
<1>6. \A i \in Strings : q.msg.str[i] = IF i \in p.msg.has THEN p.msg.str[i] ELSE m.str[i]
  <2> SUFFICES ASSUME NEW i \in Strings
               PROVE  q.msg.str[i] = IF i \in p.msg.has THEN p.msg.str[i] ELSE m.str[i]
    OBVIOUS
  <2>1. CASE i = a.field
    <3>1. i # 0
      BY DEF Strings
    <3> QED
      BY <1>1, <1>3, <1>4, <2>1, <3>1
  <2>2. CASE i # a.field
    BY <1>2, <1>3, <1>4, <2>2
  <2> QED
    BY <2>1, <2>2
<1>7. q.msg.unknown = m.unknown \o p.msg.unknown
  BY <1>2, <1>3, <1>4, <1>5
<1>8. q.at = p.at /\ q.open = p.open /\ q.field = p.field /\ q.left = p.left
  BY <1>3, <1>4
<1>9. p.field # 0 => p.field \in Strings \cap p.msg.has
  BY <1>1, <1>3
<1>10. /\ q.msg.has = m.has \cup p.msg.has
       /\ q.msg.type = IF MsgType \in p.msg.has THEN p.msg.type ELSE m.type
  BY <1>2, <1>3, <1>4
<1>11. IsParser(X, p) /\ IsParser(X, q) /\ p.at # "length"
  BY <1>3, <1>4 DEF Between
<1> QED
  BY <1>6, <1>7, <1>8, <1>9, <1>10, <1>11 DEF Alike, p, q

LEMMA AlikeChar ==
  ASSUME NEW X, NEW m, NEW a, NEW b, NEW c \in X, m.unknown \in Seq(X),
         Alike(X, m, a, b), a.at = "chars"
  PROVE  Alike(X, m, ParseStep(a, c), ParseStep(b, c))
<1> DEFINE p == ParseStep(a, c)
           q == ParseStep(b, c)
<1>1. /\ IsParser(X, a) /\ IsParser(X, b) /\ b.at = "chars" /\ b.field = a.field
      /\ b.open = a.open
      /\ b.left = a.left
      /\ a.field # 0 => a.field \in Strings \cap a.msg.has
  BY DEF Alike
<1>2. /\ b.msg.has = m.has \cup a.msg.has
      /\ b.msg.type = IF MsgType \in a.msg.has THEN a.msg.type ELSE m.type
      /\ \A i \in Strings : b.msg.str[i] = IF i \in a.msg.has THEN a.msg.str[i] ELSE m.str[i]
      /\ b.msg.unknown = m.unknown \o a.msg.unknown
  BY DEF Alike
<1>3. /\ IsParser(X, p) /\ p.at = IF a.left = 1 THEN Between(a.open) ELSE "chars"
      /\ p.open = a.open /\ p.field = a.field /\ p.left = a.left - 1
      /\ p.msg.has = a.msg.has /\ p.msg.type = a.msg.type
      /\ \A i \in Strings :
           p.msg.str[i] = IF i = a.field THEN Append(a.msg.str[i], c[2]) ELSE a.msg.str[i]
      /\ p.msg.unknown = IF a.field = 0 THEN Append(a.msg.unknown, c)
                         ELSE a.msg.unknown
  BY <1>1, CharStep
<1>4. /\ IsParser(X, q) /\ q.at = IF a.left = 1 THEN Between(a.open) ELSE "chars"
      /\ q.open = a.open /\ q.field = a.field /\ q.left = a.left - 1
      /\ q.msg.has = b.msg.has /\ q.msg.type = b.msg.type
      /\ \A i \in Strings :
           q.msg.str[i] = IF i = a.field THEN Append(b.msg.str[i], c[2]) ELSE b.msg.str[i]
      /\ q.msg.unknown = IF a.field = 0 THEN Append(b.msg.unknown, c)
                         ELSE b.msg.unknown
  BY <1>1, CharStep
<1>5. Append(m.unknown \o a.msg.unknown, c) = m.unknown \o Append(a.msg.unknown, c)
  <2> DEFINE u == m.unknown
             v == a.msg.unknown
  <2>1. u \in Seq(X)
    OBVIOUS
  <2>2. v \in Seq(X)
    BY <1>1, PartsFrom
  <2> HIDE DEF u, v
  <2>3. Later(u, v, c)
    BY <2>1, <2>2, AppendAfter
  <2> QED
    BY <2>3 DEF Later, u, v
<1> HIDE DEF p, q
<1>6. \A i \in Strings : q.msg.str[i] = IF i \in p.msg.has THEN p.msg.str[i] ELSE m.str[i]
  <2> SUFFICES ASSUME NEW i \in Strings
               PROVE  q.msg.str[i] = IF i \in p.msg.has THEN p.msg.str[i] ELSE m.str[i]
    OBVIOUS
  <2>1. CASE i = a.field
    <3>1. i # 0
      BY DEF Strings
    <3>2. i \in a.msg.has /\ b.msg.str[i] = a.msg.str[i]
      BY <1>1, <1>2, <2>1, <3>1
    <3> QED
      BY <1>3, <1>4, <2>1, <3>2
  <2>2. CASE i # a.field
    BY <1>2, <1>3, <1>4, <2>2
  <2> QED
    BY <2>1, <2>2
<1>7. q.msg.unknown = m.unknown \o p.msg.unknown
  BY <1>2, <1>3, <1>4, <1>5
<1>8. q.at = p.at /\ q.open = p.open /\ q.field = p.field /\ q.left = p.left
  BY <1>3, <1>4
<1>9. p.field # 0 => p.field \in Strings \cap p.msg.has
  BY <1>1, <1>3
<1>10. /\ q.msg.has = m.has \cup p.msg.has
       /\ q.msg.type = IF MsgType \in p.msg.has THEN p.msg.type ELSE m.type
  BY <1>2, <1>3, <1>4
<1>11. IsParser(X, p) /\ IsParser(X, q) /\ p.at # "length"
  BY <1>3, <1>4 DEF Between
<1> QED
  BY <1>6, <1>7, <1>8, <1>9, <1>10, <1>11 DEF Alike, p, q

(* Between two fields, of the message or of a group.                       *)
LEMMA AlikeSkip ==
  ASSUME NEW X, NEW m, NEW a, NEW b, NEW c \in X, m.unknown \in Seq(X),
         Alike(X, m, a, b), a.at \in {"tag", "group"}
  PROVE  Alike(X, m, SkipField(a, c), SkipField(b, c))
<1> DEFINE p == SkipField(a, c)
           q == SkipField(b, c)
<1>1. IsParser(X, a) /\ IsParser(X, b) /\ b.open = a.open
  BY DEF Alike
<1>2. /\ b.msg.has = m.has \cup a.msg.has
      /\ b.msg.type = IF MsgType \in a.msg.has THEN a.msg.type ELSE m.type
      /\ \A i \in Strings : b.msg.str[i] = IF i \in a.msg.has THEN a.msg.str[i] ELSE m.str[i]
      /\ b.msg.unknown = m.unknown \o a.msg.unknown
  BY DEF Alike
<1>3. AfterASkip(X, a, c, p) /\ AfterASkip(X, b, c, q)
  BY <1>1, SkipStep
<1>4. Append(m.unknown \o a.msg.unknown, c) = m.unknown \o Append(a.msg.unknown, c)
  <2> DEFINE u == m.unknown
             v == a.msg.unknown
  <2>1. u \in Seq(X)
    OBVIOUS
  <2>2. v \in Seq(X)
    BY <1>1, PartsFrom
  <2> HIDE DEF u, v
  <2>3. Later(u, v, c)
    BY <2>1, <2>2, AppendAfter
  <2> QED
    BY <2>3 DEF Later, u, v
<1> HIDE DEF p, q
<1>5. /\ q.at = p.at /\ q.open = p.open /\ p.at # "chars"
      /\ p.at # "over" => p.field = 0 /\ q.field = 0
  BY <1>1, <1>3, Places DEF AfterASkip
<1>6. /\ q.msg.has = m.has \cup p.msg.has
      /\ q.msg.type = IF MsgType \in p.msg.has THEN p.msg.type ELSE m.type
  BY <1>2, <1>3 DEF AfterASkip
<1>7. \A i \in Strings : q.msg.str[i] = IF i \in p.msg.has THEN p.msg.str[i] ELSE m.str[i]
  BY <1>2, <1>3 DEF AfterASkip
<1>8. q.msg.unknown = m.unknown \o p.msg.unknown
  BY <1>2, <1>3, <1>4 DEF AfterASkip
<1>9. IsParser(X, p) /\ IsParser(X, q)
  BY <1>3 DEF AfterASkip
<1> QED
  BY <1>5, <1>6, <1>7, <1>8, <1>9 DEF Alike, p, q

LEMMA AlikeTag ==
  ASSUME NEW X, NEW m, NEW a, NEW b, NEW c \in X, m.unknown \in Seq(X),
         Alike(X, m, a, b), a.at = "tag"
  PROVE  Alike(X, m, ParseStep(a, c), ParseStep(b, c))
<1> DEFINE p == ReadTag(a, c)
           q == ReadTag(b, c)
<1>1. IsParser(X, a) /\ IsParser(X, b) /\ b.at = "tag" /\ b.open = a.open
  BY DEF Alike
<1>2. ParseStep(a, c) = p /\ ParseStep(b, c) = q
  BY <1>1 DEF ParseStep
<1>3. CASE ~Known(c)
  <2>1. Alike(X, m, SkipField(a, c), SkipField(b, c))
    BY AlikeSkip
  <2>2. p = SkipField(a, c) /\ q = SkipField(b, c)
    BY <1>3 DEF ReadTag, Known
  <2> QED
    BY <1>2, <2>1, <2>2
<1>4. CASE Known(c)
  <2>1. /\ b.msg.has = m.has \cup a.msg.has
        /\ b.msg.type = IF MsgType \in a.msg.has THEN a.msg.type ELSE m.type
        /\ \A i \in Strings : b.msg.str[i] = IF i \in a.msg.has THEN a.msg.str[i] ELSE m.str[i]
        /\ b.msg.unknown = m.unknown \o a.msg.unknown
    BY <1>1 DEF Alike
  <2>2. AfterAKnown(X, a, c, p) /\ AfterAKnown(X, b, c, q)
    BY <1>1, <1>4, KnownStep
  <2>3. Place(c[3]) = IF c[2] \in Strings THEN "length" ELSE "num"
    BY <1>4, Places
  <2>4. MsgType \notin Strings
    BY DEF Strings, MsgType
  <2> HIDE DEF p, q
  <2>5. q.at = p.at /\ q.open = p.open /\ q.field = p.field /\ p.at \in {"num", "length"}
    BY <1>1, <2>2, <2>3 DEF AfterAKnown
  <2>6. p.at = "length" => p.field \in Strings \cap p.msg.has
    BY <2>2, <2>3 DEF AfterAKnown
  <2>7. q.msg.has = m.has \cup p.msg.has
    BY <2>1, <2>2 DEF AfterAKnown
  <2>8. q.msg.type = IF MsgType \in p.msg.has THEN p.msg.type ELSE m.type
    BY <2>1, <2>2, <2>4 DEF AfterAKnown
  <2>9. \A i \in Strings :
          \/ p.at = "length" /\ p.field = i
          \/ q.msg.str[i] = IF i \in p.msg.has THEN p.msg.str[i] ELSE m.str[i]
    BY <2>1, <2>2, <2>3 DEF AfterAKnown
  <2>10. q.msg.unknown = m.unknown \o p.msg.unknown
    BY <2>1, <2>2 DEF AfterAKnown
  <2>11. IsParser(X, p) /\ IsParser(X, q)
    BY <2>2 DEF AfterAKnown
  <2>12. Alike(X, m, p, q)
    BY <2>5, <2>6, <2>7, <2>8, <2>9, <2>10, <2>11 DEF Alike
  <2> QED
    BY <1>2, <2>12
<1> QED
  BY <1>3, <1>4

LEMMA AlikeGroup ==
  ASSUME NEW X, NEW m, NEW a, NEW b, NEW c \in X, m.unknown \in Seq(X),
         Alike(X, m, a, b), a.at = "group"
  PROVE  Alike(X, m, ParseStep(a, c), ParseStep(b, c))
<1> DEFINE p == Closed(a, c)
           q == Closed(b, c)
<1>1. IsParser(X, a) /\ IsParser(X, b) /\ b.at = "group" /\ b.open = a.open
  BY DEF Alike
<1>2. /\ ParseStep(a, c) = IF Closes(a, c) THEN p ELSE SkipField(a, c)
      /\ ParseStep(b, c) = IF Closes(a, c) THEN q ELSE SkipField(b, c)
  BY <1>1 DEF ParseStep, ReadInGroup, Closes, Closed
<1>3. CASE ~Closes(a, c)
  <2>1. Alike(X, m, SkipField(a, c), SkipField(b, c))
    BY AlikeSkip
  <2> QED
    BY <1>2, <1>3, <2>1
<1>4. CASE Closes(a, c)
  <2>1. /\ b.msg.has = m.has \cup a.msg.has
        /\ b.msg.type = IF MsgType \in a.msg.has THEN a.msg.type ELSE m.type
        /\ \A i \in Strings : b.msg.str[i] = IF i \in a.msg.has THEN a.msg.str[i] ELSE m.str[i]
        /\ b.msg.unknown = m.unknown \o a.msg.unknown
    BY <1>1 DEF Alike
  <2>2. AfterAClose(X, a, c, p) /\ AfterAClose(X, b, c, q)
    BY <1>1, CloseStep
  <2>3. Append(m.unknown \o a.msg.unknown, c) = m.unknown \o Append(a.msg.unknown, c)
    <3> DEFINE u == m.unknown
               v == a.msg.unknown
    <3>1. u \in Seq(X)
      OBVIOUS
    <3>2. v \in Seq(X)
      BY <1>1, PartsFrom
    <3> HIDE DEF u, v
    <3>3. Later(u, v, c)
      BY <3>1, <3>2, AppendAfter
    <3> QED
      BY <3>3 DEF Later, u, v
  <2> HIDE DEF p, q
  <2>4. q.at = p.at /\ q.open = p.open /\ p.at \in {"tag", "group"}
    BY <1>1, <2>2 DEF AfterAClose, Between
  <2>5. /\ q.msg.has = m.has \cup p.msg.has
        /\ q.msg.type = IF MsgType \in p.msg.has THEN p.msg.type ELSE m.type
    BY <2>1, <2>2 DEF AfterAClose
  <2>6. \A i \in Strings : q.msg.str[i] = IF i \in p.msg.has THEN p.msg.str[i] ELSE m.str[i]
    BY <2>1, <2>2 DEF AfterAClose
  <2>7. q.msg.unknown = m.unknown \o p.msg.unknown
    BY <2>1, <2>2, <2>3 DEF AfterAClose
  <2>8. IsParser(X, p) /\ IsParser(X, q)
    BY <2>2 DEF AfterAClose
  <2>9. Alike(X, m, p, q)
    BY <2>4, <2>5, <2>6, <2>7, <2>8 DEF Alike
  <2> QED
    BY <1>2, <1>4, <2>9
<1> QED
  BY <1>3, <1>4

(* Whatever the cell is.                                                   *)
LEMMA AlikeStep ==
  ASSUME NEW X, NEW m, NEW a, NEW b, NEW c \in X, m.unknown \in Seq(X),
         Alike(X, m, a, b)
  PROVE  Alike(X, m, ParseStep(a, c), ParseStep(b, c))
<1>1. a.at \in Ats /\ b.at = a.at
  BY DEF Alike, IsParser, Fit
<1>2. CASE a.at = "over"
  <2>1. ParseStep(a, c) = a /\ ParseStep(b, c) = b
    BY <1>1, <1>2 DEF ParseStep
  <2> QED
    BY <2>1
<1> QED
  BY <1>1, <1>2, AlikeNum, AlikeLength, AlikeChar, AlikeTag, AlikeGroup DEF Ats

(* Parsers that are alike stay so to the end of a sequence of cells.       *)
LEMMA AlikeToTheEnd ==
  ASSUME NEW X, NEW m, NEW a, NEW b, NEW d \in Seq(X), m.unknown \in Seq(X),
         Alike(X, m, a, b)
  PROVE  Alike(X, m, FoldOf("parse", a, d), FoldOf("parse", b, d))
<1> DEFINE n == Len(d)
<1>1. n \in Nat /\ \A i \in 1 .. n : d[i] \in X
  OBVIOUS
<1>2. PICK f : /\ f[0] = a /\ f[n] = FoldOf("parse", a, d)
               /\ \A i \in 1 .. n : f[i] = Step("parse", f[i - 1], d[i])
  BY Unfolded
<1>3. PICK g : /\ g[0] = b /\ g[n] = FoldOf("parse", b, d)
               /\ \A i \in 1 .. n : g[i] = Step("parse", g[i - 1], d[i])
  BY Unfolded
<1> HIDE DEF n
<1> DEFINE S == {i \in Nat : i <= n => Alike(X, m, f[i], g[i])}
<1>4. 0 \in S
  BY <1>2, <1>3
<1>5. ASSUME NEW i \in S PROVE i + 1 \in S
  <2>1. i \in Nat /\ (i <= n => Alike(X, m, f[i], g[i]))
    OBVIOUS
  <2> SUFFICES ASSUME i + 1 <= n PROVE Alike(X, m, f[i + 1], g[i + 1])
    BY <2>1
  <2>2. i + 1 \in 1 .. n /\ (i + 1) - 1 = i /\ i <= n
    BY <1>1, <2>1
  <2>3. f[i + 1] = ParseStep(f[i], d[i + 1])
    BY <1>2, <2>2 DEF Step
  <2>4. g[i + 1] = ParseStep(g[i], d[i + 1])
    BY <1>3, <2>2 DEF Step
  <2>5. Alike(X, m, f[i], g[i]) /\ d[i + 1] \in X
    BY <1>1, <2>1, <2>2
  <2>6. Alike(X, m, ParseStep(f[i], d[i + 1]), ParseStep(g[i], d[i + 1]))
    BY <2>5, AlikeStep
  <2> QED
    BY <2>3, <2>4, <2>6
<1>6. S = Nat
  <2>1. S \in SUBSET Nat
    OBVIOUS
  <2> HIDE DEF S
  <2> QED
    BY <1>4, <1>5, <2>1, Induction
<1>7. \A i \in Nat : i <= n => Alike(X, m, f[i], g[i])
  BY <1>6, Zenon
<1>8. Alike(X, m, f[n], g[n])
  BY <1>1, <1>7
<1> QED
  BY <1>2, <1>3, <1>8

AtTag(X, p) == IsParser(X, p) /\ p.at = "tag"

(* A parser starts between two fields, with an empty message.              *)
LEMMA Starts ==
  ASSUME NEW X
  PROVE  /\ AtTag(X, StartParse)
         /\ StartParse.msg.has = {} /\ StartParse.msg.unknown = <<>>
<1>1. Has(X, StartParse, {}, 0, [i \in Strings |-> <<>>], <<>>, "tag", 0, 0, <<>>)
  <2> DEFINE s == [i \in Strings |-> <<>>]
  <2>1. IsTexts(s) /\ <<>> \in Seq(X) /\ Fit("tag", <<>>)
    BY DEF IsTexts, Fit, Ats
  <2>2. StartParse = Parser(Msg({}, 0, s, <<>>), "tag", 0, 0, <<>>)
    BY DEF StartParse, NewMsg, Parser, Msg
  <2> HIDE DEF s
  <2>3. Has(X, Parser(Msg({}, 0, s, <<>>), "tag", 0, 0, <<>>), {}, 0, s, <<>>, "tag", 0, 0, <<>>)
    BY <2>1, PartsOf
  <2> QED
    BY <2>2, <2>3 DEF s
<1> QED
  BY <1>1 DEF Has, AtTag

(* A parser between two fields goes on as MergeFrom does with what a parser*)
(* that starts reads.                                                      *)
LEMMA ParseMerges ==
  ASSUME NEW X, NEW p, NEW d \in Seq(X), AtTag(X, p),
         FoldOf("parse", StartParse, d).at = "tag"
  PROVE  /\ AtTag(X, FoldOf("parse", p, d))
         /\ FoldOf("parse", p, d).msg
              = MergeFrom(p.msg, FoldOf("parse", StartParse, d).msg)
<1> DEFINE m == p.msg
           a == FoldOf("parse", StartParse, d)
           b == FoldOf("parse", p, d)
<1>1. IsParser(X, p) /\ p.at = "tag" /\ p.open = <<>> /\ IsMsg(X, m)
  BY DEF AtTag, IsParser, Fit
<1>2. m.unknown \in Seq(X) /\ IsTexts(m.str)
  BY <1>1 DEF IsMsg
<1>4. Alike(X, m, StartParse, p)
  <2>1. /\ IsParser(X, StartParse) /\ StartParse.at = "tag" /\ StartParse.open = <<>>
        /\ StartParse.msg.has = {} /\ StartParse.msg.unknown = <<>>
    BY Starts DEF AtTag, IsParser, Fit
  <2>2. m.unknown \o <<>> = m.unknown
    BY <1>2, ConcatEmptySeq
  <2> QED
    BY <1>1, <2>1, <2>2 DEF Alike
<1> HIDE DEF m
<1>5. Alike(X, m, a, b)
  BY <1>2, <1>4, AlikeToTheEnd
<1> HIDE DEF a, b
<1>6. a.at = "tag"
  BY DEF a
<1>7. /\ IsParser(X, b) /\ b.at = "tag"
      /\ b.msg.has = m.has \cup a.msg.has
      /\ b.msg.type = IF MsgType \in a.msg.has THEN a.msg.type ELSE m.type
      /\ \A i \in Strings : b.msg.str[i] = IF i \in a.msg.has THEN a.msg.str[i] ELSE m.str[i]
      /\ b.msg.unknown = m.unknown \o a.msg.unknown
  BY <1>5, <1>6 DEF Alike
<1>8. b.msg = Msg(b.msg.has, b.msg.type, b.msg.str, b.msg.unknown) /\ IsTexts(b.msg.str)
  BY <1>7 DEF IsParser, IsMsg
<1>9. b.msg.str = [i \in Strings |-> IF i \in a.msg.has THEN a.msg.str[i] ELSE m.str[i]]
  BY <1>7, <1>8 DEF IsTexts
<1>10. b.msg = MergeFrom(m, a.msg)
  <2> DEFINE h == b.msg.has
             t == b.msg.type
             s == b.msg.str
             u == b.msg.unknown
  <2>1. MergeFrom(m, a.msg) = Msg(h, t, s, u)
    BY <1>7, <1>9 DEF MergeFrom, Msg
  <2> QED
    BY <1>8, <2>1
<1> QED
  BY <1>7, <1>10 DEF a, b, m, AtTag

-----------------------------------------------------------------------------
(* A part of a sequence grows by an element.                               *)
LEMMA PartGrows ==
  ASSUME NEW X, NEW s \in Seq(X), NEW a \in 1 .. Len(s), NEW b \in a .. Len(s)
  PROVE  /\ SubSeq(s, a, b - 1) \in Seq(X)
         /\ SubSeq(s, a, b) = Append(SubSeq(s, a, b - 1), s[b])
<1> DEFINE p == SubSeq(s, a, b - 1)
           q == SubSeq(s, a, b)
           r == Append(p, s[b])
           n == Len(s)
<1>1. n \in Nat /\ a \in Nat /\ b \in Nat /\ a >= 1 /\ a <= b /\ b <= n
  OBVIOUS
<1>2. /\ p \in Seq(X) /\ Len(p) = b - a
      /\ \A i \in 1 .. b - a : p[i] = s[a + i - 1]
  BY <1>1
<1>3. /\ q \in Seq(X) /\ Len(q) = b - a + 1
      /\ \A i \in 1 .. b - a + 1 : q[i] = s[a + i - 1]
  BY <1>1
<1>4. s[b] \in X
  OBVIOUS
<1> HIDE DEF p, q
<1>5. /\ r \in Seq(X) /\ Len(r) = b - a + 1 /\ r[b - a + 1] = s[b]
      /\ \A i \in 1 .. b - a : r[i] = p[i]
  <2> DEFINE x == s[b]
  <2>1. x \in X /\ p \in Seq(X)
    BY <1>2, <1>4
  <2> HIDE DEF x
  <2>2. /\ r \in Seq(X) /\ Len(r) = Len(p) + 1 /\ r[Len(p) + 1] = x
        /\ \A i \in 1 .. Len(p) : r[i] = p[i]
    BY <2>1 DEF x
  <2> HIDE DEF r
  <2> QED
    BY <1>2, <2>2 DEF x
<1> HIDE DEF r, n
<1>6. ASSUME NEW i \in 1 .. b - a + 1 PROVE q[i] = r[i]
  <2>1. CASE i = b - a + 1
    <3>1. a + i - 1 = b
      BY <1>1, <2>1
    <3> QED
      BY <1>3, <1>5, <2>1, <3>1
  <2>2. CASE i # b - a + 1
    <3>1. i \in 1 .. b - a
      BY <1>1, <2>2
    <3> QED
      BY <1>2, <1>3, <1>5, <3>1
  <2> QED
    BY <2>1, <2>2
<1>7. q = r
  BY <1>3, <1>5, <1>6, SeqEqual
<1> QED
  BY <1>2, <1>7 DEF p, q, r

(* A message that is encoded in each of some datagrams.                    *)
Parsed(d) == FoldOf("parse", StartParse, d)
Encode(items, msgs) ==
  /\ \A i \in 1 .. Len(items) : Parsed(items[i]).at = "tag"
  /\ msgs = [i \in 1 .. Len(items) |-> Parsed(items[i]).msg]

(* Datagrams that are parsed as one give the merge of their messages.      *)
LEMMA DatagramsParse ==
  ASSUME NEW X, NEW items \in Seq(Seq(X)), NEW msgs, Encode(items, msgs),
         NEW a \in 1 .. Len(items), NEW b \in a .. Len(items)
  PROVE  LET p == Parsed(FlattenSeq(SubSeq(items, a, b)))
         IN  p.at = "tag" /\ p.msg = FoldOf("merge", NewMsg, SubSeq(msgs, a, b))
<1> DEFINE N == Len(items)
           Y == {msgs[i] : i \in 1 .. N}
           F(e) == FlattenSeq(SubSeq(items, a, e))
           M(e) == FoldOf("merge", NewMsg, SubSeq(msgs, a, e))
           Good(e) == AtTag(X, Parsed(F(e))) /\ Parsed(F(e)).msg = M(e)
           S == {k \in Nat : a - 1 + k <= N => Good(a - 1 + k)}
<1>1. N \in Nat /\ a \in Nat /\ b \in Nat /\ a >= 1 /\ b <= N /\ a <= b
  OBVIOUS
<1>2. \A i \in 1 .. N : items[i] \in Seq(X) /\ Parsed(items[i]).at = "tag"
  BY DEF Encode
<1>3. /\ msgs \in Seq(Y) /\ Len(msgs) = N
      /\ \A i \in 1 .. N : msgs[i] = Parsed(items[i]).msg /\ msgs[i] \in Y
  <2>1. msgs = [i \in 1 .. N |-> Parsed(items[i]).msg]
    BY DEF Encode
  <2>2. \A i \in 1 .. N : msgs[i] = Parsed(items[i]).msg /\ msgs[i] \in Y
    BY <2>1
  <2>3. msgs = [i \in 1 .. N |-> msgs[i]]
    BY <2>1
  <2> HIDE DEF Y
  <2>4. msgs \in Seq(Y) /\ Len(msgs) = N
    BY <1>1, <2>2, <2>3
  <2> QED
    BY <2>2, <2>4
<1> HIDE DEF Y
<1>4. 0 \in S
  <2>1. a - 1 + 0 = a - 1
    BY <1>1
  <2>2. SubSeq(items, a, a - 1) = <<>> /\ SubSeq(msgs, a, a - 1) = <<>>
    <3>1. SubSeq(items, a, a - 1) = <<>>
      BY <1>1
    <3>2. SubSeq(msgs, a, a - 1) = <<>>
      BY <1>1
    <3> QED
      BY <3>1, <3>2
  <2>3. FlattenSeq(<<>>) = <<>>
    BY DEF FlattenSeq
  <2>4. Parsed(<<>>) = StartParse /\ FoldOf("merge", NewMsg, <<>>) = NewMsg
    <3>1. FoldOf("parse", StartParse, <<>>) = StartParse
      BY FoldOne
    <3>2. FoldOf("merge", NewMsg, <<>>) = NewMsg
      BY FoldOne
    <3> QED
      BY <3>1, <3>2 DEF Parsed
  <2>5. AtTag(X, StartParse) /\ StartParse.msg = NewMsg
    <3>1. StartParse.msg = NewMsg
      BY DEF StartParse
    <3> QED
      BY <3>1, Starts
  <2>6. Good(a - 1)
    BY <2>2, <2>3, <2>4, <2>5
  <2> HIDE DEF Good
  <2> QED
    BY <2>1, <2>6
<1>5. ASSUME NEW k \in S PROVE k + 1 \in S
  <2> DEFINE e == a - 1 + k
             d == items[e + 1]
  <2>1. k \in Nat /\ (e <= N => Good(e))
    OBVIOUS
  <2> HIDE DEF Good
  <2> SUFFICES ASSUME e + 1 <= N PROVE Good(e + 1)
    <3>1. a - 1 + (k + 1) = e + 1
      BY <1>1, <2>1
    <3> QED
      BY <2>1, <3>1
  <2>2. e \in Nat /\ e + 1 \in 1 .. N /\ e + 1 \in a .. N /\ (e + 1) - 1 = e /\ e <= N
    BY <1>1, <2>1
  <2> HIDE DEF e
  <2>3. d \in Seq(X) /\ Parsed(d).at = "tag" /\ msgs[e + 1] = Parsed(d).msg
    BY <1>2, <1>3, <2>2
  <2>4. /\ SubSeq(items, a, e) \in Seq(Seq(X))
        /\ SubSeq(items, a, e + 1) = Append(SubSeq(items, a, e), d)
    <3> DEFINE Z == Seq(X)
    <3>1. items \in Seq(Z)
      OBVIOUS
    <3> HIDE DEF Z
    <3>2. /\ SubSeq(items, a, (e + 1) - 1) \in Seq(Z)
          /\ SubSeq(items, a, e + 1) = Append(SubSeq(items, a, (e + 1) - 1), items[e + 1])
      BY <2>2, <3>1, PartGrows
    <3> QED
      BY <2>2, <3>2 DEF Z
  <2>5. /\ SubSeq(msgs, a, e) \in Seq(Y)
        /\ SubSeq(msgs, a, e + 1) = Append(SubSeq(msgs, a, e), msgs[e + 1])
    <3>1. a \in 1 .. Len(msgs) /\ e + 1 \in a .. Len(msgs)
      BY <1>1, <1>3, <2>2
    <3>2. /\ SubSeq(msgs, a, (e + 1) - 1) \in Seq(Y)
          /\ SubSeq(msgs, a, e + 1) = Append(SubSeq(msgs, a, (e + 1) - 1), msgs[e + 1])
      BY <1>3, <3>1, PartGrows
    <3> QED
      BY <2>2, <3>2
  <2> HIDE DEF d
  <2>6. F(e + 1) = F(e) \o d
    <3>1. FlattenSeq(Append(SubSeq(items, a, e), d)) = FlattenSeq(SubSeq(items, a, e)) \o d
      BY <2>3, <2>4, FlattenAppend
    <3> QED
      BY <2>4, <3>1
  <2>7. F(e) \in Seq(X)
    BY <2>4, Flattened
  <2>8. Parsed(F(e + 1)) = FoldOf("parse", Parsed(F(e)), d)
    <3> HIDE DEF F
    <3>1. FoldOf("parse", StartParse, F(e) \o d)
            = FoldOf("parse", FoldOf("parse", StartParse, F(e)), d)
      BY <2>3, <2>7, FoldConcat
    <3> QED
      BY <2>6, <3>1 DEF Parsed
  <2>9. M(e + 1) = MergeFrom(M(e), msgs[e + 1])
    <3> DEFINE s == SubSeq(msgs, a, e)
               x == msgs[e + 1]
    <3>1. s \in Seq(Y) /\ x \in Y /\ <<x>> \in Seq(Y)
      BY <1>3, <2>2, <2>5
    <3>2. SubSeq(msgs, a, e + 1) = Append(s, x)
      BY <2>5
    <3> HIDE DEF s, x
    <3>3. Append(s, x) = s \o <<x>>
      BY <3>1, AppendIsConcat
    <3>4. FoldOf("merge", NewMsg, s \o <<x>>)
            = FoldOf("merge", FoldOf("merge", NewMsg, s), <<x>>)
      <4> DEFINE t == <<x>>
      <4>1. s \in Seq(Y) /\ t \in Seq(Y)
        BY <3>1
      <4> HIDE DEF t
      <4>2. FoldOf("merge", NewMsg, s \o t) = FoldOf("merge", FoldOf("merge", NewMsg, s), t)
        BY <4>1, FoldConcat
      <4> QED
        BY <4>2 DEF t
    <3> DEFINE v == FoldOf("merge", NewMsg, s)
    <3> HIDE DEF v
    <3>5. FoldOf("merge", v, <<x>>) = Step("merge", v, x)
      BY <3>1, FoldOne
    <3>6. Step("merge", v, x) = MergeFrom(v, x)
      BY DEF Step
    <3> QED
      BY <3>2, <3>3, <3>4, <3>5, <3>6 DEF v, s, x
  <2>10. AtTag(X, Parsed(F(e))) /\ Parsed(F(e)).msg = M(e)
    BY <2>1, <2>2 DEF Good
  <2> HIDE DEF F, M
  <2>11. /\ AtTag(X, FoldOf("parse", Parsed(F(e)), d))
         /\ FoldOf("parse", Parsed(F(e)), d).msg = MergeFrom(M(e), Parsed(d).msg)
    <3>1. FoldOf("parse", StartParse, d).at = "tag"
      BY <2>3 DEF Parsed
    <3> DEFINE p == Parsed(F(e))
    <3> HIDE DEF p
    <3>2. AtTag(X, p)
      BY <2>10 DEF p
    <3>3. /\ AtTag(X, FoldOf("parse", p, d))
          /\ FoldOf("parse", p, d).msg
               = MergeFrom(p.msg, FoldOf("parse", StartParse, d).msg)
      BY <2>3, <3>1, <3>2, ParseMerges
    <3> QED
      BY <2>10, <3>3 DEF p, Parsed
  <2> QED
    BY <2>3, <2>8, <2>9, <2>11 DEF Good
<1>6. S = Nat
  <2>1. S \in SUBSET Nat
    OBVIOUS
  <2> HIDE DEF S
  <2> QED
    BY <1>4, <1>5, <2>1, Induction
<1>7. \A k \in Nat : a - 1 + k <= N => Good(a - 1 + k)
  BY <1>6, Zenon
<1>8. Good(b)
  <2> DEFINE k == b - a + 1
  <2>1. k \in Nat /\ a - 1 + k = b
    BY <1>1
  <2> HIDE DEF k, Good
  <2>2. a - 1 + k <= N => Good(a - 1 + k)
    BY <1>7, <2>1
  <2> QED
    BY <1>1, <2>1, <2>2
<1> QED
  BY <1>8 DEF AtTag
=============================================================================

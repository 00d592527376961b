----------------------------- MODULE SlotProofs -----------------------------
(***************************************************************************)
(* Theorems about Slot for any number of objects, any size of a block and  *)
(* any limit on the number of blocks.                                      *)
(***************************************************************************)
EXTENDS Slot, Lemmas, TLAPS

-----------------------------------------------------------------------------
(* A number gives back the block and the element it was made of.           *)
LEMMA Numbering ==
  ASSUME NEW b \in 0 .. MaxBlocks - 1, NEW i \in 0 .. BlockSize - 1
  PROVE  /\ NumberOf(b, i) \in Words
         /\ NumberOf(b, i) \div Shift = b
         /\ NumberOf(b, i) % Shift = i
         /\ NumberOf(b, i) # NoSeq
<1> DEFINE w == NumberOf(b, i)
           q == w \div Shift
           r == w % Shift
           e == q - b
<1>1. Shift \in Nat \ {0} /\ b \in 0 .. Shift - 1 /\ i \in 0 .. Shift - 1
  BY SlotAssumption, SMT
<1>2. w = Shift * b + i /\ w \in Int
  BY <1>1, SMT DEF NumberOf
<1> HIDE DEF w
<1>3. r \in 0 .. Shift - 1 /\ q \in Int /\ w = Shift * q + r
  BY <1>1, <1>2, ModDef
<1> HIDE DEF q, r
<1>4. e \in Int /\ Shift * e = i - r
  BY <1>1, <1>2, <1>3, SMT
<1> HIDE DEF e
<1>5. \A k \in Nat : k >= 1 => Shift * k >= Shift
  BY <1>1, SMT
<1>6. ~(e >= 1)
  BY <1>1, <1>3, <1>4, <1>5, SMT
<1>7. ~(-e >= 1)
  <2>1. SUFFICES ASSUME -e >= 1 PROVE FALSE
    OBVIOUS
  <2>2. Shift * (-e) >= Shift
    BY <1>4, <1>5, <2>1, SMT
  <2>3. Shift * (-e) = -(Shift * e)
    BY <1>1, <1>4, SMT
  <2> QED
    BY <1>1, <1>3, <1>4, <2>2, <2>3, SMT
<1>8. e = 0
  BY <1>4, <1>6, <1>7, SMT
<1>9. q = b /\ r = i
  BY <1>1, <1>3, <1>4, <1>8, SMT DEF e
<1>10. w >= 0 /\ w <= Shift * Shift - 1
  <2>1. Shift * b >= 0
    BY <1>1, SMT
  <2>2. Shift * (Shift - 1 - b) >= 0
    BY <1>1, SMT
  <2>3. Shift * (Shift - 1 - b) = Shift * Shift - Shift - Shift * b
    BY <1>1, SMT
  <2> QED
    BY <1>1, <1>2, <2>1, <2>2, <2>3, SMT
<1> QED
  BY <1>2, <1>9, <1>10 DEF w, q, r, Words, NoSeq

LEMMA ElementPair ==
  ASSUME NEW e \in Elements
  PROVE  /\ e[1] \in 0 .. MaxBlocks - 1
         /\ e[2] \in 0 .. BlockSize - 1
         /\ e = <<e[1], e[2]>>
         /\ e # NULL
  BY SlotAssumption, SMT DEF Elements, NULL

(* The lookup of the number of an element in use finds the element.        *)
LEMMA LookupOwn ==
  ASSUME TypeOK, NEW e \in Elements, InBlocks(e)
  PROVE  getSlotElement(NumberOf(e[1], e[2])) = e
<1>1. e[1] \in 0 .. MaxBlocks - 1 /\ e[2] \in 0 .. BlockSize - 1 /\ e = <<e[1], e[2]>>
  BY ElementPair
<1>2. /\ NumberOf(e[1], e[2]) \div Shift = e[1]
      /\ NumberOf(e[1], e[2]) % Shift = e[2]
  BY <1>1, Numbering
<1>3. ~(e[1] >= nblocks \/ e[2] >= BlockSize)
  BY <1>1, SlotAssumption, SMT DEF InBlocks, TypeOK
<1> QED
  BY <1>1, <1>2, <1>3 DEF getSlotElement

-----------------------------------------------------------------------------
(* The inductive invariant.  What is attached and what an element holds    *)
(* agree in both directions, and a block not yet added holds nothing.      *)
Numbered ==
  \A e \in Elements :
    /\ InBlocks(e) => seq[e] = NumberOf(e[1], e[2])
    /\ ~InBlocks(e) => object[e] = None

Attached ==
  /\ \A o \in Objs : objseq[o] # NoSeq =>
       \E e \in Elements :
         InBlocks(e) /\ object[e] = o /\ objseq[o] = NumberOf(e[1], e[2])
  /\ \A e \in Elements : object[e] # None =>
       objseq[object[e]] = NumberOf(e[1], e[2])

SlotInv == TypeOK /\ Numbered /\ Attached /\ FreeListSound

LEMMA SlotInit == Init => SlotInv
<1> SUFFICES ASSUME Init PROVE SlotInv
  OBVIOUS
<1>1. TypeOK
  BY SlotAssumption DEF Init, SlotElement, TypeOK, NULL, NoSeq
<1>2. Numbered
  <2> SUFFICES ASSUME NEW e \in Elements PROVE ~InBlocks(e) /\ object[e] = None
    BY DEF Numbered
  <2> QED
    BY ElementPair, SMT DEF Init, SlotElement, InBlocks
<1>3. Attached
  BY DEF Init, SlotElement, Attached
<1>4. FreeListSound
  <2>1. \A e \in Elements : ~InBlocks(e)
    BY ElementPair, SMT DEF Init, SlotElement, InBlocks
  <2> QED
    BY <2>1, SMT DEF Init, FreeListSound
<1> QED
  BY <1>1, <1>2, <1>3, <1>4 DEF SlotInv

(* What FreeListSound says of the first of the list.                       *)
LEMMA FirstFree ==
  ASSUME SlotInv
  PROVE  /\ chain \in Seq(Elements)
         /\ free # NULL => /\ chain # <<>>
                           /\ free = chain[1]
                           /\ free \in Elements
                           /\ InBlocks(free)
                           /\ object[free] = None
                           /\ freenext[free] = Successor(1)
         /\ free = NULL => chain = <<>>
<1>1. chain \in Seq(Elements) /\ FreeListSound
  BY DEF SlotInv, TypeOK
<1>2. ASSUME chain # <<>>
      PROVE  /\ 1 \in DOMAIN chain
             /\ chain[1] \in Elements
             /\ chain[1] # NULL
  <2>1. 1 \in DOMAIN chain /\ chain[1] \in Elements
    BY <1>1, <1>2, SMT
  <2> QED
    BY <2>1, ElementPair
<1> QED
  BY <1>1, <1>2, SMT DEF FreeListSound

-----------------------------------------------------------------------------
(* To keep an object in an element that has none keeps the two in step.    *)
LEMMA KeepAttached ==
  ASSUME SlotInv, NEW o \in Objs, NEW a \in Elements,
         objseq[o] = NoSeq, object[a] = None,
         InBlocks(a)', seq'[a] = NumberOf(a[1], a[2]),
         \A e \in Elements : InBlocks(e) => InBlocks(e)',
         Keep(o, a)
  PROVE  Attached'
<1> USE DEF Keep
<1>1. TypeOK /\ Attached
  BY DEF SlotInv
<1>2. /\ objseq' = [objseq EXCEPT ![o] = NumberOf(a[1], a[2])]
      /\ object' = [object EXCEPT ![a] = o]
  OBVIOUS
<1>3. o # None
  BY SlotAssumption
<1>4. ASSUME NEW p \in Objs, objseq'[p] # NoSeq
      PROVE  \E e \in Elements :
               /\ InBlocks(e)'
               /\ object'[e] = p
               /\ objseq'[p] = NumberOf(e[1], e[2])
  <2>1. CASE p = o
    BY <1>1, <1>2, <2>1 DEF TypeOK
  <2>2. CASE p # o
    <3>1. objseq'[p] = objseq[p]
      BY <1>1, <1>2, <2>2 DEF TypeOK
    <3>2. PICK e \in Elements : InBlocks(e) /\ object[e] = p
                                /\ objseq[p] = NumberOf(e[1], e[2])
      BY <1>1, <1>4, <3>1 DEF Attached
    <3>3. e # a
      BY <3>2, SlotAssumption
    <3> QED
      BY <1>1, <1>2, <3>1, <3>2, <3>3 DEF TypeOK
  <2> QED
    BY <2>1, <2>2
<1>5. ASSUME NEW e \in Elements, object'[e] # None
      PROVE  objseq'[object'[e]] = NumberOf(e[1], e[2])
  <2>1. CASE e = a
    BY <1>1, <1>2, <2>1 DEF TypeOK
  <2>2. CASE e # a
    <3>1. object'[e] = object[e] /\ objseq[object[e]] = NumberOf(e[1], e[2])
      BY <1>1, <1>2, <1>5, <2>2 DEF Attached, TypeOK
    <3>2. NumberOf(e[1], e[2]) # NoSeq
      BY ElementPair, Numbering
    <3>3. object[e] # o /\ object[e] \in Objs
      BY <1>1, <1>5, <3>1, <3>2 DEF TypeOK
    <3> QED
      BY <1>1, <1>2, <3>1, <3>3 DEF TypeOK
  <2> QED
    BY <2>1, <2>2
<1> QED
  BY <1>4, <1>5 DEF Attached

-----------------------------------------------------------------------------
(* An object comes to the first free element.                              *)
LEMMA AttachStep ==
  ASSUME SlotInv, NEW o \in Objs, Attach(o)
  PROVE  SlotInv'
<1> USE DEF Attach, Keep
<1>1. TypeOK /\ Numbered /\ Attached /\ FreeListSound
  BY DEF SlotInv
<1>2. /\ chain \in Seq(Elements) /\ chain # <<>>
      /\ free = chain[1]
      /\ free \in Elements /\ InBlocks(free) /\ object[free] = None
      /\ freenext[free] = Successor(1)
  BY FirstFree
<1>3. objseq' = [objseq EXCEPT ![o] = NumberOf(free[1], free[2])]
  BY <1>1, <1>2 DEF Numbered
<1>4. NumberOf(free[1], free[2]) \in Words /\ NumberOf(free[1], free[2]) # NoSeq
  BY <1>2, ElementPair, Numbering
<1>5. TypeOK'
  <2>1. freenext[free] \in Elements \cup {NULL}
    BY <1>1, <1>2 DEF TypeOK
  <2>2. Tail(chain) \in Seq(Elements)
    BY <1>2
  <2> QED
    BY <1>1, <1>3, <1>4, <2>1, <2>2 DEF TypeOK
<1>6. Numbered'
  <2> SUFFICES ASSUME NEW e \in Elements
               PROVE  /\ InBlocks(e)' => seq'[e] = NumberOf(e[1], e[2])
                      /\ ~InBlocks(e)' => object'[e] = None
    BY DEF Numbered
  <2>1. InBlocks(e)' = InBlocks(e)
    BY DEF InBlocks
  <2> QED
    BY <1>1, <1>2, <2>1 DEF Numbered, TypeOK
<1>7. Attached'
  <2>1. PICK a \in Elements : a = free
    BY <1>2
  <2>2. InBlocks(a)' /\ seq'[a] = NumberOf(a[1], a[2])
    BY <1>1, <1>2, <2>1 DEF InBlocks, Numbered
  <2>3. \A e \in Elements : InBlocks(e) => InBlocks(e)'
    BY DEF InBlocks
  <2> QED
    BY <1>2, <2>1, <2>2, <2>3, KeepAttached
<1>8. FreeListSound'
  <2>1. /\ Len(chain') = Len(chain) - 1 /\ Len(chain) \in Nat /\ Len(chain) > 0
        /\ DOMAIN chain = 1 .. Len(chain) /\ DOMAIN chain' = 1 .. Len(chain) - 1
        /\ \A i \in DOMAIN chain' : chain'[i] = chain[i + 1] /\ i + 1 \in DOMAIN chain
    BY <1>2
  <2>2. free' = IF chain' = <<>> THEN NULL ELSE chain'[1]
    <3>1. CASE Len(chain) = 1
      BY <1>2, <2>1, <3>1 DEF Successor
    <3>2. CASE Len(chain) # 1
      <4>1. Len(chain) - 1 >= 1 /\ 1 \in 1 .. Len(chain) - 1
        BY <2>1, <3>2, SMT
      <4>2. 1 \in DOMAIN chain' /\ Len(chain') # 0
        BY <2>1, <4>1
      <4>3. chain'[1] = chain[1 + 1]
        BY <2>1, <4>2
      <4>4. chain' # <<>>
        BY <4>2, Len(<<>>) = 0
      <4>5. freenext[free] = chain[1 + 1]
        BY <1>2, <2>1, <4>1, SMT DEF Successor
      <4> QED
        BY <4>3, <4>4, <4>5
    <3> QED
      BY <3>1, <3>2
  <2>3. \A i \in DOMAIN chain' : freenext'[chain'[i]] = Successor(i)'
    <3> SUFFICES ASSUME NEW i \in DOMAIN chain'
                 PROVE  freenext[chain[i + 1]] = Successor(i)'
      BY <2>1
    <3>1. freenext[chain[i + 1]] = Successor(i + 1)
      BY <1>1, <2>1 DEF FreeListSound
    <3>2. Successor(i)' = Successor(i + 1)
      BY <2>1 DEF Successor
    <3> QED
      BY <3>1, <3>2
  <2>4. \A i, j \in DOMAIN chain' : chain'[i] = chain'[j] => i = j
    BY <1>1, <2>1 DEF FreeListSound
  <2>5. \A i \in DOMAIN chain' : chain'[i] # free
    BY <1>1, <1>2, <2>1 DEF FreeListSound
  <2>6. ASSUME NEW e \in Elements
        PROVE  (InBlocks(e)' /\ object'[e] = None)
                 <=> (\E i \in DOMAIN chain' : chain'[i] = e)
    <3>1. CASE e = free
      BY <1>1, <2>5, <3>1, SlotAssumption DEF TypeOK
    <3>2. CASE e # free
      <4>1. (InBlocks(e)' /\ object'[e] = None) <=> (InBlocks(e) /\ object[e] = None)
        BY <1>1, <3>2 DEF TypeOK, InBlocks
      <4>2. (\E i \in DOMAIN chain : chain[i] = e)
              <=> (\E i \in DOMAIN chain' : chain'[i] = e)
        <5>1. ASSUME NEW i \in DOMAIN chain, chain[i] = e
              PROVE  i - 1 \in DOMAIN chain' /\ chain'[i - 1] = e
          <6>1. i # 1
            BY <1>2, <3>2, <5>1
          <6>2. i - 1 \in DOMAIN chain'
            BY <2>1, <6>1
          <6> QED
            BY <2>1, <5>1, <6>2
        <5> QED
          BY <2>1, <5>1
      <4> QED
        BY <1>1, <4>1, <4>2 DEF FreeListSound
    <3> QED
      BY <3>1, <3>2
  <2> QED
    BY <2>2, <2>3, <2>4, <2>6 DEF FreeListSound
<1> QED
  BY <1>5, <1>6, <1>7, <1>8 DEF SlotInv

-----------------------------------------------------------------------------
(* An object comes to the first element of a new block.                    *)
LEMMA NewChain ==
  ASSUME SlotInv, NEW o \in Objs, AttachNew(o)
  PROVE  /\ chain = <<>>
         /\ nblocks \in 0 .. MaxBlocks - 1
         /\ chain' \in Seq(Elements)
         /\ Len(chain') = BlockSize - 1
         /\ DOMAIN chain' = 1 .. BlockSize - 1
         /\ \A i \in 1 .. BlockSize - 1 : chain'[i] = <<nblocks, i>>
<1>1. chain = <<>>
  BY FirstFree DEF AttachNew
<1>2. nblocks \in 0 .. MaxBlocks - 1
  BY SlotAssumption, SMT DEF SlotInv, TypeOK, AttachNew, expandBlock
<1>3. BlockSize \in Nat /\ BlockSize > 0
  BY SlotAssumption, SMT
<1>4. \A i \in 1 .. BlockSize : <<nblocks, i - 1>> \in Elements
  BY <1>2, <1>3, SMT DEF Elements
<1>5. /\ BlockList \in Seq(Elements)
      /\ Len(BlockList) = BlockSize
      /\ \A i \in 1 .. BlockSize : BlockList[i] = <<nblocks, i - 1>>
  BY <1>3, <1>4 DEF BlockList, NewElement
<1>6. chain' = Tail(BlockList)
  <2>1. BlockList \o <<>> = BlockList
    BY <1>5
  <2> QED
    BY <1>1, <2>1 DEF AttachNew
<1>7. /\ chain' \in Seq(Elements)
      /\ Len(chain') = BlockSize - 1
      /\ \A i \in 1 .. BlockSize - 1 : chain'[i] = BlockList[i + 1]
  BY <1>3, <1>5, <1>6
<1>8. \A i \in 1 .. BlockSize - 1 : BlockList[i + 1] = <<nblocks, i>>
  BY <1>3, <1>5
<1> QED
  BY <1>1, <1>2, <1>3, <1>7, <1>8, SMTT(20)

LEMMA AttachNewStep ==
  ASSUME SlotInv, NEW o \in Objs, AttachNew(o)
  PROVE  SlotInv'
<1>1. TypeOK /\ Numbered /\ Attached /\ FreeListSound
  BY DEF SlotInv
<1>2. BlockSize \in Nat /\ BlockSize > 0
  BY SlotAssumption, SMT
<1>3. PICK n \in 0 .. MaxBlocks - 1 :
        /\ n = nblocks
        /\ chain = <<>> /\ chain' \in Seq(Elements)
        /\ Len(chain') = BlockSize - 1 /\ DOMAIN chain' = 1 .. BlockSize - 1
        /\ \A i \in 1 .. BlockSize - 1 : chain'[i] = <<n, i>>
  BY NewChain
<1>4. n \in Nat /\ nblocks' = n + 1 /\ \A e \in Elements : e[1] \in Nat
  BY <1>3, ElementPair, SlotAssumption, SMT DEF AttachNew, expandBlock
<1>5. \A e \in Elements : InBlocks(e)' <=> (InBlocks(e) \/ e[1] = n)
  BY <1>3, <1>4, SMT DEF InBlocks
<1>6. PICK a \in Elements : a = <<n, 0>>
  <2>1. 0 \in 0 .. BlockSize - 1
    BY <1>2, SMT
  <2>2. <<n, 0>> \in Elements
    BY <2>1 DEF Elements
  <2> QED
    BY <2>2
<1>7. \A e \in Elements : e[1] = n => ~InBlocks(e) /\ object[e] = None
  BY <1>1, <1>3, <1>4, SMT DEF InBlocks, Numbered
<1>8. Keep(o, a) /\ objseq[o] = NoSeq /\ object[a] = None
  BY <1>3, <1>6, <1>7 DEF AttachNew, NewElement
<1>9. object' = [object EXCEPT ![a] = o] /\ object' \in [Elements -> Objs \cup {None}]
  BY <1>1, <1>8 DEF Keep, TypeOK
<1>10. seq' = [e \in Elements |-> IF e[1] = n THEN NumberOf(e[1], e[2]) ELSE seq[e]]
  BY <1>3 DEF AttachNew, expandBlock
<1>11. free = NULL /\ \A i \in 0 .. BlockSize - 1 :
          <<n, i>> \in Elements
          /\ freenext'[<<n, i>>] = IF i + 1 < BlockSize THEN <<n, i + 1>> ELSE NULL
  <2>1. free = NULL
    BY DEF AttachNew
  <2> SUFFICES ASSUME NEW i \in 0 .. BlockSize - 1
               PROVE  <<n, i>> \in Elements
          /\ freenext'[<<n, i>>] = IF i + 1 < BlockSize THEN <<n, i + 1>> ELSE NULL
    BY <2>1
  <2>2. <<n, i>> \in Elements
    BY <1>3 DEF Elements
  <2> QED
    BY <1>3, <2>1, <2>2 DEF AttachNew, expandBlock, After, NewElement
<1>12. free' = IF 1 < BlockSize THEN <<n, 1>> ELSE NULL
  <2>1. 0 \in 0 .. BlockSize - 1
    BY <1>2, SMT
  <2>2. free' = freenext'[<<n, 0>>]
    BY <1>3 DEF AttachNew, NewElement
  <2> QED
    BY <1>11, <2>1, <2>2, SMT
<1>13. TypeOK'
  <2>1. nblocks' \in 0 .. MaxBlocks
    BY <1>3, <1>4, SlotAssumption, SMT
  <2>2. \A e \in Elements : NumberOf(e[1], e[2]) \in Words
    BY ElementPair, Numbering
  <2>3. seq' \in [Elements -> Words \cup {NoSeq}]
    BY <1>1, <1>10, <2>2 DEF TypeOK
  <2>4. \A i \in 0 .. BlockSize - 1 : After(i) \in Elements \cup {NULL}
    BY <1>2, <1>3, <1>11, SMTT(20) DEF After, NewElement
  <2>5. \A e \in Elements : e[2] \in 0 .. BlockSize - 1
    BY ElementPair
  <2>6. freenext' \in [Elements -> Elements \cup {NULL}]
    BY <1>1, <2>4, <2>5 DEF TypeOK, AttachNew, expandBlock
  <2>7. free' \in Elements \cup {NULL}
    <3>1. 1 < BlockSize => 1 \in 0 .. BlockSize - 1
      BY <1>2, SMT
    <3>2. 1 < BlockSize => <<n, 1>> \in Elements
      BY <3>1 DEF Elements
    <3> QED
      BY <1>12, <3>2
  <2>8. seq'[a] \in Words
    BY <1>6, <1>10, <2>2
  <2>9. objseq' \in [Objs -> Words \cup {NoSeq}]
    BY <1>1, <1>8, <2>8 DEF TypeOK, Keep
  <2> QED
    BY <1>3, <1>9, <2>1, <2>3, <2>6, <2>7, <2>9 DEF TypeOK
<1>14. Numbered'
  <2> SUFFICES ASSUME NEW e \in Elements
               PROVE  /\ InBlocks(e)' => seq'[e] = NumberOf(e[1], e[2])
                      /\ ~InBlocks(e)' => object'[e] = None
    BY DEF Numbered
  <2>1. ~InBlocks(e)' => e # a
    BY <1>5, <1>6
  <2> QED
    BY <1>1, <1>5, <1>9, <1>10, <2>1 DEF Numbered, TypeOK
<1>15. Attached'
  <2>1. InBlocks(a)' /\ seq'[a] = NumberOf(a[1], a[2])
    BY <1>5, <1>6, <1>10
  <2> QED
    BY <1>5, <1>8, <2>1, KeepAttached
<1>16. FreeListSound'
  <2>1. free' = IF chain' = <<>> THEN NULL ELSE chain'[1]
    <3>1. CASE 1 < BlockSize
      <4>1. 1 \in 1 .. BlockSize - 1
        BY <1>2, <3>1, SMT
      <4> QED
        BY <1>3, <1>12, <3>1, <4>1
    <3>2. CASE ~(1 < BlockSize)
      <4>1. Len(chain') = 0
        BY <1>2, <1>3, <3>2, SMT
      <4> QED
        BY <1>3, <1>12, <3>2, <4>1
    <3> QED
      BY <3>1, <3>2
  <2>2. ASSUME NEW i \in DOMAIN chain' PROVE freenext'[chain'[i]] = Successor(i)'
    <3>1. i \in 0 .. BlockSize - 1 /\ i \in Nat /\ chain'[i] = <<n, i>>
      BY <1>2, <1>3, SMT
    <3>2. CASE i + 1 < BlockSize
      <4>1. i < BlockSize - 1 /\ i + 1 \in 1 .. BlockSize - 1
        BY <1>2, <3>1, <3>2, SMT
      <4> QED
        BY <1>3, <1>11, <3>1, <3>2, <4>1 DEF Successor
    <3>3. CASE ~(i + 1 < BlockSize)
      <4>1. ~(i < BlockSize - 1)
        BY <1>2, <3>1, <3>3, SMT
      <4> QED
        BY <1>3, <1>11, <3>1, <3>3, <4>1 DEF Successor, NULL
    <3> QED
      BY <3>2, <3>3
  <2>3. \A i, j \in DOMAIN chain' : chain'[i] = chain'[j] => i = j
    BY <1>3
  <2>4. ASSUME NEW e \in Elements
        PROVE  (InBlocks(e)' /\ object'[e] = None)
                 <=> (\E i \in DOMAIN chain' : chain'[i] = e)
    <3>1. e[2] \in 0 .. BlockSize - 1 /\ e = <<e[1], e[2]>>
      BY ElementPair
    <3>2. CASE e = a
      <4>1. object'[e] # None
        BY <1>1, <1>9, <3>2, SlotAssumption DEF TypeOK
      <4>2. \A i \in 1 .. BlockSize - 1 : <<n, i>> # <<n, 0>>
        BY <1>2, SMT
      <4> QED
        BY <1>3, <1>6, <3>2, <4>1, <4>2
    <3>3. CASE e # a /\ e[1] = n
      <4>1. InBlocks(e)' /\ object'[e] = None
        BY <1>1, <1>5, <1>7, <1>9, <3>3 DEF TypeOK
      <4>2. e[2] # 0
        BY <1>6, <3>1, <3>3
      <4>3. e[2] \in 1 .. BlockSize - 1
        BY <1>2, <3>1, <4>2, SMT
      <4> QED
        BY <1>3, <3>1, <3>3, <4>1, <4>3
    <3>4. CASE e # a /\ e[1] # n
      <4>1. ~(InBlocks(e) /\ object[e] = None)
        BY <1>1, <1>3 DEF FreeListSound
      <4>2. object'[e] = object[e]
        BY <1>1, <1>9, <3>4 DEF TypeOK
      <4>3. \A i \in 1 .. BlockSize - 1 : <<n, i>> # e
        BY <3>4
      <4> QED
        BY <1>3, <1>5, <3>4, <4>1, <4>2, <4>3
    <3> QED
      BY <3>2, <3>3, <3>4
  <2> QED
    BY <2>1, <2>2, <2>3, <2>4 DEF FreeListSound
<1> QED
  BY <1>13, <1>14, <1>15, <1>16 DEF SlotInv

-----------------------------------------------------------------------------
(* An object leaves its element.                                           *)
LEMMA Leaves ==
  ASSUME SlotInv, NEW o \in Objs, Detach(o)
  PROVE  \E e \in Elements :
           /\ InBlocks(e) /\ object[e] = o /\ objseq[o] = NumberOf(e[1], e[2])
           /\ freeOldSlot(e)
<1>1. PICK e \in Elements :
        InBlocks(e) /\ object[e] = o /\ objseq[o] = NumberOf(e[1], e[2])
  BY DEF SlotInv, Attached, Detach
<1>2. getSlotElement(objseq[o]) = e
  BY <1>1, LookupOwn DEF SlotInv
<1>3. e # NULL /\ object[e] # None
  BY <1>1, ElementPair, SlotAssumption
<1> QED
  BY <1>1, <1>2, <1>3 DEF Detach

LEMMA DetachStep ==
  ASSUME SlotInv, NEW o \in Objs, Detach(o)
  PROVE  SlotInv'
<1>1. TypeOK /\ Numbered /\ Attached /\ FreeListSound
  BY DEF SlotInv
<1>2. PICK a \in Elements :
        /\ InBlocks(a) /\ object[a] = o /\ objseq[o] = NumberOf(a[1], a[2])
        /\ freeOldSlot(a)
  BY Leaves
<1>3. /\ freenext' = [freenext EXCEPT ![a] = free]
      /\ object' = [object EXCEPT ![a] = None]
      /\ objseq' = [objseq EXCEPT ![o] = NoSeq]
      /\ free' = a /\ chain' = <<a>> \o chain
      /\ nblocks' = nblocks /\ seq' = seq
  BY <1>2 DEF Detach, freeOldSlot
<1>4. /\ chain \in Seq(Elements) /\ chain' \in Seq(Elements)
      /\ Len(chain) \in Nat /\ Len(chain') = Len(chain) + 1
      /\ DOMAIN chain = 1 .. Len(chain) /\ DOMAIN chain' = 1 .. Len(chain) + 1
      /\ chain'[1] = a
      /\ \A i \in 1 .. Len(chain) : chain'[i + 1] = chain[i]
  BY <1>1, <1>3 DEF TypeOK
<1>5. \A e \in Elements : InBlocks(e)' <=> InBlocks(e)
  BY <1>3 DEF InBlocks
<1>6. TypeOK'
  BY <1>1, <1>3, <1>4 DEF TypeOK
<1>7. Numbered'
  BY <1>1, <1>3, <1>5 DEF Numbered, TypeOK
<1>8. Attached'
  <2>1. ASSUME NEW p \in Objs, objseq'[p] # NoSeq
        PROVE  \E e \in Elements :
                 /\ InBlocks(e)'
                 /\ object'[e] = p
                 /\ objseq'[p] = NumberOf(e[1], e[2])
    <3>1. p # o /\ objseq'[p] = objseq[p]
      BY <1>1, <1>3, <2>1 DEF TypeOK
    <3>2. PICK e \in Elements : InBlocks(e) /\ object[e] = p
                                /\ objseq[p] = NumberOf(e[1], e[2])
      BY <1>1, <2>1, <3>1 DEF Attached
    <3>3. object'[e] = p
      BY <1>1, <1>2, <1>3, <3>1, <3>2 DEF TypeOK
    <3> QED
      BY <1>5, <3>1, <3>2, <3>3
  <2>2. ASSUME NEW e \in Elements, object'[e] # None
        PROVE  objseq'[object'[e]] = NumberOf(e[1], e[2])
    <3>1. e # a /\ object'[e] = object[e] /\ object[e] \in Objs
      BY <1>1, <1>3, <2>2 DEF TypeOK
    <3>2. objseq[object[e]] = NumberOf(e[1], e[2])
      BY <1>1, <2>2, <3>1 DEF Attached
    <3>3. ASSUME object[e] = o PROVE FALSE
      <4>1. getSlotElement(NumberOf(a[1], a[2])) = a
        BY <1>1, <1>2, LookupOwn
      <4>2. InBlocks(e)
        BY <1>1, <2>2, <3>1 DEF Numbered
      <4>3. getSlotElement(NumberOf(e[1], e[2])) = e
        BY <1>1, <4>2, LookupOwn
      <4> QED
        BY <1>2, <3>1, <3>2, <3>3, <4>1, <4>3
    <3> QED
      BY <1>1, <1>3, <3>1, <3>2, <3>3 DEF TypeOK
  <2> QED
    BY <2>1, <2>2 DEF Attached
<1>9. FreeListSound'
  <2>1. free' = IF chain' = <<>> THEN NULL ELSE chain'[1]
    <3>1. chain' # <<>>
      BY <1>4
    <3> QED
      BY <1>3, <1>4, <3>1
  <2>2. \A i \in DOMAIN chain : chain[i] # a /\ chain[i] \in Elements
    <3>1. ~(InBlocks(a) /\ object[a] = None)
      BY <1>2, SlotAssumption
    <3> QED
      BY <1>1, <1>4, <3>1 DEF FreeListSound
  <2>3. ASSUME NEW i \in DOMAIN chain'
        PROVE  i = 1 \/ (i - 1 \in DOMAIN chain /\ chain'[i] = chain[i - 1])
    <3>1. i = 1 \/ (i - 1 \in 1 .. Len(chain) /\ i = (i - 1) + 1)
      BY <1>4, SMT
    <3> QED
      BY <1>4, <3>1
  <2>4. ASSUME NEW i \in DOMAIN chain' PROVE freenext'[chain'[i]] = Successor(i)'
    <3>1. CASE i = 1
      <4>1. freenext'[chain'[1]] = free
        BY <1>1, <1>3, <1>4 DEF TypeOK
      <4>2. CASE chain = <<>>
        <5>1. ~(1 < Len(chain'))
          BY <1>4, <4>2
        <5> QED
          BY <1>1, <3>1, <4>1, <4>2, <5>1 DEF FreeListSound, Successor
      <4>3. CASE chain # <<>>
        <5>1. 1 < Len(chain') /\ 1 \in 1 .. Len(chain)
          BY <1>4, <4>3
        <5>2. chain'[1 + 1] = chain[1]
          BY <1>4, <5>1
        <5> QED
          BY <1>1, <3>1, <4>1, <4>3, <5>1, <5>2 DEF FreeListSound, Successor
      <4> QED
        BY <4>2, <4>3
    <3>2. CASE i # 1
      <4>1. i - 1 \in DOMAIN chain /\ chain'[i] = chain[i - 1]
        BY <2>3, <3>2
      <4>2. freenext'[chain'[i]] = Successor(i - 1)
        BY <1>1, <1>3, <2>2, <4>1 DEF TypeOK, FreeListSound
      <4>3. CASE i < Len(chain')
        <5>1. i \in 1 .. Len(chain) /\ i - 1 < Len(chain) /\ (i - 1) + 1 = i
          BY <1>4, <4>3, SMT
        <5>2. chain'[i + 1] = chain[i]
          BY <1>4, <5>1
        <5> QED
          BY <4>2, <4>3, <5>1, <5>2 DEF Successor
      <4>4. CASE ~(i < Len(chain'))
        <5>1. ~(i - 1 < Len(chain))
          BY <1>4, <4>4, SMT
        <5> QED
          BY <4>2, <4>4, <5>1 DEF Successor, NULL
      <4> QED
        BY <4>3, <4>4
    <3> QED
      BY <3>1, <3>2
  <2>5. ASSUME NEW i \in DOMAIN chain', NEW j \in DOMAIN chain', chain'[i] = chain'[j]
        PROVE  i = j
    <3>1. CASE i = 1 \/ j = 1
      BY <1>4, <2>2, <2>3, <2>5, <3>1
    <3>2. CASE i # 1 /\ j # 1
      <4>1. /\ i - 1 \in DOMAIN chain /\ j - 1 \in DOMAIN chain
            /\ chain[i - 1] = chain[j - 1]
        BY <2>3, <2>5, <3>2
      <4>2. i - 1 = j - 1
        BY <1>1, <4>1 DEF FreeListSound
      <4> QED
        BY <1>4, <4>2, SMT
    <3> QED
      BY <3>1, <3>2
  <2>6. ASSUME NEW e \in Elements
        PROVE  (InBlocks(e)' /\ object'[e] = None)
                 <=> (\E i \in DOMAIN chain' : chain'[i] = e)
    <3>1. 1 \in DOMAIN chain'
      BY <1>4, SMT
    <3>2. CASE e = a
      BY <1>1, <1>2, <1>3, <1>4, <1>5, <3>1, <3>2 DEF TypeOK
    <3>3. CASE e # a
      <4>1. (InBlocks(e)' /\ object'[e] = None) <=> (InBlocks(e) /\ object[e] = None)
        BY <1>1, <1>3, <1>5, <3>3 DEF TypeOK
      <4>2. ASSUME NEW i \in DOMAIN chain, chain[i] = e
            PROVE  \E j \in DOMAIN chain' : chain'[j] = e
        <5>1. i + 1 \in DOMAIN chain' /\ i \in 1 .. Len(chain)
          BY <1>4, SMT
        <5> QED
          BY <1>4, <4>2, <5>1
      <4>3. ASSUME NEW i \in DOMAIN chain', chain'[i] = e
            PROVE  \E j \in DOMAIN chain : chain[j] = e
        BY <1>4, <2>3, <3>3, <4>3
      <4> QED
        BY <1>1, <4>1, <4>2, <4>3 DEF FreeListSound
    <3> QED
      BY <3>2, <3>3
  <2> QED
    BY <2>1, <2>4, <2>5, <2>6 DEF FreeListSound
<1> QED
  BY <1>6, <1>7, <1>8, <1>9 DEF SlotInv

-----------------------------------------------------------------------------
(* The invariant holds whatever comes and goes.                            *)
LEMMA SlotNext == SlotInv /\ [Next]_vars => SlotInv'
<1> SUFFICES ASSUME SlotInv, [Next]_vars PROVE SlotInv'
  OBVIOUS
<1>1. ASSUME UNCHANGED vars PROVE SlotInv'
  BY <1>1 DEF vars, SlotInv, TypeOK, Numbered, Attached, FreeListSound, InBlocks,
              Successor
<1>2. ASSUME NEW o \in Objs, Attach(o) PROVE SlotInv'
  BY <1>2, AttachStep
<1>3. ASSUME NEW o \in Objs, AttachNew(o) PROVE SlotInv'
  BY <1>3, AttachNewStep
<1>4. ASSUME NEW o \in Objs, AttachFails(o) PROVE SlotInv'
  BY <1>1, <1>4 DEF AttachFails
<1>5. ASSUME NEW o \in Objs, Detach(o) PROVE SlotInv'
  BY <1>5, DetachStep
<1> QED
  BY <1>1, <1>2, <1>3, <1>4, <1>5 DEF Next

LEMMA SlotInvariant == Spec => []SlotInv
<1>1. Init => SlotInv
  BY SlotInit
<1>2. SlotInv /\ [Next]_vars => SlotInv'
  BY SlotNext
<1> QED
  BY <1>1, <1>2, PTL DEF Spec

(* The state of the slots keeps its types: no link leaves the blocks, and  *)
(* every number fits its word.                                             *)
THEOREM SlotTypeCorrect == Spec => []TypeOK
<1>1. SlotInv => TypeOK
  BY DEF SlotInv
<1> QED
  BY <1>1, SlotInvariant, PTL

(* The free list holds each element without an object once, and only       *)
(* those, and ends (slot.h:146, slot.h:163, slot.h:225).                   *)
THEOREM FreeListAlwaysSound == Spec => []FreeListSound
<1>1. SlotInv => FreeListSound
  BY DEF SlotInv
<1> QED
  BY <1>1, SlotInvariant, PTL

(* What is attached is found under its number until it is detached         *)
(* (pollerunit.cpp:121, pollerunit.cpp:146).                               *)
THEOREM AlwaysFound == Spec => []Found
<1>1. SlotInv => Found
  <2> SUFFICES ASSUME SlotInv, NEW o \in Objs, objseq[o] # NoSeq
               PROVE  /\ getSlotElement(objseq[o]) # NULL
                      /\ object[getSlotElement(objseq[o])] = o
    BY DEF Found
  <2>1. PICK e \in Elements :
          InBlocks(e) /\ object[e] = o /\ objseq[o] = NumberOf(e[1], e[2])
    BY DEF SlotInv, Attached
  <2>2. getSlotElement(objseq[o]) = e /\ e # NULL
    BY <2>1, LookupOwn, ElementPair DEF SlotInv
  <2> QED
    BY <2>1, <2>2
<1> QED
  BY <1>1, SlotInvariant, PTL

(* Any number names the element that has it, or nothing (slot.h:200).      *)
THEOREM LookupAlwaysRight == Spec => []LookupRight
<1>1. SlotInv => LookupRight
  <2> SUFFICES ASSUME SlotInv, NEW w \in Words
               PROVE  IF getSlotElement(w) = NULL
                        THEN \A f \in Elements : InBlocks(f) => seq[f] # w
                        ELSE getSlotElement(w) \in Elements /\ seq[getSlotElement(w)] = w
    BY DEF LookupRight
  <2> DEFINE b == w \div Shift
             i == w % Shift
  <2>1. TypeOK /\ Numbered
    BY DEF SlotInv
  <2>2. Shift \in Nat \ {0} /\ BlockSize \in Nat /\ w \in Nat /\ nblocks \in 0 .. MaxBlocks
    BY <2>1, SlotAssumption, SMT DEF Words, TypeOK
  <2>3. b \in Int /\ i \in 0 .. Shift - 1 /\ w = Shift * b + i
    BY <2>2, ModDef
  <2> HIDE DEF b, i
  <2>4. b \in Nat
    <3>1. b < 0 => Shift * (-b) >= Shift
      BY <2>2, <2>3, SMT
    <3>2. Shift * (-b) = -(Shift * b)
      BY <2>2, <2>3, SMT
    <3> QED
      BY <2>2, <2>3, <3>1, <3>2, SMT
  <2>5. CASE b >= nblocks \/ i >= BlockSize
    <3>1. getSlotElement(w) = NULL
      BY <2>5 DEF getSlotElement, b, i
    <3>2. \A f \in Elements : InBlocks(f) => seq[f] # w
      BY <2>1, <3>1, LookupOwn, ElementPair DEF Numbered
    <3> QED
      BY <3>1, <3>2
  <2>6. CASE ~(b >= nblocks \/ i >= BlockSize)
    <3>1. b \in 0 .. MaxBlocks - 1 /\ i \in 0 .. BlockSize - 1 /\ b < nblocks
      BY <2>2, <2>3, <2>4, <2>6, SlotAssumption, SMT
    <3>2. getSlotElement(w) = <<b, i>>
      BY <2>6 DEF getSlotElement, b, i
    <3>3. <<b, i>> \in Elements /\ InBlocks(<<b, i>>)
      BY <3>1 DEF Elements, InBlocks
    <3>4. seq[<<b, i>>] = NumberOf(b, i)
      BY <2>1, <3>3 DEF Numbered
    <3>5. NumberOf(b, i) = w
      BY <2>2, <2>3, SMT DEF NumberOf
    <3>6. <<b, i>> # NULL
      BY <3>3, ElementPair
    <3> QED
      BY <3>2, <3>3, <3>4, <3>5, <3>6
  <2> QED
    BY <2>5, <2>6
<1> QED
  BY <1>1, SlotInvariant, PTL

-----------------------------------------------------------------------------
(* The slots implement the map of SlotMap.                                 *)
LEMMA AtNumber ==
  /\ \A e \in Elements :
       /\ NumberOf(e[1], e[2]) \in Numbers
       /\ ObjectAt[NumberOf(e[1], e[2])] = object[e]
       /\ ObjectAt'[NumberOf(e[1], e[2])] = object'[e]
  /\ \A e, f \in Elements :
       NumberOf(e[1], e[2]) = NumberOf(f[1], f[2]) => e = f
<1>1. \A e \in Elements :
        LET w == NumberOf(e[1], e[2]) IN <<w \div Shift, w % Shift>> = e
  BY ElementPair, Numbering
<1>2. \A e \in Elements : NumberOf(e[1], e[2]) \in Numbers
  BY DEF Numbers
<1> QED
  BY <1>1, <1>2 DEF ObjectAt

LEMMA MapAdds ==
  ASSUME SlotInv, NEW o \in Objs, NEW a \in Elements,
         objseq[o] = NoSeq, object[a] = None,
         object' = [object EXCEPT ![a] = o]
  PROVE  Map!Add
<1> DEFINE s == NumberOf(a[1], a[2])
<1>1. TypeOK /\ Attached
  BY DEF SlotInv
<1>2. s \in Numbers /\ ObjectAt[s] = None
  BY AtNumber
<1>3. ASSUME NEW t \in Numbers PROVE ObjectAt[t] # o
  <2>1. PICK f \in Elements : t = NumberOf(f[1], f[2])
    BY DEF Numbers
  <2>2. SUFFICES ASSUME object[f] = o PROVE FALSE
    BY <2>1, AtNumber
  <2>3. objseq[o] = t /\ t # NoSeq
    BY <1>1, <2>1, <2>2, ElementPair, Numbering, SlotAssumption DEF Attached
  <2> QED
    BY <2>3
<1>4. ObjectAt' = [ObjectAt EXCEPT ![s] = o]
  <2>1. ASSUME NEW t \in Numbers
        PROVE  ObjectAt'[t] = IF t = s THEN o ELSE ObjectAt[t]
    <3>1. PICK f \in Elements : t = NumberOf(f[1], f[2])
      BY DEF Numbers
    <3>2. (t = s) <=> (f = a)
      BY <3>1, AtNumber
    <3>3. object'[f] = IF f = a THEN o ELSE object[f]
      BY <1>1 DEF TypeOK
    <3>4. ObjectAt'[t] = object'[f] /\ ObjectAt[t] = object[f]
      BY <3>1, AtNumber
    <3> QED
      BY <3>2, <3>3, <3>4
  <2>2. ObjectAt = [t \in Numbers |-> ObjectAt[t]]
        /\ ObjectAt' = [t \in Numbers |-> ObjectAt'[t]]
    BY DEF ObjectAt, Numbers
  <2> HIDE DEF s
  <2> QED
    BY <1>2, <2>1, <2>2
<1> HIDE DEF s
<1> QED
  BY <1>2, <1>3, <1>4 DEF Map!Add

LEMMA MapRemoves ==
  ASSUME SlotInv, NEW o \in Objs, Detach(o)
  PROVE  Map!Remove
<1>1. PICK a \in Elements : object[a] = o /\ freeOldSlot(a)
  BY Leaves
<1> DEFINE s == NumberOf(a[1], a[2])
<1>2. s \in Numbers /\ ObjectAt[s] # None
  BY <1>1, AtNumber, SlotAssumption
<1>3. ObjectAt' = [ObjectAt EXCEPT ![s] = None]
  <2>1. ASSUME NEW t \in Numbers
        PROVE  ObjectAt'[t] = IF t = s THEN None ELSE ObjectAt[t]
    <3>1. PICK f \in Elements : t = NumberOf(f[1], f[2])
      BY DEF Numbers
    <3>2. (t = s) <=> (f = a)
      BY <3>1, AtNumber
    <3>3. object'[f] = IF f = a THEN None ELSE object[f]
      BY <1>1 DEF SlotInv, TypeOK, freeOldSlot
    <3>4. ObjectAt'[t] = object'[f] /\ ObjectAt[t] = object[f]
      BY <3>1, AtNumber
    <3> QED
      BY <3>2, <3>3, <3>4
  <2>2. ObjectAt = [t \in Numbers |-> ObjectAt[t]]
        /\ ObjectAt' = [t \in Numbers |-> ObjectAt'[t]]
    BY DEF ObjectAt, Numbers
  <2> HIDE DEF s
  <2> QED
    BY <1>2, <2>1, <2>2
<1> HIDE DEF s
<1> QED
  BY <1>2, <1>3 DEF Map!Remove

(* Numbers name objects as the map promises: an object comes to a number   *)
(* no other has, under no second one, and leaves by its own departure only *)
(* (slot.h:146, slot.h:200, pollerunit.cpp:121).                           *)
THEOREM SlotImplementsMap == Spec => MapSpec
<1>1. Init => Map!Init
  <2> SUFFICES ASSUME Init, NEW t \in Numbers PROVE ObjectAt[t] = None
    BY DEF Map!Init, ObjectAt
  <2>1. PICK f \in Elements : t = NumberOf(f[1], f[2])
    BY DEF Numbers
  <2> QED
    BY <2>1, AtNumber DEF Init, SlotElement
<1>2. SlotInv /\ [Next]_vars => [Map!Next]_ObjectAt
  <2> SUFFICES ASSUME SlotInv, [Next]_vars PROVE Map!Next \/ UNCHANGED ObjectAt
    BY DEF Map!Next
  <2>1. ASSUME UNCHANGED object PROVE UNCHANGED ObjectAt
    BY <2>1 DEF ObjectAt, Numbers
  <2>2. ASSUME NEW o \in Objs, Attach(o) PROVE Map!Add
    <3>1. free \in Elements /\ object[free] = None /\ objseq[o] = NoSeq
      BY <2>2, FirstFree DEF Attach
    <3>2. object' = [object EXCEPT ![free] = o]
      BY <2>2 DEF Attach, Keep
    <3> QED
      BY <3>1, <3>2, MapAdds
  <2>3. ASSUME NEW o \in Objs, AttachNew(o) PROVE Map!Add
    <3>1. /\ chain = <<>> /\ nblocks \in 0 .. MaxBlocks - 1
          /\ FreeListSound /\ Numbered
      BY <2>3, NewChain DEF SlotInv
    <3>2. 0 \in 0 .. BlockSize - 1
      BY SlotAssumption, SMT
    <3>3. PICK a \in Elements : a = <<nblocks, 0>>
      BY <3>1, <3>2 DEF Elements
    <3>4. ~InBlocks(a) /\ object[a] = None
      BY <3>1, <3>3, SlotAssumption, SMT DEF InBlocks, Numbered
    <3>5. objseq[o] = NoSeq /\ object' = [object EXCEPT ![a] = o]
      BY <2>3, <3>3 DEF AttachNew, Keep, NewElement
    <3> QED
      BY <3>4, <3>5, MapAdds
  <2>4. ASSUME NEW o \in Objs, AttachFails(o) PROVE UNCHANGED object
    BY <2>4 DEF AttachFails, vars
  <2>5. ASSUME NEW o \in Objs, Detach(o) PROVE Map!Remove
    BY <2>5, MapRemoves
  <2>6. CASE UNCHANGED vars
    BY <2>1, <2>6 DEF vars
  <2> QED
    BY <2>1, <2>2, <2>3, <2>4, <2>5, <2>6 DEF Next, Map!Next
<1> QED
  BY <1>1, <1>2, SlotInvariant, PTL DEF MapSpec, Map!Spec, Spec
=============================================================================

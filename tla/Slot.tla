-------------------------------- MODULE Slot --------------------------------
(***************************************************************************)
(* The slots of an event loop (comm/slot.h, netcomm/pollerunit.cpp): the   *)
(* numbers by which epoll and the messages of the rings name the objects   *)
(* of the loop.  Elements live in blocks, added one at a time and never    *)
(* given back; free elements form a list through freenext.                 *)
(***************************************************************************)
EXTENDS Integers, Sequences

CONSTANTS
  Objs,       \* objects of the loop
  None,
  BlockSize,  \* MAX_SLOT_ELEMENT_SIZE
  MaxBlocks,  \* 0xFFFF + 1
  Shift       \* 2^16: a number is the block's index and the element's

ASSUME SlotAssumption ==
  /\ None \notin Objs
  /\ {BlockSize, MaxBlocks, Shift} \subseteq Nat \ {0}
  /\ BlockSize <= Shift
  /\ MaxBlocks <= Shift

VARIABLES
  nblocks,   \* btable.size()
  object,    \* the object of each element
  seq,       \* the number of each element
  freenext,  \* its successor in the free list
  free,      \* the first of the free list
  objseq,    \* CPollerObject::seq of the objects attached
  chain      \* history: the free list, as a sequence

vars == <<nblocks, object, seq, freenext, free, objseq, chain>>

Elements == (0 .. MaxBlocks - 1) \X (0 .. BlockSize - 1)
InBlocks(e) == e[1] < nblocks
Words == 0 .. Shift * Shift - 1
NULL == <<-1, -1>>
NoSeq == -1

(* An element has no object, number or successor before its block is set   *)
(* up.                                                                     *)
SlotElement ==
  /\ object = [e \in Elements |-> None]
  /\ seq = [e \in Elements |-> NoSeq]
  /\ freenext = [e \in Elements |-> NULL]

Init ==
  /\ nblocks = 0
  /\ SlotElement
  /\ free = NULL
  /\ objseq = [o \in Objs |-> NoSeq]
  /\ chain = <<>>

-----------------------------------------------------------------------------
(* The number of an element, and the element of a number, if there is one. *)

(* Fault: the index is not shifted as far as the mask of the lookup.       *)
MutNumberOf(b, i) == (b * (Shift - 1) + i) % (Shift * Shift)
NumberOf(b, i) == b * Shift + i

(* Fault: the block after the last is taken to exist.                      *)
MutGetSlotElement(w) ==
  LET b == w \div Shift
      i == w % Shift
  IN IF b > nblocks \/ b >= MaxBlocks \/ i >= BlockSize THEN NULL ELSE <<b, i>>

getSlotElement(w) ==
  LET b == w \div Shift
      i == w % Shift
  IN IF b >= nblocks \/ i >= BlockSize THEN NULL ELSE <<b, i>>

-----------------------------------------------------------------------------
(* A new block: its elements are numbered and linked, and the old list,    *)
(* which is empty, hung behind them.  SlotBlock::init never returns -1:    *)
(* the new before it throws when there is no memory, which does not run    *)
(* out here.                                                               *)
NewElement(i) == <<nblocks, i>>

(* Fault: the last element is linked to one past the block.                *)
MutAfter(i) == NewElement(i + 1)
After(i) == IF i + 1 < BlockSize THEN NewElement(i + 1) ELSE free

expandBlock ==
  /\ nblocks < MaxBlocks
  /\ nblocks' = nblocks + 1
  /\ seq' = [e \in Elements |->
               IF e[1] = nblocks THEN NumberOf(e[1], e[2]) ELSE seq[e]]
  /\ freenext' = [e \in Elements |->
                    IF e[1] = nblocks THEN After(e[2]) ELSE freenext[e]]

BlockList == [i \in 1 .. BlockSize |-> NewElement(i - 1)]

(* setElement and setSeq: the object and its element name each other.      *)
Keep(o, e) ==
  /\ object' = [object EXCEPT ![e] = o]
  /\ objseq' = [objseq EXCEPT ![o] = seq'[e]]

(* addPollerObj, on the first free element.                                *)
Attach(o) ==
  /\ objseq[o] = NoSeq
  /\ free # NULL
  /\ UNCHANGED <<nblocks, seq, freenext>>
  /\ free' = freenext[free]
  /\ chain' = Tail(chain)
  /\ Keep(o, free)

(* addPollerObj, on the first element of a new block.                      *)
AttachNew(o) ==
  /\ objseq[o] = NoSeq
  /\ free = NULL
  /\ expandBlock
  /\ free' = freenext'[NewElement(0)]
  /\ chain' = Tail(BlockList \o chain)
  /\ Keep(o, NewElement(0))

(* addPollerObj with every block in use: -1, and the caller closes.        *)
AttachFails(o) ==
  /\ objseq[o] = NoSeq
  /\ free = NULL
  /\ nblocks = MaxBlocks
  /\ UNCHANGED vars

(* Fault: the object stays in the element.                                 *)
MutFreeOldSlot(e) ==
  /\ freenext' = [freenext EXCEPT ![e] = free]
  /\ UNCHANGED object
  /\ free' = e
  /\ chain' = <<e>> \o chain

(* Fault: free is set before it is read.                                   *)
MutFreeSwapped(e) ==
  /\ freenext' = [freenext EXCEPT ![e] = e]
  /\ object' = [object EXCEPT ![e] = None]
  /\ free' = e
  /\ chain' = <<e>> \o chain

freeOldSlot(e) ==
  /\ freenext' = [freenext EXCEPT ![e] = free]
  /\ object' = [object EXCEPT ![e] = None]
  /\ free' = e
  /\ chain' = <<e>> \o chain

(* delPollerObj; the object is dropped with it.                            *)
Detach(o) ==
  /\ objseq[o] # NoSeq
  /\ LET e == getSlotElement(objseq[o]) IN
       IF e # NULL /\ object[e] # None
         THEN freeOldSlot(e)
         ELSE UNCHANGED <<freenext, object, free, chain>>
  /\ objseq' = [objseq EXCEPT ![o] = NoSeq]
  /\ UNCHANGED <<nblocks, seq>>

Next ==
  \E o \in Objs : Attach(o) \/ AttachNew(o) \/ AttachFails(o) \/ Detach(o)

Spec == Init /\ [][Next]_vars

-----------------------------------------------------------------------------
(* Type correctness.                                                       *)
TypeOK ==
  /\ nblocks \in 0 .. MaxBlocks
  /\ object \in [Elements -> Objs \cup {None}]
  /\ seq \in [Elements -> Words \cup {NoSeq}]
  /\ freenext \in [Elements -> Elements \cup {NULL}]
  /\ free \in Elements \cup {NULL}
  /\ objseq \in [Objs -> Words \cup {NoSeq}]
  /\ chain \in Seq(Elements)

(* The free list, followed from free through freenext, is the chain of     *)
(* what was freed last and what was never used, and ends: no element is on *)
(* it twice, and those on it are just those that hold no object            *)
(* (slot.h:146, slot.h:163, slot.h:225).                                   *)
Successor(i) == IF i < Len(chain) THEN chain[i + 1] ELSE NULL

FreeListSound ==
  /\ free = IF chain = <<>> THEN NULL ELSE chain[1]
  /\ \A i \in DOMAIN chain : freenext[chain[i]] = Successor(i)
  /\ \A i, j \in DOMAIN chain : chain[i] = chain[j] => i = j
  /\ \A e \in Elements :
       (InBlocks(e) /\ object[e] = None) <=> (\E i \in DOMAIN chain : chain[i] = e)

(* Any number, of an event or of a message, finds the element that has     *)
(* this number, or nothing when no element has it (slot.h:200).            *)
LookupRight ==
  \A w \in Words :
    LET e == getSlotElement(w) IN
    IF e = NULL
      THEN \A f \in Elements : InBlocks(f) => seq[f] # w
      ELSE e \in Elements /\ seq[e] = w

(* Objects find themselves under their own numbers: what is attached stays *)
(* in its element until it is detached, whatever else comes and goes       *)
(* (pollerunit.cpp:121, pollerunit.cpp:146).                               *)
Found ==
  \A o \in Objs :
    objseq[o] # NoSeq =>
      /\ getSlotElement(objseq[o]) # NULL
      /\ object[getSlotElement(objseq[o])] = o

(* The slots implement the map from numbers to objects.                    *)
Numbers == {NumberOf(e[1], e[2]) : e \in Elements}
ObjectAt == [w \in Numbers |-> object[<<w \div Shift, w % Shift>>]]

Map == INSTANCE SlotMap WITH Seqs <- Numbers, object <- ObjectAt
MapSpec == Map!Spec
=============================================================================

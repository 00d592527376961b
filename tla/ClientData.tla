----------------------------- MODULE ClientData -----------------------------
(***************************************************************************)
(* CClientData (netcomm/clientdata.cpp): the cache of a connection, a      *)
(* buffer that grows when it is written and goes back to its first size    *)
(* when what is left fits.  Bytes from r to w - 1 wait to be read.         *)
(*                                                                         *)
(* A buffer is a function on its capacity, so that a byte outside of it is *)
(* no byte.  Two assumptions: realloc succeeds, and memcpy copies towards  *)
(* the front as memmove does where the areas overlap, which the language   *)
(* does not promise and not every C library keeps.                         *)
(***************************************************************************)
EXTENDS Integers, Sequences

CONSTANTS
  Bytes,     \* the values of a byte
  BuffSize,  \* CLIENT_DATA_BUFF_SIZE
  Junk       \* what fresh memory holds

ASSUME ClientDataAssumption ==
  /\ BuffSize \in Nat \ {0}
  /\ Junk \in Bytes

Cache(data, r, w, cap) == [data |-> data, r |-> r, w |-> w, cap |-> cap]

NewCache == Cache([i \in 0 .. BuffSize - 1 |-> Junk], 0, 0, BuffSize)

(* getReadbleData: the address and the length, as the bytes there.         *)
Readable(c) == [i \in 1 .. c.w - c.r |-> c.data[c.r + i - 1]]

(* realloc keeps what both sizes hold.                                     *)
Realloc(c, size) ==
  Cache([i \in 0 .. size - 1 |-> IF i < c.cap THEN c.data[i] ELSE Junk],
        c.r, c.w, size)

(* expandeSpace, if what is to be written does not fit behind w; two more  *)
(* bytes are reserved than the sum needs.                                  *)
(* Fault: the room needed is counted from the read position.               *)
MutExpand(c, n) ==
  IF c.cap - (c.w - c.r) < n THEN Realloc(c, c.w + n + 2) ELSE c
Expand(c, n) == IF c.cap - c.w < n THEN Realloc(c, c.w + n + 2) ELSE c

Write(c, s) ==
  LET n == Len(s)
      b == Expand(c, n)
  IN  Cache([i \in 0 .. b.cap - 1 |->
               IF i \in b.w .. b.w + n - 1 THEN s[i - b.w + 1] ELSE b.data[i]],
            b.r, b.w + n, b.cap)

(* revertSpace: a cache that has grown shrinks when what it holds fits.    *)
Revert(c) ==
  IF c.cap > BuffSize /\ c.w < BuffSize THEN Realloc(c, BuffSize) ELSE c

(* What is readable moves to the front.                                    *)
(* Fault: the bytes are copied from the last to the first, over those that *)
(* are still to be copied.                                                 *)
MutMoveToFront(c) ==
  LET n == c.w - c.r
  IN  Cache([i \in 0 .. c.cap - 1 |->
               IF i >= n THEN c.data[i]
               ELSE IF c.r = 0 THEN c.data[i]
               ELSE c.data[i + c.r * (((n - 1 - i) \div c.r) + 1)]],
            0, n, c.cap)
MoveToFront(c) ==
  LET n == c.w - c.r
  IN  Cache([i \in 0 .. c.cap - 1 |->
               IF i < n THEN c.data[c.r + i] ELSE c.data[i]],
            0, n, c.cap)

AlignPosition(c) == Revert(MoveToFront(c))

(* alignPosition(prolen): the next n bytes have been read.                 *)
(* Fault: they are skipped by the plug-in already.                         *)
MutAlignPositionBy(c, n) ==
  AlignPosition(Cache(c.data, c.r + n + n, c.w, c.cap))
AlignPositionBy(c, n) == AlignPosition(Cache(c.data, c.r + n, c.w, c.cap))
=============================================================================

----------------------------- MODULE ByteStream -----------------------------
(***************************************************************************)
(* What a buffer between two parties promises: the bytes put in come out   *)
(* once, unchanged and in order, in whatever pieces they are taken.        *)
(***************************************************************************)
EXTENDS Naturals, Sequences

VARIABLES input, stream, output

Init == input = <<>> /\ stream = <<>> /\ output = <<>>

(* The bytes put are those the input grows by.                             *)
Put ==
  LET new == SubSeq(input', Len(input) + 1, Len(input'))
  IN  /\ input' = input \o new
      /\ stream' = stream \o new
      /\ UNCHANGED output

Take ==
  \E n \in 0 .. Len(stream) :
    /\ output' = output \o SubSeq(stream, 1, n)
    /\ stream' = SubSeq(stream, n + 1, Len(stream))
    /\ UNCHANGED input

Next == Put \/ Take

Spec == Init /\ [][Next]_<<input, stream, output>>
=============================================================================

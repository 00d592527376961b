------------------------------ MODULE Channel ------------------------------
(***************************************************************************)
(* What a ring between one sender and one receiver promises: the receiver  *)
(* gets the messages sent, each whole, once, and in the order of sending.  *)
(***************************************************************************)
EXTENDS Naturals, Sequences

CONSTANT Message

VARIABLES sent, rcvd

Init == sent = <<>> /\ rcvd = <<>>

Send == \E m \in Message : sent' = Append(sent, m) /\ UNCHANGED rcvd

Receive ==
  /\ Len(rcvd) < Len(sent)
  /\ rcvd' = Append(rcvd, sent[Len(rcvd) + 1])
  /\ UNCHANGED sent

Next == Send \/ Receive

Spec == Init /\ [][Next]_<<sent, rcvd>>
=============================================================================

------------------------------ MODULE SlotMap ------------------------------
(***************************************************************************)
(* What the slots of the event loop promise: each object kept is under a   *)
(* number of its own, by which it is found until it is removed.            *)
(***************************************************************************)
CONSTANTS Seqs, Objs, None

VARIABLE object  \* the object under each number

Init == object = [s \in Seqs |-> None]

Add ==
  \E s \in Seqs, o \in Objs :
    /\ object[s] = None
    /\ \A t \in Seqs : object[t] # o
    /\ object' = [object EXCEPT ![s] = o]

Remove ==
  \E s \in Seqs :
    /\ object[s] # None
    /\ object' = [object EXCEPT ![s] = None]

Next == Add \/ Remove

Spec == Init /\ [][Next]_object
=============================================================================

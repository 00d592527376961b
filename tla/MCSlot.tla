------------------------------- MODULE MCSlot -------------------------------
(* Instances of Slot for TLC.                                              *)
EXTENDS Slot, TLC

ObjSymmetry == Permutations(Objs)
=============================================================================

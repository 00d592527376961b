---------------------------- MODULE MCShmRestart ----------------------------
(***************************************************************************)
(* ShmRestart for TLC.  After a restart the same bytes may be dequeued     *)
(* again and again, so the histories grow without end; no guard and no     *)
(* other variable depends on them, and RestartView leaves them out of what *)
(* tells two states apart.                                                 *)
(***************************************************************************)
EXTENDS ShmRestart

RestartView == <<shared, prod, cons, nextId, bootVars>>
=============================================================================

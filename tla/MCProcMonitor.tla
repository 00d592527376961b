--------------------------- MODULE MCProcMonitor ---------------------------
(* ProcMonitor for TLC: one group of one process, as initconf has for the  *)
(* proxies, or no proxy and a group of one or two workers (one to four in  *)
(* initconf).                                                              *)
EXTENDS ProcMonitor, TLC

OneProc == <<1>>
OneWorker == <<0, 1>>
TwoWorkers == <<0, 2>>

PidSymmetry == Permutations(Pids)
=============================================================================

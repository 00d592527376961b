----------------------------- MODULE ShmRestart -----------------------------
(***************************************************************************)
(* The ring of ShmRing with processes that are killed, end and start.      *)
(* A process that starts runs createShm on the segment, which sets both    *)
(* counters and both indices to zero whether or not the segment existed    *)
(* and whatever its peers are doing (netcomm/cshmcommu.cpp:20-68, called   *)
(* by the constructors in netcomm/processcomm.cpp:9-13 and 48-52).  Where  *)
(* shmget or shmat fails, nothing is stored in the segment, and the        *)
(* process, which does not look at the result, dies at its first access    *)
(* to the ring: here that is a process that stays down.                    *)
(***************************************************************************)
EXTENDS ShmRing

CONSTANT MaxCrashes   \* bound: processes that end

Processes == Producers \cup Consumers

ASSUME RestartAssumption ==
  /\ Producers \cap Consumers = {}
  /\ MaxCrashes \in Nat

VARIABLES
  boot,     \* where a process is in createShm; "up" when it has returned
  reload,   \* what a process loads back from *tail, to store it in *head
  crashes   \* history: processes that ended

bootVars == <<boot, reload, crashes>>
allVars == <<vars, bootVars>>

(* A new segment is filled with zeros; every process has yet to start.     *)
RestartInit ==
  /\ Init
  /\ boot = [p \in Processes |-> "down"]
  /\ reload = [p \in Processes |-> 0]
  /\ crashes = 0

At(p, from, to) == boot[p] = from /\ boot' = [boot EXCEPT ![p] = to]

BootCurrMsgNum(p) ==
  /\ At(p, "down", "history")
  /\ currMsgNum' = 0
  /\ UNCHANGED <<head, tail, block, historyMsgNum, prod, cons, history,
                 reload, crashes>>

BootHistoryMsgNum(p) ==
  /\ At(p, "history", "tail")
  /\ historyMsgNum' = 0
  /\ UNCHANGED <<head, tail, block, currMsgNum, prod, cons, history,
                 reload, crashes>>

(* *head = *tail = 0 stores to *tail, loads it again, and stores that.     *)
BootTail(p) ==
  /\ At(p, "tail", "reload")
  /\ tail' = 0
  /\ UNCHANGED <<head, block, currMsgNum, historyMsgNum, prod, cons, history,
                 reload, crashes>>

BootReload(p) ==
  /\ At(p, "reload", "head")
  /\ reload' = [reload EXCEPT ![p] = tail]
  /\ UNCHANGED <<shared, prod, cons, history, crashes>>

(* Fault: the ring is reset to the end of the block.                       *)
MutBootHeadEnd(p) ==
  /\ At(p, "head", "up")
  /\ head' = BlockSize
  /\ UNCHANGED <<tail, block, currMsgNum, historyMsgNum, prod, cons, history,
                 reload, crashes>>

BootHead(p) ==
  /\ At(p, "head", "up")
  /\ head' = reload[p]
  /\ UNCHANGED <<tail, block, currMsgNum, historyMsgNum, prod, cons, history,
                 reload, crashes>>

(* A process is killed, or ends, at any point; its locals go with it.      *)
Crash(p) ==
  /\ crashes < MaxCrashes
  /\ boot[p] # "down"
  /\ boot' = [boot EXCEPT ![p] = "down"]
  /\ crashes' = crashes + 1
  /\ prod' = [q \in Producers |-> IF q = p THEN IdleProducer ELSE prod[q]]
  /\ cons' = [q \in Consumers |-> IF q = p THEN IdleConsumer ELSE cons[q]]
  /\ UNCHANGED <<shared, history, reload>>

Boot(p) ==
  \/ BootCurrMsgNum(p) \/ BootHistoryMsgNum(p)
  \/ BootTail(p) \/ BootReload(p) \/ BootHead(p)

(* What a process does with a ring it has attached.                        *)
Produce(p) == boot[p] = "up" /\ Enqueue(p)
Consume(c) == boot[c] = "up" /\ Dequeue(c)

Operate ==
  /\ (\E p \in Producers : Produce(p)) \/ (\E c \in Consumers : Consume(c))
  /\ UNCHANGED bootVars

RestartNext == Operate \/ \E p \in Processes : Boot(p) \/ Crash(p)

RestartSpec == RestartInit /\ [][RestartNext]_allVars

-----------------------------------------------------------------------------
(* The type invariant: what a process reloads is an index of the block.    *)
RestartTypeOK ==
  /\ TypeOK
  /\ boot \in [Processes -> {"down", "history", "tail", "reload", "head", "up"}]
  /\ reload \in [Processes -> 0 .. BlockSize - 1]
  /\ crashes \in 0 .. MaxCrashes
=============================================================================
